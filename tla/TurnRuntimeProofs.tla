------------------------- MODULE TurnRuntimeProofs -------------------------
(***************************************************************************)
(* What holds of TurnRuntime for every set of threads, handlers and gate   *)
(* ids, and every number of interrupts, runs and restarts: its types; that *)
(* on a thread whose clients neither overlap requests nor send a command   *)
(* over an open question a verdict reaches the interrupt it was given for, *)
(* no interrupt is answered twice, and the gate store shows the one        *)
(* question the thread is parked on; that, when the thread's last turn     *)
(* ended normally, gate store and last frame tell what it waits for; and   *)
(* that it implements the safety of Conversation: each step of the engine  *)
(* is a step of the conversations its threads stand for, or none.          *)
(***************************************************************************)
EXTENDS TurnRefinement, TLAPS

\* Local state of the handlers that the types below do not say.
HandlerInv ==
    /\ \A g \in Gates : status[g] # "unused" => asks[g] \in Pauses
    /\ \A r \in Requests : pc[r] # "idle" => thr[r] \in Threads
    /\ \A r \in Requests : pc[r] = "mark" => gate[r] \in Gates
    /\ \A r \in Requests : gate[r] # None =>
          status[gate[r]] # "unused" /\ asks[gate[r]].thread = thr[r]
    /\ \A r \in Requests : pc[r] = "walk" => ~pos[r].parked
    /\ \A t \in Threads : graph[t].parked => graph[t].at \in 1 .. Last
    /\ \A r \in Requests : pos[r].parked => pos[r].at \in 1 .. Last

\* A turn that moves its thread's checkpoint leaves the state well formed.
LEMMA MoveToKeepsTypes ==
    ASSUME TypeOK, HandlerInv, NEW r \in Requests, pc[r] # "idle",
           NEW c \in Checkpoint, NEW step \in {"walk", "sync"},
           c.parked => c.at \in 1 .. Last,
           step = "walk" => ~c.parked,
           MoveTo(r, c, step),
           UNCHANGED <<store, thr, gate, frame, restarts, excuse, overlapped, recommanded>>,
           fed' \in [Gates -> SUBSET [pause : Pauses, by : Requests]]
    PROVE  TypeOK' /\ HandlerInv'
<1> USE DEF store, Steps
<1>1. thr[r] \in Threads
  BY DEF HandlerInv
<1>2. graph' \in [Threads -> Checkpoint] /\ pos' \in [Requests -> Checkpoint]
  BY <1>1 DEF TypeOK, MoveTo
<1>3. pc' \in [Requests -> Steps]
  BY DEF TypeOK, MoveTo, Goto
<1>4. TypeOK'
  BY <1>2, <1>3 DEF TypeOK
<1>5. (\A q \in Requests : pc[q] = "walk" => ~pos[q].parked)'
  BY DEF TypeOK, HandlerInv, MoveTo, Goto
<1>6. (\A t \in Threads : graph[t].parked => graph[t].at \in 1 .. Last)'
  BY <1>1 DEF TypeOK, HandlerInv, MoveTo
<1>7. (\A q \in Requests : pos[q].parked => pos[q].at \in 1 .. Last)'
  BY DEF TypeOK, HandlerInv, MoveTo
<1>8. (\A q \in Requests : pc[q] # "idle" => thr[q] \in Threads)'
  BY DEF TypeOK, HandlerInv, MoveTo, Goto
<1>9. (\A q \in Requests : pc[q] = "mark" => gate[q] \in Gates)'
  BY DEF TypeOK, HandlerInv, MoveTo, Goto
<1>10. (\A g \in Gates : status[g] # "unused" => asks[g] \in Pauses)'
  BY DEF HandlerInv, Pauses
<1>11. (\A q \in Requests : gate[q] # None =>
           status[gate[q]] # "unused" /\ asks[gate[q]].thread = thr[q])'
  BY DEF HandlerInv
<1>12. QED
  BY <1>4, <1>5, <1>6, <1>7, <1>8, <1>9, <1>10, <1>11 DEF HandlerInv

\* The interrupt a checkpoint with work left stands at is one of the thread's.
LEMMA PauseIsTyped ==
    ASSUME NEW t \in Threads, NEW c \in Checkpoint, HasWork(c)
    PROVE  /\ Pause(t, c) \in Pauses
           /\ c.at \in 1 .. Last
           /\ Answered(c) \in Checkpoint /\ ~Answered(c).parked
<1>1. c.run \in Nat /\ c.at \in 1 .. Last + 1 /\ c.parked \in BOOLEAN
  BY DEF Checkpoint
<1>2. c.at \in 1 .. Last /\ c.at + 1 \in 1 .. Last + 1
  BY <1>1, TurnRuntimeAssumption DEF HasWork
<1>3. Pause(t, c) \in Pauses
  BY <1>1 DEF Pause, Pauses
<1>4. QED
  BY <1>1, <1>2, <1>3 DEF Checkpoint, Answered

\* Feeding an answer keeps the history of answers well typed.
LEMMA FeedIsTyped ==
    ASSUME TypeOK, NEW r \in Requests, gate[r] # None, NEW p \in Pauses, Feed(r, p)
    PROVE  fed' \in [Gates -> SUBSET [pause : Pauses, by : Requests]]
<1>1. gate[r] \in Gates
  BY DEF TypeOK
<1>2. fed[gate[r]] \cup {[pause |-> p, by |-> r]} \in SUBSET [pause : Pauses, by : Requests]
  BY <1>1 DEF TypeOK
<1>3. QED
  BY <1>1, <1>2 DEF TypeOK, Feed

\* Every reachable state is well typed: the handlers, the store and the
\* checkpoints keep the ranges the code gives them.
THEOREM TypeCorrect == Spec => [](TypeOK /\ HandlerInv)
<1> USE TurnRuntimeAssumption
<1>1. Init => TypeOK /\ HandlerInv
  BY DEF Init, TypeOK, HandlerInv, Nowhere, Ended, Checkpoint, Steps
<1>2. TypeOK /\ HandlerInv /\ [Next]_vars => (TypeOK /\ HandlerInv)'
  <2> SUFFICES ASSUME TypeOK, HandlerInv, [Next]_vars
               PROVE  (TypeOK /\ HandlerInv)'
    OBVIOUS
  <2> USE DEF TypeOK, HandlerInv, Steps, Checkpoint, Pauses, store, history
  <2>1. ASSUME NEW r \in Requests, NEW t \in Threads, Invoke(r, t)
        PROVE  (TypeOK /\ HandlerInv)'
    BY <2>1 DEF Invoke, Enter, Goto
  <2>2. ASSUME NEW r \in Requests, NEW g \in Gates, ResolveCheck(r, g)
        PROVE  (TypeOK /\ HandlerInv)'
    BY <2>2 DEF ResolveCheck, Resolvable, ThreadOf, Enter, Goto
  <2>3. ASSUME NEW r \in Requests, ResolveMark(r)
        PROVE  (TypeOK /\ HandlerInv)'
    BY <2>3 DEF ResolveMark, Mark, Goto
  <2>4. ASSUME NEW r \in Requests, Load(r)
        PROVE  (TypeOK /\ HandlerInv)'
    BY <2>4 DEF Load, Goto
  <2>5. ASSUME NEW r \in Requests, RunStart(r)
        PROVE  (TypeOK /\ HandlerInv)'
    BY <2>5 DEF RunStart, FreshInput, NextRun, MoveTo, Goto
  <2>6. ASSUME NEW r \in Requests, RunResume(r)
        PROVE  (TypeOK /\ HandlerInv)'
    <3>1. thr[r] \in Threads /\ pos[r] \in Checkpoint
      BY <2>6 DEF RunResume, FreshInput
    <3>2. CASE MoveTo(r, Answered(pos[r]), "walk") /\ Feed(r, Pause(thr[r], pos[r]))
      BY <2>6, <3>1, <3>2, MoveToKeepsTypes, FeedIsTyped, PauseIsTyped DEF RunResume, FreshInput
    <3>3. CASE ~pos[r].parked /\ MoveTo(r, pos[r], "walk") /\ UNCHANGED fed
      BY <2>6, <3>1, <3>3, MoveToKeepsTypes DEF RunResume, FreshInput
    <3>4. QED
      BY <2>6, <3>2, <3>3 DEF RunResume, FreshInput
  <2>7. ASSUME NEW r \in Requests, RunNothing(r)
        PROVE  (TypeOK /\ HandlerInv)'
    BY <2>7 DEF RunNothing, FreshInput, Goto
  <2>8. ASSUME NEW r \in Requests, Walk(r)
        PROVE  (TypeOK /\ HandlerInv)'
    <3> DEFINE stop == [pos[r] EXCEPT !.parked = TRUE]
               end  == [pos[r] EXCEPT !.at = Last + 1]
    <3>1. thr[r] \in Threads /\ pos[r] \in Checkpoint
      BY <2>8 DEF Walk
    <3>2. CASE HasWork(pos[r]) /\ MoveTo(r, stop, "sync")
      <4>1. stop \in Checkpoint /\ stop.at \in 1 .. Last
        BY <3>1, <3>2, PauseIsTyped
      <4>2. QED
        BY <2>8, <3>2, <4>1, MoveToKeepsTypes DEF Walk
    <3>3. CASE MoveTo(r, end, "sync")
      <4>1. end \in Checkpoint /\ ~end.parked
        BY SMTT(30), <2>8, <3>1 DEF Walk
      <4>2. QED
        BY <2>8, <3>3, <4>1, MoveToKeepsTypes DEF Walk
    <3>4. QED
      BY <2>8, <3>2, <3>3 DEF Walk
  <2>9. ASSUME NEW r \in Requests, Fail(r)
        PROVE  (TypeOK /\ HandlerInv)'
    <3>1. thr[r] \in Threads /\ pos[r] \in Checkpoint /\ Nowhere \in Checkpoint
      BY <2>9 DEF Fail, MayRaise, Nowhere, Ended
    <3>2. fed' \in [Gates -> SUBSET [pause : Pauses, by : Requests]]
      BY <2>9, <3>1, FeedIsTyped, PauseIsTyped DEF Fail, FreshInput
    <3>3. TypeOK'
      BY <2>9, <3>1, <3>2 DEF Fail, Leave, Goto
    <3>4. HandlerInv'
      BY <2>9, <3>1 DEF Fail, Leave, Goto, Nowhere, Ended
    <3>5. QED
      BY <3>3, <3>4
  <2>10. ASSUME NEW r \in Requests, SyncRead(r)
         PROVE  (TypeOK /\ HandlerInv)'
    BY <2>10 DEF SyncRead, Goto
  <2>11. ASSUME NEW r \in Requests, SyncClose(r)
         PROVE  (TypeOK /\ HandlerInv)'
    BY <2>11 DEF SyncClose, ToClose, OpenOn, Goto
  <2>12. ASSUME NEW r \in Requests, SyncOpen(r)
         PROVE  (TypeOK /\ HandlerInv)'
    BY <2>12 DEF SyncOpen, Unused, Pause, Goto
  <2>13. ASSUME NEW r \in Requests, Publish(r)
         PROVE  (TypeOK /\ HandlerInv)'
    BY <2>13 DEF Publish, FrameFor, Leave, Goto, Nowhere, Ended
  <2>14. CASE Restart
    <3>1. ASSUME NEW t \in Threads
          PROVE  graph'[t] \in Checkpoint /\ (graph'[t].parked => graph'[t].at \in 1 .. Last)
      <4>1. CASE Durable
        BY <2>14, <4>1 DEF Restart
      <4>2. CASE ~Durable
        BY <2>14, <4>2 DEF Restart, Ended
      <4>3. QED
        BY <4>1, <4>2
    <3>2. graph' \in [Threads -> Checkpoint]
      <4>1. graph' = [t \in Threads |-> graph'[t]]
        BY <2>14 DEF Restart
      <4>2. QED
        BY <3>1, <4>1
    <3>3. TypeOK'
      <4>1. /\ status' \in [Gates -> {"unused", "open", "resolved", "superseded", "lost"}]
            /\ pos' \in [Requests -> Checkpoint]
        BY <2>14 DEF Restart, Unused, Nowhere, Ended
      <4>2. /\ pc' \in [Requests -> Steps]
            /\ thr' \in [Requests -> Threads \cup {None}]
            /\ gate' \in [Requests -> Gates \cup {None}]
            /\ frame' \in [Threads -> {"none", "opened", "completed"}]
            /\ restarts' \in Nat
            /\ excuse' \in [Threads -> {"none", "failed", "restarted"}]
            /\ UNCHANGED <<asks, fed, overlapped, recommanded>>
        BY <2>14 DEF Restart
      <4>3. QED
        BY <3>2, <4>1, <4>2
    <3>4. HandlerInv'
      BY <2>14, <3>1 DEF Restart, Unused, Nowhere, Ended
    <3>5. QED
      BY <3>3, <3>4
  <2>15. CASE UNCHANGED vars
    BY <2>15 DEF vars, handlers
  <2>16. QED
    BY <2>1, <2>2, <2>3, <2>4, <2>5, <2>6, <2>7, <2>8, <2>9, <2>10, <2>11,
       <2>12, <2>13, <2>14, <2>15 DEF Next, Turn
<1>3. QED
  BY <1>1, <1>2, PTL DEF Spec

-----------------------------------------------------------------------------
(* The questions and answers.                                              *)

\* At most one handler is at work on a thread.
Serial ==
    \A q, r \in Requests :
        pc[q] # "idle" /\ pc[r] # "idle" /\ thr[q] = thr[r] /\ ~overlapped[thr[r]] => q = r

\* The record a handler is about to close is still open.
MarkedIsOpen ==
    \A r \in Requests : pc[r] = "mark" /\ ~overlapped[thr[r]] => status[gate[r]] = "open"

\* Once the record is closed, or a command came, nothing is open on the thread
\* until the turn opens its own record.
AtWork == {"load", "run", "walk", "sync", "write"}
NothingOpenAtWork ==
    \A r \in Requests :
        /\ pc[r] \in AtWork \/ (pc[r] = "publish" /\ ~pos[r].parked)
        /\ Trusted(thr[r])
        => OpenOn(thr[r]) = {}

\* A verdict on its way finds the thread parked on the interrupt it is for.
AnswerIsForPause ==
    \A r \in Requests :
        pc[r] \in {"load", "run"} /\ gate[r] # None /\ Trusted(thr[r]) =>
            /\ graph[thr[r]].parked
            /\ asks[gate[r]] = Pause(thr[r], graph[thr[r]])

\* A turn works from its thread's latest checkpoint.
WorksFromLatest ==
    \A r \in Requests :
        pc[r] \in {"run", "walk", "write", "publish"} /\ ~overlapped[thr[r]] =>
            pos[r] = graph[thr[r]]

Before(p, c)   == p.run < c.run \/ (p.run = c.run /\ p.at < c.at)
NotAfter(p, c) == p.run < c.run \/ (p.run = c.run /\ p.at <= c.at)

\* The thread has a question open, or an answer or a new question on its way.
Asking(t) ==
    \/ OpenOn(t) # {}
    \/ \E r \in Requests :
          /\ thr[r] = t
          /\ \/ pc[r] \in {"walk", "sync", "write"}
             \/ pc[r] \in {"load", "run"} /\ gate[r] # None

\* The interrupts that consumed an answer are not ahead of their thread, and
\* behind it while one can still be asked or answered.
FedIsPast ==
    \A g \in Gates : \A f \in fed[g] :
        Trusted(f.pause.thread) =>
            /\ NotAfter(f.pause, graph[f.pause.thread])
            /\ Asking(f.pause.thread) => Before(f.pause, graph[f.pause.thread])

\* Answers come from records, of the thread they were fed on.
FedIsAsked ==
    \A g \in Gates : \A f \in fed[g] :
        status[g] # "unused" /\ f.pause.thread = asks[g].thread

AnswersInv ==
    /\ Serial /\ MarkedIsOpen /\ NothingOpenAtWork /\ AnswerIsForPause
    /\ WorksFromLatest /\ FedIsPast /\ FedIsAsked
    /\ OneCurrentQuestion /\ AnswerReachesItsQuestion /\ QuestionAnsweredOnce

\* What the action proofs below start from.
WellFormed == TypeOK /\ HandlerInv /\ AnswersInv

\* A step that feeds nothing leaves what was fed where it was.
LEMMA FedStays ==
    ASSUME WellFormed, fed' = fed,
           \A t \in Threads : Trusted(t)' => Trusted(t),
           \A g \in Gates : status[g] # "unused" =>
               status'[g] # "unused" /\ asks'[g] = asks[g]
    PROVE  FedIsAsked' /\ AnswerReachesItsQuestion' /\ QuestionAnsweredOnce'
<1> USE DEF WellFormed, AnswersInv
<1>1. FedIsAsked'
  BY DEF FedIsAsked
<1>2. AnswerReachesItsQuestion'
  BY DEF AnswerReachesItsQuestion, FedIsAsked, TypeOK, Pauses
<1>3. QuestionAnsweredOnce'
  BY DEF QuestionAnsweredOnce, TypeOK, Pauses
<1>4. QED
  BY <1>1, <1>2, <1>3

\* ... and where it was is still the past, unless the step starts asking or
\* takes its thread back.
LEMMA PastStays ==
    ASSUME WellFormed, fed' = fed,
           \A t \in Threads : Trusted(t)' =>
               /\ Trusted(t)
               /\ graph'[t] = graph[t]
               /\ Asking(t)' => Asking(t)
    PROVE  FedIsPast'
<1> USE DEF WellFormed, AnswersInv
<1> SUFFICES ASSUME NEW g \in Gates, NEW f \in fed[g], Trusted(f.pause.thread)'
             PROVE  /\ NotAfter(f.pause, graph'[f.pause.thread])
                    /\ Asking(f.pause.thread)' => Before(f.pause, graph'[f.pause.thread])
  BY DEF FedIsPast, NotAfter, Before
<1>1. f.pause.thread \in Threads
  BY DEF TypeOK, Pauses
<1>2. QED
  BY <1>1 DEF FedIsPast

LEMMA InvokeKeeps ==
    ASSUME WellFormed, NEW r \in Requests, NEW t \in Threads, Invoke(r, t)
    PROVE  AnswersInv'
<1> USE DEF store
<1>0. /\ pc[r] = "idle" /\ pc' = [pc EXCEPT ![r] = "load"]
      /\ thr' = [thr EXCEPT ![r] = t] /\ gate' = [gate EXCEPT ![r] = None]
      /\ overlapped' = [overlapped EXCEPT ![t] = @ \/ ~Quiescent(t)]
      /\ recommanded' = [recommanded EXCEPT ![t] = @ \/ OpenOn(t) # {}]
      /\ UNCHANGED <<graph, status, asks, pos, fed>>
      /\ TypeOK /\ HandlerInv /\ AnswersInv
  BY DEF Invoke, Enter, Goto, WellFormed
<1>o. \A u \in Threads : OpenOn(u)' = OpenOn(u)
  BY <1>0 DEF OpenOn
<1>t. /\ \A u \in Threads : ~overlapped'[u] => ~overlapped[u]
      /\ \A u \in Threads : Trusted(u)' => Trusted(u)
      /\ Trusted(t)' => OpenOn(t) = {}
      /\ ~overlapped'[t] => Quiescent(t)
  BY <1>0 DEF Trusted, TypeOK
<1>q. ~overlapped'[t] => \A q \in Requests : pc[q] # "idle" => thr[q] # t
  BY <1>t DEF Quiescent, InFlight
<1>1. Serial'
  BY <1>0, <1>t, <1>q DEF Serial, AnswersInv, TypeOK, HandlerInv
<1>2. MarkedIsOpen'
  BY <1>0 DEF MarkedIsOpen, AnswersInv, TypeOK, HandlerInv
<1>3. NothingOpenAtWork'
  BY <1>0, <1>o, <1>t DEF NothingOpenAtWork, AtWork, AnswersInv, TypeOK, HandlerInv
<1>4. AnswerIsForPause'
  BY <1>0, <1>t DEF AnswerIsForPause, AnswersInv, TypeOK, HandlerInv, Pause
<1>5. WorksFromLatest'
  BY <1>0, <1>t DEF WorksFromLatest, AnswersInv, TypeOK, HandlerInv
<1>6. FedIsPast'
  <2>1. \A u \in Threads : Asking(u)' => Asking(u)
    BY <1>0, <1>o DEF Asking, TypeOK
  <2>2. QED
    BY <1>0, <1>t, <2>1, PastStays
<1>7. OneCurrentQuestion'
  BY <1>0, <1>o, <1>t DEF OneCurrentQuestion, AnswersInv, Pause
<1>8. QED
  BY <1>0, <1>1, <1>2, <1>3, <1>4, <1>5, <1>6, <1>7, <1>t, FedStays DEF AnswersInv

LEMMA ResolveCheckKeeps ==
    ASSUME WellFormed, NEW r \in Requests, NEW g \in Gates, ResolveCheck(r, g)
    PROVE  AnswersInv'
<1> USE DEF store
<1> DEFINE t == asks[g].thread
<1>0. /\ pc[r] = "idle" /\ pc' = [pc EXCEPT ![r] = "mark"]
      /\ thr' = [thr EXCEPT ![r] = t] /\ gate' = [gate EXCEPT ![r] = g]
      /\ overlapped' = [overlapped EXCEPT ![t] = @ \/ ~Quiescent(t)]
      /\ status[g] = "open" /\ t \in Threads
      /\ UNCHANGED <<graph, status, asks, pos, fed, recommanded>>
      /\ TypeOK /\ HandlerInv /\ AnswersInv
  BY DEF ResolveCheck, Resolvable, ThreadOf, Enter, Goto, WellFormed, HandlerInv, Pauses
<1>o. \A u \in Threads : OpenOn(u)' = OpenOn(u)
  BY <1>0 DEF OpenOn
<1>t. /\ \A u \in Threads : ~overlapped'[u] => ~overlapped[u]
      /\ \A u \in Threads : Trusted(u)' => Trusted(u)
      /\ ~overlapped'[t] => Quiescent(t)
  BY <1>0 DEF Trusted, TypeOK
<1>q. ~overlapped'[t] => \A q \in Requests : pc[q] # "idle" => thr[q] # t
  BY <1>t DEF Quiescent, InFlight
<1> HIDE DEF t
<1>1. Serial'
  BY <1>0, <1>t, <1>q DEF Serial, AnswersInv, TypeOK, HandlerInv
<1>2. MarkedIsOpen'
  BY <1>0, <1>t DEF MarkedIsOpen, AnswersInv, TypeOK, HandlerInv
<1>3. NothingOpenAtWork'
  BY <1>0, <1>o, <1>t DEF NothingOpenAtWork, AtWork, AnswersInv, TypeOK, HandlerInv
<1>4. AnswerIsForPause'
  BY <1>0, <1>t DEF AnswerIsForPause, AnswersInv, TypeOK, HandlerInv, Pause
<1>5. WorksFromLatest'
  BY <1>0, <1>t DEF WorksFromLatest, AnswersInv, TypeOK, HandlerInv
<1>6. FedIsPast'
  <2>1. \A u \in Threads : Asking(u)' => Asking(u)
    BY <1>0, <1>o DEF Asking, TypeOK
  <2>2. QED
    BY <1>0, <1>t, <2>1, PastStays
<1>7. OneCurrentQuestion'
  BY <1>0, <1>o, <1>t DEF OneCurrentQuestion, AnswersInv, Pause
<1>8. QED
  BY <1>0, <1>1, <1>2, <1>3, <1>4, <1>5, <1>6, <1>7, <1>t, FedStays DEF AnswersInv

\* A handler at work on a thread nobody misused is the only one there.
LEMMA WorksAlone ==
    ASSUME WellFormed, NEW r \in Requests, pc[r] # "idle"
    PROVE  /\ thr[r] \in Threads
           /\ \A q \in Requests :
                 pc[q] # "idle" /\ thr[q] = thr[r] /\ ~overlapped[thr[r]] => q = r
BY DEF WellFormed, HandlerInv, AnswersInv, Serial

LEMMA ResolveMarkKeeps ==
    ASSUME WellFormed, NEW r \in Requests, ResolveMark(r)
    PROVE  AnswersInv'
<1> DEFINE t == thr[r]
           g == gate[r]
<1>0. /\ pc[r] = "mark" /\ pc' = [pc EXCEPT ![r] = "load"]
      /\ status' = [status EXCEPT ![g] = "resolved"]
      /\ t \in Threads /\ g \in Gates /\ asks[g].thread = t /\ g # None
      /\ UNCHANGED <<graph, asks, thr, gate, pos, fed, overlapped, recommanded>>
      /\ TypeOK /\ HandlerInv /\ AnswersInv
  BY TurnRuntimeAssumption DEF ResolveMark, Mark, Goto, WellFormed, HandlerInv, history
<1>a. \A q \in Requests : pc[q] # "idle" /\ thr[q] = t /\ ~overlapped[t] => q = r
  BY <1>0, WorksAlone
<1>o. \A u \in Threads : OpenOn(u)' = OpenOn(u) \ {g}
  BY <1>0 DEF OpenOn, TypeOK
<1>t. \A u \in Threads : Trusted(u)' <=> Trusted(u)
  BY <1>0 DEF Trusted
<1>g. Trusted(t) => /\ OpenOn(t) = {g} /\ graph[t].parked
                    /\ asks[g] = Pause(t, graph[t])
  <2>1. Trusted(t) => status[g] = "open"
    BY <1>0 DEF AnswersInv, MarkedIsOpen, Trusted
  <2>2. Trusted(t) => g \in OpenOn(t)
    BY <1>0, <2>1 DEF OpenOn
  <2>3. QED
    BY <1>0, <2>2 DEF AnswersInv, OneCurrentQuestion, OpenOn
<1> HIDE DEF t, g
<1>1. Serial'
  BY <1>0 DEF Serial, AnswersInv, TypeOK
<1>2. MarkedIsOpen'
  <2> SUFFICES ASSUME NEW q \in Requests, pc'[q] = "mark", ~overlapped[thr[q]]
               PROVE  status'[gate[q]] = "open"
    BY <1>0 DEF MarkedIsOpen
  <2>1. q # r /\ pc[q] = "mark" /\ status[gate[q]] = "open"
    BY <1>0 DEF MarkedIsOpen, AnswersInv, TypeOK
  <2>2. gate[q] \in Gates /\ asks[gate[q]].thread = thr[q] /\ gate[q] # g
    BY <1>0, <1>a, <2>1, TurnRuntimeAssumption DEF HandlerInv
  <2>3. QED
    BY <1>0, <2>1, <2>2 DEF TypeOK
<1>3. NothingOpenAtWork'
  <2> SUFFICES ASSUME NEW q \in Requests, Trusted(thr[q])',
                      pc'[q] \in AtWork \/ (pc'[q] = "publish" /\ ~pos[q].parked)
               PROVE  OpenOn(thr[q])' = {}
    BY <1>0 DEF NothingOpenAtWork
  <2>1. thr[q] \in Threads
    BY <1>0 DEF HandlerInv, TypeOK, AtWork
  <2>2. CASE q = r
    BY <1>0, <1>o, <1>t, <1>g, <2>1, <2>2 DEF t
  <2>3. CASE q # r
    <3>1. pc[q] \in AtWork \/ (pc[q] = "publish" /\ ~pos[q].parked)
      BY <1>0, <2>3 DEF TypeOK
    <3>2. OpenOn(thr[q]) = {}
      BY <1>0, <1>t, <2>1, <3>1 DEF NothingOpenAtWork, AnswersInv
    <3>3. QED
      BY <1>0, <1>o, <2>1, <3>2
  <2>4. QED
    BY <2>2, <2>3
<1>4. AnswerIsForPause'
  <2> SUFFICES ASSUME NEW q \in Requests, pc'[q] \in {"load", "run"}, gate[q] # None,
                      Trusted(thr[q])'
               PROVE  graph[thr[q]].parked /\ asks[gate[q]] = Pause(thr[q], graph[thr[q]])
    BY <1>0 DEF AnswerIsForPause, Pause
  <2>1. CASE q = r
    BY <1>0, <1>t, <1>g, <2>1 DEF t, g
  <2>2. CASE q # r
    BY <1>0, <1>t, <2>2 DEF AnswerIsForPause, AnswersInv, TypeOK, HandlerInv
  <2>3. QED
    BY <2>1, <2>2
<1>5. WorksFromLatest'
  BY <1>0, <1>t DEF WorksFromLatest, AnswersInv, TypeOK, HandlerInv
<1>6. FedIsPast'
  <2>1. ASSUME NEW u \in Threads, Trusted(u)', Asking(u)' PROVE Asking(u)
    <3>1. CASE OpenOn(u)' # {}
      BY <1>o, <3>1 DEF Asking
    <3>2. CASE u = t
      <4>1. OpenOn(u) # {}
        BY <1>t, <1>g, <2>1, <3>2
      <4>2. QED
        BY <4>1 DEF Asking
    <3>3. CASE OpenOn(u)' = {} /\ u # t
      <4>1. PICK q \in Requests : thr'[q] = u /\
                \/ pc'[q] \in {"walk", "sync", "write"}
                \/ pc'[q] \in {"load", "run"} /\ gate'[q] # None
        BY <2>1, <3>3 DEF Asking
      <4>2. q # r /\ thr[q] = u /\ gate'[q] = gate[q]
        BY <1>0, <3>3, <4>1 DEF t
      <4>3. pc'[q] = pc[q]
        BY <1>0, <4>2 DEF TypeOK
      <4>4. QED
        BY <4>1, <4>2, <4>3 DEF Asking
    <3>4. QED
      BY <3>1, <3>2, <3>3
  <2>2. QED
    BY <1>0, <1>t, <2>1, PastStays
<1>7. OneCurrentQuestion'
  BY <1>0, <1>o, <1>t DEF OneCurrentQuestion, AnswersInv, Pause
<1>8. QED
  <2>1. \A h \in Gates : status[h] # "unused" => status'[h] # "unused" /\ asks'[h] = asks[h]
    BY <1>0 DEF TypeOK
  <2>2. QED
    BY <1>0, <1>1, <1>2, <1>3, <1>4, <1>5, <1>6, <1>7, <1>t, <2>1, FedStays DEF AnswersInv

\* Load, SyncRead: a handler takes its thread's latest checkpoint.
LEMMA ReadKeeps ==
    ASSUME WellFormed, NEW r \in Requests, Load(r) \/ SyncRead(r)
    PROVE  AnswersInv'
<1> USE DEF store, history
<1>0. /\ \/ pc[r] = "load" /\ pc' = [pc EXCEPT ![r] = "run"]
         \/ pc[r] = "sync" /\ pc' = [pc EXCEPT ![r] = "write"]
      /\ thr[r] \in Threads
      /\ pos' = [pos EXCEPT ![r] = graph[thr[r]]]
      /\ UNCHANGED <<graph, status, asks, thr, gate, fed, overlapped, recommanded>>
      /\ TypeOK /\ HandlerInv /\ AnswersInv
  BY WorksAlone DEF Load, SyncRead, Goto, WellFormed
<1>o. \A u \in Threads : OpenOn(u)' = OpenOn(u)
  BY <1>0 DEF OpenOn
<1>t. \A u \in Threads : Trusted(u)' <=> Trusted(u)
  BY <1>0 DEF Trusted
<1>1. Serial'
  BY <1>0 DEF Serial, AnswersInv, TypeOK
<1>2. MarkedIsOpen'
  BY <1>0 DEF MarkedIsOpen, AnswersInv, TypeOK
<1>3. NothingOpenAtWork'
  BY <1>0, <1>o, <1>t DEF NothingOpenAtWork, AtWork, AnswersInv, TypeOK, HandlerInv
<1>4. AnswerIsForPause'
  BY <1>0, <1>t DEF AnswerIsForPause, AnswersInv, TypeOK, HandlerInv, Pause
<1>5. WorksFromLatest'
  BY <1>0, <1>t DEF WorksFromLatest, AnswersInv, TypeOK, HandlerInv
<1>6. FedIsPast'
  <2>1. \A u \in Threads : Asking(u)' => Asking(u)
    BY <1>0, <1>o DEF Asking, TypeOK
  <2>2. QED
    BY <1>0, <1>t, <2>1, PastStays
<1>7. OneCurrentQuestion'
  BY <1>0, <1>o, <1>t DEF OneCurrentQuestion, AnswersInv, Pause
<1>8. QED
  BY <1>0, <1>1, <1>2, <1>3, <1>4, <1>5, <1>6, <1>7, <1>t, FedStays DEF AnswersInv

\* A turn that moves its thread's checkpoint: everything but what was fed.
LEMMA MoveKeeps ==
    ASSUME WellFormed, NEW r \in Requests, pc[r] \in {"run", "walk"},
           NEW c, NEW step \in {"walk", "sync"}, MoveTo(r, c, step),
           UNCHANGED <<status, asks, thr, gate, overlapped, recommanded>>
    PROVE  /\ Serial' /\ MarkedIsOpen' /\ NothingOpenAtWork' /\ AnswerIsForPause'
           /\ WorksFromLatest' /\ OneCurrentQuestion'
           /\ Trusted(thr[r]) => OpenOn(thr[r])' = {}
<1> DEFINE t == thr[r]
<1>0. /\ pc' = [pc EXCEPT ![r] = step] /\ t \in Threads
      /\ graph' = [graph EXCEPT ![t] = c] /\ pos' = [pos EXCEPT ![r] = c]
      /\ TypeOK /\ HandlerInv /\ AnswersInv
  BY WorksAlone DEF MoveTo, Goto, WellFormed
<1>a. \A q \in Requests : pc[q] # "idle" /\ thr[q] = t /\ ~overlapped[t] => q = r
  BY WorksAlone
<1>o. \A u \in Threads : OpenOn(u)' = OpenOn(u)
  BY DEF OpenOn
<1>t. \A u \in Threads : Trusted(u)' <=> Trusted(u)
  BY DEF Trusted
<1>n. Trusted(t) => OpenOn(t) = {}
  BY <1>0 DEF AnswersInv, NothingOpenAtWork, AtWork
<1> HIDE DEF t
<1>1. Serial'
  BY <1>0 DEF Serial, AnswersInv, TypeOK
<1>2. MarkedIsOpen'
  BY <1>0 DEF MarkedIsOpen, AnswersInv, TypeOK
<1>3. NothingOpenAtWork'
  BY <1>0, <1>o, <1>t DEF NothingOpenAtWork, AtWork, AnswersInv, TypeOK, HandlerInv
<1>4. AnswerIsForPause'
  <2> SUFFICES ASSUME NEW q \in Requests, pc'[q] \in {"load", "run"}, gate[q] # None,
                      Trusted(thr[q])
               PROVE  graph'[thr[q]].parked /\ asks[gate[q]] = Pause(thr[q], graph'[thr[q]])
    BY <1>t, <1>0 DEF AnswerIsForPause, Pause, HandlerInv, TypeOK, Trusted
  <2>1. q # r /\ pc[q] \in {"load", "run"}
    BY <1>0 DEF TypeOK
  <2>2. thr[q] # t
    BY <1>a, <2>1 DEF Trusted
  <2>3. graph'[thr[q]] = graph[thr[q]]
    BY <1>0, <2>1, <2>2 DEF TypeOK, HandlerInv
  <2>4. QED
    BY <1>0, <2>1, <2>3 DEF AnswersInv, AnswerIsForPause
<1>5. WorksFromLatest'
  <2> SUFFICES ASSUME NEW q \in Requests, pc'[q] \in {"run", "walk", "write", "publish"},
                      ~overlapped[thr[q]]
               PROVE  pos'[q] = graph'[thr[q]]
    BY <1>0, <1>t DEF WorksFromLatest, HandlerInv, TypeOK, Trusted
  <2>1. CASE q = r
    BY <1>0, <2>1 DEF TypeOK, t
  <2>2. CASE q # r
    <3>1. pc[q] = pc'[q] /\ pos'[q] = pos[q]
      BY <1>0, <2>2 DEF TypeOK
    <3>2. thr[q] # t
      BY <1>a, <2>2, <3>1 DEF Trusted
    <3>3. graph'[thr[q]] = graph[thr[q]]
      BY <1>0, <3>1, <3>2 DEF TypeOK, HandlerInv
    <3>4. QED
      BY <1>0, <3>1, <3>3 DEF AnswersInv, WorksFromLatest
  <2>3. QED
    BY <2>1, <2>2
<1>6. OneCurrentQuestion'
  <2> SUFFICES ASSUME NEW u \in Threads, Trusted(u), NEW g \in OpenOn(u), NEW h \in OpenOn(u)
               PROVE  g = h /\ graph'[u].parked /\ asks[g] = Pause(u, graph'[u])
    BY <1>o, <1>t DEF OneCurrentQuestion, Pause
  <2>1. u # t /\ graph'[u] = graph[u]
    BY <1>0, <1>n DEF TypeOK
  <2>2. QED
    BY <1>0, <2>1 DEF AnswersInv, OneCurrentQuestion
<1>7. QED
  BY <1>1, <1>2, <1>3, <1>4, <1>5, <1>6, <1>n, <1>o, <1>0 DEF t

\* What was fed stays the past of a thread that moved on beyond it.
LEMMA MoveLeavesPast ==
    ASSUME WellFormed, NEW r \in Requests, pc[r] \in {"run", "walk"},
           NEW c \in Checkpoint, NEW step \in {"walk", "sync"}, MoveTo(r, c, step),
           UNCHANGED <<status, asks, thr, gate, overlapped, recommanded>>,
           fed' \in [Gates -> SUBSET [pause : Pauses, by : Requests]],
           \A g \in Gates : \A f \in fed'[g] :
               \/ f \in fed[g] /\ f.pause.thread # thr[r]
               \/ f.pause.thread = thr[r] /\ (Trusted(thr[r]) => Before(f.pause, c))
    PROVE  FedIsPast'
<1> DEFINE t == thr[r]
<1>0. /\ pc' = [pc EXCEPT ![r] = step] /\ t \in Threads
      /\ graph' = [graph EXCEPT ![t] = c]
      /\ TypeOK /\ HandlerInv /\ AnswersInv
  BY WorksAlone DEF MoveTo, Goto, WellFormed
<1>o. \A u \in Threads : OpenOn(u)' = OpenOn(u)
  BY DEF OpenOn
<1> SUFFICES ASSUME NEW g \in Gates, NEW f \in fed'[g], Trusted(f.pause.thread)
             PROVE  /\ NotAfter(f.pause, graph'[f.pause.thread])
                    /\ Asking(f.pause.thread)' => Before(f.pause, graph'[f.pause.thread])
  BY DEF FedIsPast, NotAfter, Before, Trusted
<1>1. f.pause.thread \in Threads /\ f.pause.run \in Nat /\ f.pause.at \in Nat
  BY TurnRuntimeAssumption DEF Pauses
<1>2. CASE f.pause.thread = t
  <2>1. graph'[f.pause.thread] = c
    BY <1>0, <1>2 DEF TypeOK
  <2>2. Before(f.pause, c)
    BY <1>2 DEF Trusted
  <2>3. NotAfter(f.pause, c)
    BY <1>1, <2>2, TurnRuntimeAssumption DEF Before, NotAfter, Checkpoint
  <2>4. QED
    BY <2>1, <2>2, <2>3
<1>3. CASE f.pause.thread # t
  <2>1. f \in fed[g] /\ graph'[f.pause.thread] = graph[f.pause.thread]
    BY <1>0, <1>1, <1>3 DEF TypeOK
  <2>2. Asking(f.pause.thread)' => Asking(f.pause.thread)
    BY <1>0, <1>o, <1>1, <1>3 DEF Asking, TypeOK
  <2>3. QED
    BY <1>0, <2>1, <2>2 DEF AnswersInv, FedIsPast
<1>4. QED
  BY <1>2, <1>3

\* A handler that carries an answer finds its thread parked where it is for.
LEMMA AnswerArrives ==
    ASSUME WellFormed, NEW r \in Requests, pc[r] = "run", gate[r] # None, Trusted(thr[r])
    PROVE  /\ pos[r] = graph[thr[r]] /\ pos[r].parked
           /\ asks[gate[r]] = Pause(thr[r], pos[r])
           /\ \A g \in Gates : \A f \in fed[g] :
                 f.pause.thread = thr[r] => Before(f.pause, pos[r])
<1>1. pos[r] = graph[thr[r]]
  BY DEF WellFormed, AnswersInv, WorksFromLatest, Trusted
<1>2. graph[thr[r]].parked /\ asks[gate[r]] = Pause(thr[r], graph[thr[r]])
  BY DEF WellFormed, AnswersInv, AnswerIsForPause
<1>3. Asking(thr[r])
  BY DEF Asking
<1>4. \A g \in Gates : \A f \in fed[g] :
         f.pause.thread = thr[r] => Before(f.pause, graph[thr[r]])
  BY <1>3 DEF WellFormed, AnswersInv, FedIsPast
<1>5. QED
  BY <1>1, <1>2, <1>4

\* Feeding the answer there keeps what is promised of answers.
LEMMA FeedKeeps ==
    ASSUME WellFormed, NEW r \in Requests, pc[r] = "run", gate[r] # None,
           HasWork(pos[r]), Feed(r, Pause(thr[r], pos[r])),
           UNCHANGED <<status, asks, overlapped, recommanded>>
    PROVE  /\ FedIsAsked' /\ AnswerReachesItsQuestion' /\ QuestionAnsweredOnce'
           /\ fed' \in [Gates -> SUBSET [pause : Pauses, by : Requests]]
           /\ \A g \in Gates : \A f \in fed'[g] :
                 f \in fed[g] \/ f.pause = Pause(thr[r], pos[r])
<1> DEFINE t == thr[r]
           p == Pause(t, pos[r])
           new == [pause |-> p, by |-> r]
<1>0. /\ t \in Threads /\ pos[r] \in Checkpoint /\ p \in Pauses /\ p.thread = t
      /\ p.run = pos[r].run /\ p.at = pos[r].at /\ p.run \in Nat /\ p.at \in Nat
      /\ gate[r] \in Gates /\ status[gate[r]] # "unused" /\ asks[gate[r]].thread = t
      /\ TypeOK /\ HandlerInv /\ AnswersInv
  <2>1. t \in Threads
    BY WorksAlone
  <2>2. pos[r] \in Checkpoint /\ gate[r] \in Gates
    BY DEF WellFormed, TypeOK
  <2>3. p \in Pauses /\ p.thread = t /\ p.run = pos[r].run /\ p.at = pos[r].at
    BY <2>1, <2>2, PauseIsTyped DEF Pause
  <2>4. p.run \in Nat /\ p.at \in Nat
    BY <2>3, TurnRuntimeAssumption DEF Pauses
  <2>5. QED
    BY <2>1, <2>2, <2>3, <2>4 DEF WellFormed, HandlerInv
<1>1. fed' \in [Gates -> SUBSET [pause : Pauses, by : Requests]]
  BY <1>0, FeedIsTyped
<1>2. \A g \in Gates : \A f \in fed'[g] : f \in fed[g] \/ (f = new /\ g = gate[r])
  BY <1>0 DEF Feed, TypeOK
<1>t. \A u \in Threads : Trusted(u)' <=> Trusted(u)
  BY DEF Trusted
<1>n. new.pause = p
  OBVIOUS
<1>b. Trusted(t) => /\ asks[gate[r]] = p
                    /\ \A g \in Gates : \A f \in fed[g] : f.pause # p
  <2> SUFFICES ASSUME Trusted(t)
               PROVE  /\ asks[gate[r]] = p
                      /\ \A g \in Gates : \A f \in fed[g] : f.pause # p
    OBVIOUS
  <2>1. asks[gate[r]] = p
    BY AnswerArrives
  <2>2. ASSUME NEW g \in Gates, NEW f \in fed[g], f.pause = p
        PROVE  FALSE
    <3>1. Before(p, pos[r])
      BY <1>0, <2>2, AnswerArrives
    <3>2. QED
      BY <1>0, <3>1 DEF Before
  <2>3. QED
    BY <2>1, <2>2
<1>p. \A g \in Gates : \A f \in fed'[g] : f.pause.thread \in Threads
  BY <1>1 DEF Pauses
<1> HIDE DEF t, p, new
<1>3. FedIsAsked'
  BY <1>0, <1>2, <1>n DEF FedIsAsked, AnswersInv
<1>4. AnswerReachesItsQuestion'
  BY <1>0, <1>2, <1>n, <1>t, <1>b, <1>p DEF AnswerReachesItsQuestion, AnswersInv
<1>5. QuestionAnsweredOnce'
  <2> SUFFICES ASSUME NEW g \in Gates, NEW h \in Gates, NEW a \in fed'[g], NEW b \in fed'[h],
                      a.pause = b.pause, Trusted(a.pause.thread)
               PROVE  g = h /\ a = b
    BY <1>t, <1>p DEF QuestionAnsweredOnce
  <2>1. CASE a \in fed[g] /\ b \in fed[h]
    BY <1>0, <2>1 DEF AnswersInv, QuestionAnsweredOnce
  <2>2. CASE a = new /\ g = gate[r]
    BY <1>0, <1>2, <1>n, <1>b, <2>2
  <2>3. CASE b = new /\ h = gate[r]
    BY <1>0, <1>2, <1>n, <1>b, <2>3
  <2>4. QED
    BY <1>2, <2>1, <2>2, <2>3
<1>6. QED
  BY <1>1, <1>2, <1>3, <1>4, <1>5, <1>n DEF p, t

LEMMA RunStartKeeps ==
    ASSUME WellFormed, NEW r \in Requests, RunStart(r)
    PROVE  AnswersInv'
<1> DEFINE t == thr[r]
           c == [run |-> graph[t].run + 1, at |-> 1, parked |-> FALSE]
<1> USE DEF store, history
<1>0. /\ pc[r] = "run" /\ MoveTo(r, c, "walk") /\ fed' = fed
      /\ UNCHANGED <<status, asks, thr, gate, overlapped, recommanded>>
  BY DEF RunStart, NextRun
<1>c. t \in Threads /\ graph[t] \in Checkpoint /\ c \in Checkpoint
  BY <1>0, WorksAlone, TurnRuntimeAssumption DEF WellFormed, TypeOK, Checkpoint
<1>t. \A u \in Threads : Trusted(u)' <=> Trusted(u)
  BY <1>0 DEF Trusted
<1>1. ASSUME NEW g \in Gates, NEW f \in fed[g], f.pause.thread = t, Trusted(t)
      PROVE  Before(f.pause, c)
  <2>1. NotAfter(f.pause, graph[t]) /\ f.pause.run \in Nat
    BY <1>1 DEF WellFormed, AnswersInv, FedIsPast, TypeOK, Pauses
  <2>2. f.pause.run < graph[t].run + 1
    BY <1>c, <2>1 DEF NotAfter, Checkpoint
  <2>3. QED
    BY <2>2 DEF Before
<1>2. FedIsPast'
  <2>1. fed' \in [Gates -> SUBSET [pause : Pauses, by : Requests]]
    BY <1>0 DEF WellFormed, TypeOK
  <2>2. QED
    BY <1>0, <1>c, <1>1, <2>1, MoveLeavesPast
<1>3. FedIsAsked' /\ AnswerReachesItsQuestion' /\ QuestionAnsweredOnce'
  BY <1>0, <1>t, FedStays
<1>4. QED
  BY <1>0, <1>2, <1>3, MoveKeeps DEF AnswersInv

LEMMA RunResumeKeeps ==
    ASSUME WellFormed, NEW r \in Requests, RunResume(r)
    PROVE  AnswersInv'
<1> DEFINE t == thr[r]
<1>0. /\ pc[r] = "run" /\ gate[r] # None /\ HasWork(pos[r])
      /\ UNCHANGED <<status, asks, thr, gate, overlapped, recommanded>>
      /\ t \in Threads /\ pos[r] \in Checkpoint
  BY WorksAlone DEF RunResume, FreshInput, store, WellFormed, TypeOK
<1>1. CASE MoveTo(r, Answered(pos[r]), "walk") /\ Feed(r, Pause(t, pos[r]))
  <2> DEFINE c == Answered(pos[r])
  <2>1. c \in Checkpoint /\ Pause(t, pos[r]) \in Pauses
    BY <1>0, PauseIsTyped
  <2>2. /\ FedIsAsked' /\ AnswerReachesItsQuestion' /\ QuestionAnsweredOnce'
        /\ fed' \in [Gates -> SUBSET [pause : Pauses, by : Requests]]
        /\ \A g \in Gates : \A f \in fed'[g] : f \in fed[g] \/ f.pause = Pause(t, pos[r])
    BY <1>0, <1>1, FeedKeeps
  <2>3. ASSUME NEW p \in Pauses, Before(p, pos[r]) \/ p = Pause(t, pos[r])
        PROVE  Before(p, c)
    BY <1>0, <2>3, TurnRuntimeAssumption DEF Before, Pause, Pauses, Answered, Checkpoint
  <2>4. ASSUME NEW g \in Gates, NEW f \in fed'[g], f.pause.thread = t, Trusted(t)
        PROVE  Before(f.pause, c)
    <3>1. f.pause \in Pauses
      BY <2>2
    <3>2. f \in fed[g] => Before(f.pause, pos[r])
      BY <1>0, <2>4, AnswerArrives
    <3>3. QED
      BY <2>2, <2>3, <3>1, <3>2
  <2>5. Pause(t, pos[r]).thread = t
    BY DEF Pause
  <2>6. FedIsPast'
    BY <1>0, <1>1, <2>1, <2>2, <2>4, <2>5, MoveLeavesPast
  <2>7. QED
    BY <1>0, <1>1, <2>2, <2>6, MoveKeeps DEF AnswersInv
<1>2. CASE ~pos[r].parked /\ MoveTo(r, pos[r], "walk") /\ UNCHANGED fed
  <2>1. ~Trusted(t)
    BY <1>0, <1>2, AnswerArrives
  <2>2. fed' \in [Gates -> SUBSET [pause : Pauses, by : Requests]]
    BY <1>2 DEF WellFormed, TypeOK
  <2>3. FedIsPast'
    BY <1>0, <1>2, <2>1, <2>2, MoveLeavesPast
  <2>4. FedIsAsked' /\ AnswerReachesItsQuestion' /\ QuestionAnsweredOnce'
    <3>1. \A u \in Threads : Trusted(u)' <=> Trusted(u)
      BY <1>0 DEF Trusted
    <3>2. QED
      BY <1>0, <1>2, <3>1, FedStays
  <2>5. QED
    BY <1>0, <1>2, <2>3, <2>4, MoveKeeps DEF AnswersInv
<1>3. QED
  BY <1>1, <1>2 DEF RunResume

LEMMA WalkKeeps ==
    ASSUME WellFormed, NEW r \in Requests, Walk(r)
    PROVE  AnswersInv'
<1> DEFINE t == thr[r]
           stop == [pos[r] EXCEPT !.parked = TRUE]
           end  == [pos[r] EXCEPT !.at = Last + 1]
<1> USE DEF store, history
<1>0. /\ pc[r] = "walk" /\ fed' = fed
      /\ UNCHANGED <<status, asks, thr, gate, overlapped, recommanded>>
      /\ t \in Threads /\ pos[r] \in Checkpoint
  BY WorksAlone DEF Walk, WellFormed, TypeOK
<1>c. PICK c \in {stop, end} : MoveTo(r, c, "sync")
  BY DEF Walk
<1>d. c \in Checkpoint /\ c.run = pos[r].run /\ c.at \in {pos[r].at, Last + 1}
  <2>1. CASE c = stop
    BY <1>0, <2>1 DEF Checkpoint
  <2>2. CASE c = end
    BY <1>0, <2>2, TurnRuntimeAssumption DEF Checkpoint
  <2>3. QED
    BY <2>1, <2>2
<1>1. ASSUME NEW g \in Gates, NEW f \in fed[g], f.pause.thread = t, Trusted(t)
      PROVE  Before(f.pause, c)
  <2>1. pos[r] = graph[t]
    BY <1>0, <1>1 DEF WellFormed, AnswersInv, WorksFromLatest, Trusted
  <2>2. Asking(t)
    BY <1>0 DEF Asking
  <2>3. Before(f.pause, pos[r])
    BY <1>1, <2>1, <2>2 DEF WellFormed, AnswersInv, FedIsPast
  <2>4. f.pause \in Pauses
    BY DEF WellFormed, TypeOK
  <2>5. QED
    BY <1>0, <1>d, <2>3, <2>4, TurnRuntimeAssumption DEF Before, Pauses, Checkpoint
<1>2. FedIsPast'
  <2>1. fed' \in [Gates -> SUBSET [pause : Pauses, by : Requests]]
    BY <1>0 DEF WellFormed, TypeOK
  <2>2. QED
    BY <1>0, <1>c, <1>d, <1>1, <2>1, MoveLeavesPast
<1>3. FedIsAsked' /\ AnswerReachesItsQuestion' /\ QuestionAnsweredOnce'
  <2>1. \A u \in Threads : Trusted(u)' <=> Trusted(u)
    BY <1>0 DEF Trusted
  <2>2. QED
    BY <1>0, <2>1, FedStays
<1>4. QED
  BY <1>0, <1>c, <1>2, <1>3, MoveKeeps DEF AnswersInv

\* A step that takes no handler anywhere new and touches nothing else.
LEMMA RunNothingKeeps ==
    ASSUME WellFormed, NEW r \in Requests, RunNothing(r)
    PROVE  AnswersInv'
<1> USE DEF store, history
<1>0. /\ pc[r] = "run" /\ pc' = [pc EXCEPT ![r] = "sync"] /\ gate[r] # None
      /\ thr[r] \in Threads /\ pos[r] \in Checkpoint /\ ~HasWork(pos[r])
      /\ UNCHANGED <<graph, status, asks, thr, gate, pos, fed, overlapped, recommanded>>
      /\ TypeOK /\ HandlerInv /\ AnswersInv
  BY WorksAlone DEF RunNothing, FreshInput, Goto, WellFormed, TypeOK
<1>o. \A u \in Threads : OpenOn(u)' = OpenOn(u)
  BY <1>0 DEF OpenOn
<1>t. \A u \in Threads : Trusted(u)' <=> Trusted(u)
  BY <1>0 DEF Trusted
<1>1. Serial'
  BY <1>0 DEF Serial, AnswersInv, TypeOK
<1>2. MarkedIsOpen'
  BY <1>0 DEF MarkedIsOpen, AnswersInv, TypeOK
<1>3. NothingOpenAtWork'
  BY <1>0, <1>o, <1>t DEF NothingOpenAtWork, AtWork, AnswersInv, TypeOK, HandlerInv
<1>4. AnswerIsForPause'
  BY <1>0, <1>t DEF AnswerIsForPause, AnswersInv, TypeOK, HandlerInv, Pause
<1>5. WorksFromLatest'
  BY <1>0, <1>t DEF WorksFromLatest, AnswersInv, TypeOK, HandlerInv
<1>6. FedIsPast'
  <2>1. \A u \in Threads : Asking(u)' => Asking(u)
    BY <1>0, <1>o DEF Asking, TypeOK
  <2>2. QED
    BY <1>0, <1>t, <2>1, PastStays
<1>7. OneCurrentQuestion'
  BY <1>0, <1>o, <1>t DEF OneCurrentQuestion, AnswersInv, Pause
<1>8. QED
  BY <1>0, <1>1, <1>2, <1>3, <1>4, <1>5, <1>6, <1>7, <1>t, FedStays DEF AnswersInv

\* Publish, and Fail but for what it feeds: the handler is gone, the store and
\* the checkpoints are as they were.
LEMMA LeaveKeeps ==
    ASSUME WellFormed, NEW r \in Requests, Leave(r), pc[r] # "idle",
           UNCHANGED <<graph, status, asks, overlapped, recommanded>>
    PROVE  /\ Serial' /\ MarkedIsOpen' /\ NothingOpenAtWork' /\ AnswerIsForPause'
           /\ WorksFromLatest' /\ OneCurrentQuestion'
           /\ \A u \in Threads : Asking(u)' => Asking(u)
<1>0. /\ pc' = [pc EXCEPT ![r] = "idle"]
      /\ thr' = [thr EXCEPT ![r] = None] /\ gate' = [gate EXCEPT ![r] = None]
      /\ pos' = [pos EXCEPT ![r] = Nowhere]
      /\ TypeOK /\ HandlerInv /\ AnswersInv
  BY DEF Leave, Goto, WellFormed
<1>o. \A u \in Threads : OpenOn(u)' = OpenOn(u)
  BY DEF OpenOn
<1>t. \A u \in Threads : Trusted(u)' <=> Trusted(u)
  BY DEF Trusted
<1>1. Serial'
  BY <1>0 DEF Serial, AnswersInv, TypeOK
<1>2. MarkedIsOpen'
  BY <1>0 DEF MarkedIsOpen, AnswersInv, TypeOK
<1>3. NothingOpenAtWork'
  BY <1>0, <1>o, <1>t DEF NothingOpenAtWork, AtWork, AnswersInv, TypeOK, HandlerInv
<1>4. AnswerIsForPause'
  BY <1>0, <1>t DEF AnswerIsForPause, AnswersInv, TypeOK, HandlerInv, Pause
<1>5. WorksFromLatest'
  BY <1>0, <1>t DEF WorksFromLatest, AnswersInv, TypeOK, HandlerInv
<1>6. OneCurrentQuestion'
  BY <1>0, <1>o, <1>t DEF OneCurrentQuestion, AnswersInv, Pause
<1>7. \A u \in Threads : Asking(u)' => Asking(u)
  BY <1>0, <1>o DEF Asking, TypeOK
<1>8. QED
  BY <1>1, <1>2, <1>3, <1>4, <1>5, <1>6, <1>7

LEMMA PublishKeeps ==
    ASSUME WellFormed, NEW r \in Requests, Publish(r)
    PROVE  AnswersInv'
<1> USE DEF store, history
<1>0. /\ Leave(r) /\ pc[r] # "idle" /\ fed' = fed
      /\ UNCHANGED <<graph, status, asks, overlapped, recommanded>>
  BY DEF Publish
<1>t. \A u \in Threads : Trusted(u)' <=> Trusted(u)
  BY <1>0 DEF Trusted
<1>1. FedIsPast'
  BY <1>0, <1>t, LeaveKeeps, PastStays
<1>2. FedIsAsked' /\ AnswerReachesItsQuestion' /\ QuestionAnsweredOnce'
  BY <1>0, <1>t, FedStays
<1>3. QED
  BY <1>0, <1>1, <1>2, LeaveKeeps DEF AnswersInv

\* A turn that raises where its interrupt took the answer leaves the thread
\* parked there, and nothing to answer it with.
LEMMA FailKeeps ==
    ASSUME WellFormed, NEW r \in Requests, Fail(r)
    PROVE  AnswersInv'
<1> USE DEF store
<1>p. PICK t \in Threads : t = thr[r]
  BY WorksAlone DEF Fail, MayRaise
<1>0. /\ Leave(r) /\ pc[r] # "idle"
      /\ UNCHANGED <<graph, status, asks, overlapped, recommanded>>
      /\ pos[r] \in Checkpoint
      /\ TypeOK /\ HandlerInv /\ AnswersInv
  BY WorksAlone DEF Fail, MayRaise, WellFormed, TypeOK
<1>t. \A u \in Threads : Trusted(u)' <=> Trusted(u)
  BY <1>0 DEF Trusted
<1>1. CASE fed' = fed
  <2>1. FedIsPast'
    BY <1>0, <1>1, <1>t, LeaveKeeps, PastStays
  <2>2. FedIsAsked' /\ AnswerReachesItsQuestion' /\ QuestionAnsweredOnce'
    BY <1>0, <1>1, <1>t, FedStays
  <2>3. QED
    BY <1>0, <2>1, <2>2, LeaveKeeps DEF AnswersInv
<1>2. CASE pc[r] = "run" /\ gate[r] # None /\ HasWork(pos[r]) /\ Feed(r, Pause(t, pos[r]))
  <2>1. /\ FedIsAsked' /\ AnswerReachesItsQuestion' /\ QuestionAnsweredOnce'
        /\ fed' \in [Gates -> SUBSET [pause : Pauses, by : Requests]]
        /\ \A g \in Gates : \A f \in fed'[g] : f \in fed[g] \/ f.pause = Pause(t, pos[r])
    BY <1>0, <1>2, <1>p, FeedKeeps
  <2>2. Trusted(t) => pos[r] = graph[t] /\ OpenOn(t) = {}
    BY <1>0, <1>2, <1>p, AnswerArrives DEF AnswersInv, NothingOpenAtWork, AtWork
  <2>3. Trusted(t) => ~Asking(t)'
    <3>1. OpenOn(t)' = OpenOn(t)
      BY <1>0 DEF OpenOn
    <3>2. Trusted(t) => \A q \in Requests : pc[q] # "idle" /\ thr[q] = t => q = r
      BY <1>0, <1>p, WorksAlone DEF Trusted
    <3>3. \A q \in Requests : thr'[q] = t => q # r /\ pc'[q] = pc[q] /\ thr'[q] = thr[q]
      BY <1>0, <1>p, TurnRuntimeAssumption DEF Leave, Goto, TypeOK
    <3>4. QED
      BY <2>2, <3>1, <3>2, <3>3 DEF Asking
  <2>4. FedIsPast'
    <3> SUFFICES ASSUME NEW g \in Gates, NEW f \in fed'[g], Trusted(f.pause.thread)
                 PROVE  /\ NotAfter(f.pause, graph[f.pause.thread])
                        /\ Asking(f.pause.thread)' => Before(f.pause, graph[f.pause.thread])
      BY <1>0, <1>t, <2>1 DEF FedIsPast, NotAfter, Before, Pauses
    <3>1. f.pause.thread \in Threads
      BY <2>1 DEF Pauses
    <3>2. CASE f \in fed[g]
      <4>1. Asking(f.pause.thread)' => Asking(f.pause.thread)
        BY <1>0, <3>1, LeaveKeeps
      <4>2. QED
        BY <1>0, <3>2, <4>1 DEF AnswersInv, FedIsPast
    <3>3. CASE f.pause = Pause(t, pos[r])
      <4>1. f.pause.thread = t /\ f.pause.run = pos[r].run /\ f.pause.at = pos[r].at
        BY <3>3 DEF Pause
      <4>2. pos[r] = graph[t] /\ ~Asking(t)'
        BY <2>2, <2>3, <4>1
      <4>3. NotAfter(f.pause, graph[t])
        BY <1>0, <4>1, <4>2, TurnRuntimeAssumption DEF NotAfter, Checkpoint
      <4>4. QED
        BY <4>1, <4>2, <4>3
    <3>4. QED
      BY <2>1, <3>2, <3>3
  <2>5. QED
    BY <1>0, <2>1, <2>4, LeaveKeeps DEF AnswersInv
<1>3. QED
  BY <1>1, <1>2, <1>p DEF Fail, FreshInput

LEMMA SyncCloseKeeps ==
    ASSUME WellFormed, NEW r \in Requests, SyncClose(r)
    PROVE  AnswersInv'
<1>p. PICK t \in Threads : t = thr[r]
  BY WorksAlone DEF SyncClose
<1>0. /\ pc[r] = "write" /\ pc' = [pc EXCEPT ![r] = "publish"] /\ ~pos[r].parked
      /\ status' = [g \in Gates |-> IF g \in OpenOn(t) THEN "superseded" ELSE status[g]]
      /\ UNCHANGED <<graph, asks, thr, gate, pos, fed, overlapped, recommanded>>
      /\ TypeOK /\ HandlerInv /\ AnswersInv
  BY <1>p DEF SyncClose, ToClose, Goto, WellFormed
<1>a. \A q \in Requests : pc[q] # "idle" /\ thr[q] = t /\ ~overlapped[t] => q = r
  BY <1>p, <1>0, WorksAlone
<1>o. \A u \in Threads : OpenOn(u)' = IF u = t THEN {} ELSE OpenOn(u)
  BY <1>0 DEF OpenOn
<1>t. \A u \in Threads : Trusted(u)' <=> Trusted(u)
  BY <1>0 DEF Trusted
<1>1. Serial'
  BY <1>0 DEF Serial, AnswersInv, TypeOK
<1>2. MarkedIsOpen'
  <2> SUFFICES ASSUME NEW q \in Requests, pc'[q] = "mark", ~overlapped[thr[q]]
               PROVE  status'[gate[q]] = "open"
    BY <1>0 DEF MarkedIsOpen
  <2>1. q # r /\ pc[q] = "mark" /\ status[gate[q]] = "open"
    BY <1>0 DEF MarkedIsOpen, AnswersInv, TypeOK
  <2>2. gate[q] \in Gates /\ asks[gate[q]].thread = thr[q] /\ thr[q] # t
    BY <1>0, <1>a, <2>1, TurnRuntimeAssumption DEF HandlerInv
  <2>3. QED
    BY <1>0, <2>1, <2>2 DEF OpenOn
<1>3. NothingOpenAtWork'
  BY <1>0, <1>o, <1>t DEF NothingOpenAtWork, AtWork, AnswersInv, TypeOK, HandlerInv
<1>4. AnswerIsForPause'
  BY <1>0, <1>t DEF AnswerIsForPause, AnswersInv, TypeOK, HandlerInv, Pause
<1>5. WorksFromLatest'
  BY <1>0, <1>t DEF WorksFromLatest, AnswersInv, TypeOK, HandlerInv
<1>6. FedIsPast'
  <2>1. \A u \in Threads : Asking(u)' => Asking(u)
    BY <1>0, <1>o DEF Asking, TypeOK
  <2>2. QED
    BY <1>0, <1>t, <2>1, PastStays
<1>7. OneCurrentQuestion'
  BY <1>0, <1>o, <1>t DEF OneCurrentQuestion, AnswersInv, Pause
<1>8. QED
  <2>1. \A h \in Gates : status[h] # "unused" => status'[h] # "unused" /\ asks'[h] = asks[h]
    BY <1>0
  <2>2. QED
    BY <1>0, <1>1, <1>2, <1>3, <1>4, <1>5, <1>6, <1>7, <1>t, <2>1, FedStays DEF AnswersInv

LEMMA SyncOpenKeeps ==
    ASSUME WellFormed, NEW r \in Requests, SyncOpen(r)
    PROVE  AnswersInv'
<1>p. PICK t \in Threads : t = thr[r]
  BY WorksAlone DEF SyncOpen
<1>g. PICK g \in Unused : /\ status' = [status EXCEPT ![g] = "open"]
                          /\ asks'   = [asks EXCEPT ![g] = Pause(t, pos[r])]
  BY <1>p DEF SyncOpen
<1>0. /\ pc[r] = "write" /\ pc' = [pc EXCEPT ![r] = "publish"] /\ pos[r].parked
      /\ g \in Gates /\ status[g] = "unused" /\ Pause(t, pos[r]).thread = t
      /\ UNCHANGED <<graph, thr, gate, pos, fed, overlapped, recommanded>>
      /\ TypeOK /\ HandlerInv /\ AnswersInv
  BY <1>p, <1>g DEF SyncOpen, Goto, WellFormed, Unused, Pause
<1>o. \A u \in Threads : OpenOn(u)' = IF u = t THEN OpenOn(u) \cup {g} ELSE OpenOn(u)
  BY <1>0, <1>g DEF OpenOn, TypeOK
<1>k. \A h \in Gates : status[h] # "unused" => status'[h] # "unused" /\ asks'[h] = asks[h]
  BY <1>0, <1>g DEF TypeOK
<1>t. \A u \in Threads : Trusted(u)' <=> Trusted(u)
  BY <1>0 DEF Trusted
<1>a. \A q \in Requests : pc[q] # "idle" /\ thr[q] = t /\ ~overlapped[t] => q = r
  BY <1>p, <1>0, WorksAlone
<1>n. Trusted(t) => OpenOn(t) = {} /\ pos[r] = graph[t]
  BY <1>0, <1>p DEF AnswersInv, NothingOpenAtWork, WorksFromLatest, AtWork, Trusted
<1>1. Serial'
  BY <1>0 DEF Serial, AnswersInv, TypeOK
<1>2. MarkedIsOpen'
  BY <1>0, <1>g DEF MarkedIsOpen, AnswersInv, TypeOK, HandlerInv
<1>3. NothingOpenAtWork'
  <2> SUFFICES ASSUME NEW q \in Requests, Trusted(thr[q]),
                      pc'[q] \in AtWork \/ (pc'[q] = "publish" /\ ~pos[q].parked)
               PROVE  OpenOn(thr[q])' = {}
    BY <1>0, <1>t DEF NothingOpenAtWork, AtWork, HandlerInv, TypeOK, Trusted
  <2>1. /\ q # r /\ thr[q] \in Threads /\ pc[q] # "idle"
        /\ pc[q] \in AtWork \/ (pc[q] = "publish" /\ ~pos[q].parked)
    BY <1>0 DEF TypeOK, HandlerInv, AtWork
  <2>2. thr[q] # t
    BY <1>a, <2>1 DEF AtWork, Trusted
  <2>3. QED
    BY <1>0, <1>o, <2>1, <2>2 DEF AnswersInv, NothingOpenAtWork
<1>4. AnswerIsForPause'
  <2> SUFFICES ASSUME NEW q \in Requests, pc'[q] \in {"load", "run"}, gate[q] # None,
                      Trusted(thr[q])
               PROVE  graph[thr[q]].parked /\ asks'[gate[q]] = Pause(thr[q], graph[thr[q]])
    BY <1>0, <1>t DEF AnswerIsForPause, Pause, HandlerInv, TypeOK, Trusted
  <2>1. pc[q] \in {"load", "run"} /\ gate[q] \in Gates
    BY <1>0 DEF TypeOK
  <2>2. asks'[gate[q]] = asks[gate[q]]
    BY <1>0, <1>k, <2>1 DEF HandlerInv
  <2>3. QED
    BY <1>0, <2>1, <2>2 DEF AnswersInv, AnswerIsForPause
<1>5. WorksFromLatest'
  BY <1>0, <1>t DEF WorksFromLatest, AnswersInv, TypeOK, HandlerInv
<1>6. FedIsPast'
  <2>1. \A u \in Threads : Asking(u)' => Asking(u)
    BY <1>0, <1>o, <1>p DEF Asking, TypeOK
  <2>2. QED
    BY <1>0, <1>t, <2>1, PastStays
<1>7. OneCurrentQuestion'
  <2> SUFFICES ASSUME NEW u \in Threads, Trusted(u),
                      NEW h \in OpenOn(u)', NEW i \in OpenOn(u)'
               PROVE  h = i /\ graph[u].parked /\ asks'[h] = Pause(u, graph[u])
    BY <1>0, <1>t DEF OneCurrentQuestion, Pause
  <2>1. CASE u = t
    BY <1>0, <1>g, <1>n, <1>o, <2>1 DEF TypeOK
  <2>2. CASE u # t
    <3>1. h \in OpenOn(u) /\ i \in OpenOn(u) /\ asks'[h] = asks[h]
      BY <1>k, <1>o, <2>2 DEF OpenOn
    <3>2. QED
      BY <1>0, <3>1 DEF AnswersInv, OneCurrentQuestion
  <2>3. QED
    BY <2>1, <2>2
<1>8. QED
  BY <1>0, <1>1, <1>2, <1>3, <1>4, <1>5, <1>6, <1>7, <1>k, <1>t, FedStays DEF AnswersInv

\* A restart takes every handler and every record with it, and may move the
\* checkpoints to their runs' ends.
LEMMA RestartKeeps ==
    ASSUME WellFormed, Restart
    PROVE  AnswersInv'
<1>0. /\ pc' = [r \in Requests |-> "idle"] /\ gate' = [r \in Requests |-> None]
      /\ status' = [g \in Gates |-> IF g \in Unused THEN "unused" ELSE "lost"]
      /\ graph' = IF Durable THEN graph ELSE [t \in Threads |-> Ended(graph[t].run)]
      /\ UNCHANGED <<asks, fed, overlapped, recommanded>>
      /\ TypeOK /\ HandlerInv /\ AnswersInv
  BY DEF Restart, WellFormed
<1>t. \A u \in Threads : Trusted(u)' <=> Trusted(u)
  BY <1>0 DEF Trusted
<1>1. Serial' /\ MarkedIsOpen' /\ NothingOpenAtWork' /\ AnswerIsForPause' /\ WorksFromLatest'
  BY <1>0 DEF Serial, MarkedIsOpen, NothingOpenAtWork, AnswerIsForPause, WorksFromLatest, AtWork
<1>2. \A u \in Threads : ~Asking(u)'
  BY <1>0 DEF Asking, OpenOn
<1>3. OneCurrentQuestion'
  BY <1>0 DEF OneCurrentQuestion, OpenOn
<1>4. FedIsAsked' /\ AnswerReachesItsQuestion' /\ QuestionAnsweredOnce'
  <2>1. \A h \in Gates : status[h] # "unused" => status'[h] # "unused" /\ asks'[h] = asks[h]
    BY <1>0 DEF Unused
  <2>2. QED
    BY <1>0, <1>t, <2>1, FedStays
<1>5. FedIsPast'
  <2> SUFFICES ASSUME NEW g \in Gates, NEW f \in fed[g], Trusted(f.pause.thread)
               PROVE  /\ NotAfter(f.pause, graph'[f.pause.thread])
                      /\ ~Asking(f.pause.thread)'
    BY SMTT(30), <1>0, <1>t DEF FedIsPast, NotAfter, Before, TypeOK, Pauses
  <2>1. f.pause \in Pauses /\ f.pause.thread \in Threads
    BY <1>0 DEF TypeOK, Pauses
  <2>2. NotAfter(f.pause, graph[f.pause.thread]) /\ graph[f.pause.thread] \in Checkpoint
    BY <1>0, <2>1 DEF AnswersInv, FedIsPast, TypeOK
  <2>3. CASE Durable
    BY <1>0, <1>2, <2>1, <2>2, <2>3
  <2>4. CASE ~Durable
    <3>1. graph'[f.pause.thread] = Ended(graph[f.pause.thread].run)
      BY <1>0, <2>1, <2>4
    <3>2. QED
      BY <1>2, <2>1, <2>2, <3>1, TurnRuntimeAssumption DEF NotAfter, Ended, Pauses, Checkpoint
  <2>5. QED
    BY <2>3, <2>4
<1>6. QED
  BY <1>1, <1>3, <1>4, <1>5 DEF AnswersInv

\* The invariant holds in every reachable state of the turn runtime.
THEOREM AnswersAreRight == Spec => []WellFormed
<1>1. Init => AnswersInv
  BY DEF Init, AnswersInv, Serial, MarkedIsOpen, NothingOpenAtWork, AnswerIsForPause,
         WorksFromLatest, FedIsPast, FedIsAsked, OneCurrentQuestion,
         AnswerReachesItsQuestion, QuestionAnsweredOnce, AtWork, OpenOn
<1>2. TypeOK /\ HandlerInv /\ AnswersInv /\ [Next]_vars => AnswersInv'
  <2> SUFFICES ASSUME WellFormed, [Next]_vars
               PROVE  AnswersInv'
    BY DEF WellFormed
  <2>1. ASSUME NEW r \in Requests, NEW t \in Threads, Invoke(r, t)
        PROVE  AnswersInv'
    BY <2>1, InvokeKeeps
  <2>2. ASSUME NEW r \in Requests, NEW g \in Gates, ResolveCheck(r, g)
        PROVE  AnswersInv'
    BY <2>2, ResolveCheckKeeps
  <2>3. ASSUME NEW r \in Requests, Turn(r)
        PROVE  AnswersInv'
    BY <2>3, ResolveMarkKeeps, ReadKeeps, RunStartKeeps, RunResumeKeeps, RunNothingKeeps,
       WalkKeeps, FailKeeps, SyncCloseKeeps, SyncOpenKeeps, PublishKeeps DEF Turn
  <2>4. CASE Restart
    BY <2>4, RestartKeeps
  <2>5. CASE UNCHANGED vars
    BY <2>5 DEF vars, store, handlers, history, WellFormed, AnswersInv, Serial, MarkedIsOpen,
       NothingOpenAtWork, AnswerIsForPause, WorksFromLatest, FedIsPast, FedIsAsked,
       OneCurrentQuestion, AnswerReachesItsQuestion, QuestionAnsweredOnce, AtWork, OpenOn,
       Trusted, Asking, Before, NotAfter, Pause
  <2>6. QED
    BY <2>1, <2>2, <2>3, <2>4, <2>5 DEF Next
<1>3. QED
  BY <1>1, <1>2, TypeCorrect, PTL DEF Spec, WellFormed

\* resolve() and GraphRunner.resume() hand a verdict to the interrupt its gate
\* was opened for, on every thread whose clients do not overlap requests or
\* send a command over an open question.
THEOREM VerdictsReachTheirQuestions == Spec => []AnswerReachesItsQuestion
<1>1. WellFormed => AnswerReachesItsQuestion
  BY DEF WellFormed, AnswersInv
<1>2. QED
  BY <1>1, AnswersAreRight, PTL

\* No interrupt of such a thread consumes two verdicts, even when the turn that
\* consumed the first one raised.
THEOREM QuestionsAreAnsweredOnce == Spec => []QuestionAnsweredOnce
<1>1. WellFormed => QuestionAnsweredOnce
  BY DEF WellFormed, AnswersInv
<1>2. QED
  BY <1>1, AnswersAreRight, PTL

\* The gate store shows one question per such thread, the one its checkpoint is
\* parked on, while turns are at work as well.
THEOREM OneQuestionIsCurrent == Spec => []OneCurrentQuestion
<1>1. WellFormed => OneCurrentQuestion
  BY DEF WellFormed, AnswersInv
<1>2. QED
  BY <1>1, AnswersAreRight, PTL

\* resolve() never marks a superseded record, unless requests overlap: the
\* record it checked is still open when it writes.
THEOREM SupersededStays == Spec => SupersededIsFinal
<1> DEFINE Final == \A g \in Gates :
                        status[g] = "superseded" /\ status'[g] = "resolved"
                            => overlapped[asks[g].thread]
<1>1. WellFormed /\ [Next]_vars => [Final]_vars
  <2> SUFFICES ASSUME WellFormed, Next, NEW g \in Gates,
                      status[g] = "superseded", status'[g] = "resolved"
               PROVE  overlapped[asks[g].thread]
    OBVIOUS
  <2>1. PICK r \in Requests : ResolveMark(r)
    <3>1. ~ \E r \in Requests : SyncClose(r)
      BY DEF SyncClose
    <3>2. ~ \E r \in Requests : SyncOpen(r)
      BY DEF SyncOpen, WellFormed, TypeOK
    <3>3. ~Restart
      BY DEF Restart
    <3>4. status' # status
      OBVIOUS
    <3>5. QED
      BY <3>1, <3>2, <3>3, <3>4 DEF Next, Turn, Invoke, ResolveCheck, Load, RunStart,
         RunResume, RunNothing, Walk, Fail, SyncRead, Publish, store
  <2>2. gate[r] = g /\ pc[r] = "mark"
    BY <2>1 DEF ResolveMark, Mark, WellFormed, TypeOK
  <2>3. asks[g].thread = thr[r]
    BY <2>2, TurnRuntimeAssumption DEF WellFormed, HandlerInv
  <2>4. QED
    BY <2>2, <2>3, WorksAlone DEF WellFormed, AnswersInv, MarkedIsOpen, TypeOK
<1>2. QED
  BY <1>1, AnswersAreRight, PTL DEF Spec, SupersededIsFinal

-----------------------------------------------------------------------------
(* A thread at rest.                                                       *)

\* No handler is at work on the thread but one about to publish its frame.
Landed(t) == \A r \in Requests : pc[r] # "idle" /\ thr[r] = t => pc[r] = "publish"

Matches(t) ==
    IF graph[t].parked
    THEN \E g \in OpenOn(t) : asks[g] = Pause(t, graph[t])
    ELSE OpenOn(t) = {}

FrameTells(t) == frame[t] # "none" => (frame[t] = "opened" <=> graph[t].parked)

\* The store is right from the moment it was written, the frame once it is out.
Rest(t) ==
    ~overlapped[t] /\ excuse[t] = "none" =>
        /\ Landed(t) => Matches(t)
        /\ Quiescent(t) => FrameTells(t)

RestInv == \A t \in Threads : Rest(t)

\* A thread with a handler in the middle of its turn is not at rest.
LEMMA BusyIsNotAtRest ==
    ASSUME NEW r \in Requests, NEW t \in Threads, thr'[r] = t, pc'[r] \notin {"idle", "publish"}
    PROVE  Rest(t)'
BY DEF Rest, Landed, Quiescent, InFlight

\* A step leaves a thread at rest whose state and handlers it does not touch.
LEMMA ElsewhereRests ==
    ASSUME NEW u \in Threads, Rest(u),
           ~overlapped'[u] => ~overlapped[u],
           excuse'[u] = excuse[u], graph'[u] = graph[u], frame'[u] = frame[u],
           OpenOn(u)' = OpenOn(u), \A g \in OpenOn(u) : asks'[g] = asks[g],
           \A q \in Requests : pc[q] # "idle" /\ thr[q] = u => pc'[q] = pc[q] /\ thr'[q] = u
    PROVE  Rest(u)'
<1>1. Landed(u)' => Landed(u)
  BY DEF Landed
<1>2. Quiescent(u)' => Quiescent(u)
  BY DEF Quiescent, InFlight
<1>3. Matches(u) => Matches(u)'
  BY DEF Matches, Pause
<1>4. FrameTells(u) => FrameTells(u)'
  BY DEF FrameTells
<1>5. QED
  BY <1>1, <1>2, <1>3, <1>4 DEF Rest

\* A request that enters leaves no thread at rest that was not.
LEMMA EnterRests ==
    ASSUME WellFormed, RestInv, NEW r \in Requests,
           \/ \E t \in Threads : Invoke(r, t)
           \/ \E g \in Gates : ResolveCheck(r, g)
    PROVE  RestInv'
<1>1. PICK t \in Threads, step \in {"load", "mark"} :
         /\ pc[r] = "idle" /\ pc' = [pc EXCEPT ![r] = step]
         /\ thr' = [thr EXCEPT ![r] = t]
         /\ overlapped' = [overlapped EXCEPT ![t] = @ \/ ~Quiescent(t)]
         /\ UNCHANGED <<graph, status, asks, frame, excuse>>
         /\ TypeOK
  <2>1. CASE \E t \in Threads : Invoke(r, t)
    BY <2>1 DEF Invoke, Enter, Goto, store, WellFormed
  <2>2. CASE \E g \in Gates : ResolveCheck(r, g)
    <3>1. PICK g \in Gates : ResolveCheck(r, g)
      BY <2>2
    <3>2. asks[g].thread \in Threads
      BY <3>1 DEF ResolveCheck, Resolvable, WellFormed, HandlerInv, Pauses
    <3>3. QED
      BY <3>1, <3>2 DEF ResolveCheck, ThreadOf, Enter, Goto, store, WellFormed
  <2>3. QED
    BY <2>1, <2>2
<1>2. Rest(t)'
  BY <1>1, BusyIsNotAtRest DEF TypeOK
<1>3. ASSUME NEW u \in Threads, u # t
      PROVE  Rest(u)'
  <2>1. OpenOn(u)' = OpenOn(u)
    BY <1>1 DEF OpenOn
  <2>2. QED
    BY <1>1, <1>3, <2>1, ElsewhereRests DEF RestInv, TypeOK
<1>4. QED
  BY <1>2, <1>3 DEF RestInv

\* A turn touches no thread but its own.
LEMMA TurnIsLocal ==
    ASSUME WellFormed, RestInv, NEW r \in Requests, Turn(r), NEW u \in Threads, u # thr[r]
    PROVE  Rest(u)'
<1>0. /\ TypeOK /\ HandlerInv /\ pc[r] # "idle" /\ thr[r] \in Threads
      /\ UNCHANGED overlapped
      /\ graph'[u] = graph[u] /\ frame'[u] = frame[u] /\ excuse'[u] = excuse[u]
      /\ \A q \in Requests : q # r => pc'[q] = pc[q] /\ thr'[q] = thr[q]
  <2>1. TypeOK /\ HandlerInv /\ pc[r] # "idle" /\ thr[r] \in Threads
    BY DEF Turn, ResolveMark, Load, RunStart, RunResume, RunNothing, Walk, Fail, MayRaise,
           SyncRead, SyncClose, SyncOpen, Publish, WellFormed, HandlerInv
  <2>2. UNCHANGED overlapped
    BY DEF Turn, ResolveMark, Load, RunStart, RunResume, RunNothing, Walk, Fail, SyncRead,
           SyncClose, SyncOpen, Publish, history
  <2>3. graph'[u] = graph[u]
    BY <2>1 DEF Turn, ResolveMark, Load, RunStart, RunResume, RunNothing, Walk, Fail, SyncRead,
           SyncClose, SyncOpen, Publish, MoveTo, TypeOK
  <2>4. frame'[u] = frame[u] /\ excuse'[u] = excuse[u]
    BY <2>1 DEF Turn, ResolveMark, Load, RunStart, RunResume, RunNothing, Walk, Fail, SyncRead,
           SyncClose, SyncOpen, Publish, history, TypeOK
  <2>5. \A q \in Requests : q # r => pc'[q] = pc[q] /\ thr'[q] = thr[q]
    BY <2>1 DEF Turn, ResolveMark, Load, RunStart, RunResume, RunNothing, Walk, Fail, SyncRead,
           SyncClose, SyncOpen, Publish, MoveTo, Leave, Goto, TypeOK
  <2>6. QED
    BY <2>1, <2>2, <2>3, <2>4, <2>5
<1>1. OpenOn(u)' = OpenOn(u) /\ \A g \in OpenOn(u) : asks'[g] = asks[g]
  <2>1. CASE ResolveMark(r)
    <3>1. asks[gate[r]].thread = thr[r]
      BY <1>0, <2>1, TurnRuntimeAssumption DEF ResolveMark, HandlerInv
    <3>2. QED
      BY <1>0, <2>1, <3>1 DEF ResolveMark, Mark, OpenOn, TypeOK
  <2>2. CASE SyncClose(r)
    BY <1>0, <2>2 DEF SyncClose, ToClose, OpenOn
  <2>3. CASE SyncOpen(r)
    BY <1>0, <2>3 DEF SyncOpen, Unused, OpenOn, Pause, TypeOK
  <2>4. CASE UNCHANGED store
    BY <2>4 DEF store, OpenOn
  <2>5. QED
    BY <2>1, <2>2, <2>3, <2>4 DEF Turn, Load, RunStart, RunResume, RunNothing, Walk, Fail,
       SyncRead, Publish
<1>2. QED
  BY <1>0, <1>1, ElsewhereRests DEF RestInv

\* SyncClose, SyncOpen: the store now says what the checkpoint says.
LEMMA SyncMatches ==
    ASSUME WellFormed, NEW r \in Requests, SyncClose(r) \/ SyncOpen(r), ~overlapped[thr[r]]
    PROVE  Matches(thr[r])'
<1>p. PICK t \in Threads : t = thr[r]
  BY WorksAlone DEF SyncClose, SyncOpen
<1>0. /\ UNCHANGED <<graph, thr, pos>> /\ pos[r] = graph[t]
      /\ TypeOK
  BY <1>p DEF SyncClose, SyncOpen, WellFormed, AnswersInv, WorksFromLatest
<1>1. CASE SyncClose(r)
  <2>1. OpenOn(t)' = {} /\ ~graph'[t].parked
    BY <1>0, <1>1, <1>p DEF SyncClose, ToClose, OpenOn
  <2>2. QED
    BY <1>0, <1>p, <2>1 DEF Matches
<1>2. CASE SyncOpen(r)
  <2>1. PICK g \in Unused : /\ status' = [status EXCEPT ![g] = "open"]
                            /\ asks'   = [asks EXCEPT ![g] = Pause(t, graph[t])]
    BY <1>0, <1>2, <1>p DEF SyncOpen
  <2>2. g \in OpenOn(t)' /\ asks'[g] = Pause(t, graph[t]) /\ graph'[t].parked
    BY <1>0, <1>2, <1>p, <2>1 DEF OpenOn, Unused, Pause, SyncOpen, TypeOK
  <2>3. QED
    BY <1>0, <1>p, <2>2 DEF Matches, Pause
<1>3. QED
  BY <1>1, <1>2

\* A turn leaves its own thread busy, in trouble, or at rest.
LEMMA TurnRests ==
    ASSUME WellFormed, RestInv, NEW r \in Requests, Turn(r)
    PROVE  \A t \in Threads : t = thr[r] => Rest(t)'
<1>p. PICK t \in Threads : t = thr[r]
  BY WorksAlone DEF Turn, ResolveMark, Load, RunStart, RunResume, RunNothing, Walk, Fail,
                    MayRaise, SyncRead, SyncClose, SyncOpen, Publish
<1>0. TypeOK /\ HandlerInv
  BY DEF WellFormed
<1>1. CASE \/ ResolveMark(r) \/ Load(r) \/ RunStart(r) \/ RunResume(r) \/ RunNothing(r)
           \/ Walk(r) \/ SyncRead(r)
  <2>1. thr'[r] = t /\ pc'[r] \notin {"idle", "publish"}
    BY <1>0, <1>1, <1>p DEF ResolveMark, Load, RunStart, RunResume, RunNothing, Walk, SyncRead,
       MoveTo, Goto, TypeOK
  <2>2. Rest(t)'
    BY <2>1, BusyIsNotAtRest
  <2>3. QED
    BY <1>p, <2>2 DEF RestInv
<1>2. CASE Fail(r)
  <2>1. excuse'[t] = "failed"
    BY <1>0, <1>2, <1>p DEF Fail, TypeOK
  <2>2. Rest(t)'
    BY <2>1 DEF Rest
  <2>3. QED
    BY <1>p, <2>2 DEF RestInv
<1>3. CASE SyncClose(r) \/ SyncOpen(r)
  <2>1. thr' = thr /\ overlapped' = overlapped /\ pc'[r] = "publish"
    BY <1>0, <1>3 DEF SyncClose, SyncOpen, Goto, TypeOK
  <2>2. ~Quiescent(t)'
    BY <1>p, <2>1 DEF Quiescent, InFlight
  <2>3. ~overlapped[t] => Matches(t)'
    BY <1>3, <1>p, <2>1, SyncMatches DEF Matches, OpenOn, Pause
  <2>4. Rest(t)'
    BY <2>1, <2>2, <2>3 DEF Rest
  <2>5. QED
    BY <1>p, <2>4 DEF RestInv
<1>4. CASE Publish(r)
  <2>1. /\ pc[r] = "publish" /\ pc' = [pc EXCEPT ![r] = "idle"]
        /\ thr' = [thr EXCEPT ![r] = None]
        /\ frame'[t] = IF pos[r].parked THEN "opened" ELSE "completed"
        /\ UNCHANGED <<graph, status, asks, excuse, overlapped>>
    BY <1>0, <1>4, <1>p DEF Publish, Leave, Goto, FrameFor, store, history, TypeOK
  <2>2. ~overlapped[t] => pos[r] = graph[t] /\ Landed(t)
    BY <1>p, <2>1, WorksAlone DEF WellFormed, AnswersInv, WorksFromLatest, Landed
  <2>3. Matches(t)' = Matches(t)
    BY <2>1 DEF Matches, OpenOn, Pause
  <2>4. ~overlapped[t] => FrameTells(t)'
    BY <2>1, <2>2 DEF FrameTells
  <2>5. Rest(t)'
    BY <2>1, <2>2, <2>3, <2>4 DEF Rest, RestInv
  <2>6. QED
    BY <1>p, <2>5 DEF RestInv
<1>5. QED
  BY <1>1, <1>2, <1>3, <1>4 DEF Turn

\* In every reachable state every thread is busy, in trouble, or right.
THEOREM RestIsRight == Spec => [](WellFormed /\ RestInv)
<1>1. Init => RestInv
  BY DEF Init, RestInv, Rest, Matches, FrameTells, OpenOn, Nowhere, Ended
<1>2. WellFormed /\ RestInv /\ [Next]_vars => RestInv'
  <2> SUFFICES ASSUME WellFormed, RestInv, [Next]_vars
               PROVE  RestInv'
    OBVIOUS
  <2>1. ASSUME NEW r \in Requests, \/ \E t \in Threads : Invoke(r, t)
                                   \/ \E g \in Gates : ResolveCheck(r, g)
        PROVE  RestInv'
    BY <2>1, EnterRests
  <2>2. ASSUME NEW r \in Requests, Turn(r)
        PROVE  RestInv'
    BY <2>2, TurnRests, TurnIsLocal DEF RestInv
  <2>3. CASE Restart
    BY <2>3 DEF Restart, RestInv, Rest
  <2>4. CASE UNCHANGED vars
    BY <2>4 DEF vars, store, handlers, history, RestInv, Rest, Landed, Matches, Quiescent,
       InFlight, FrameTells, OpenOn, Pause
  <2>5. QED
    BY <2>1, <2>2, <2>3, <2>4 DEF Next
<1>3. QED
  BY <1>1, <1>2, AnswersAreRight, PTL DEF Spec

\* After a turn that neither raised nor was cut off, on a thread whose requests
\* did not overlap, a parked thread has an open record for the interrupt it is
\* parked on, and a thread that is not parked has none: _sync_pending.
THEOREM StoreIsRight == Spec => []StoreMatchesCheckpoint
<1>1. RestInv => StoreMatchesCheckpoint
  BY DEF RestInv, Rest, StoreMatchesCheckpoint, Settled, Landed, Matches, Quiescent, InFlight
<1>2. QED
  BY <1>1, RestIsRight, PTL

\* ... and the last frame on its channel says which of the two it is.
THEOREM FrameIsRight == Spec => []FrameMatchesCheckpoint
<1>1. RestInv => FrameMatchesCheckpoint
  BY DEF RestInv, Rest, FrameMatchesCheckpoint, Settled, FrameTells
<1>2. QED
  BY <1>1, RestIsRight, PTL

-----------------------------------------------------------------------------
(* The refinement of Conversation.                                         *)


\* The runs of a thread are counted from one, and a fresh command has one left.
RunsAreCounted ==
    /\ \A t \in Threads : Trusted(t) =>
          graph[t].run <= MaxRuns /\ (HasWork(graph[t]) => graph[t].run >= 1)
    /\ \A r \in Requests :
          pc[r] \in {"load", "run"} /\ gate[r] = None /\ Trusted(thr[r]) =>
              graph[thr[r]].run < MaxRuns

\* Past the resume, the answer a handler carries was used.
CarriedIsUsed ==
    \A r \in Requests :
        /\ pc[r] \in {"walk", "sync", "write", "publish"}
        /\ gate[r] # None /\ Trusted(thr[r])
        => fed[gate[r]] # {}

\* A turn that came to grief left nothing open.
StuckOffersNothing == \A t \in Threads : Trusted(t) /\ excuse[t] # "none" => OpenOn(t) = {}

TalkInv == RunsAreCounted /\ CarriedIsUsed /\ StuckOffersNothing

-----------------------------------------------------------------------------
\* What a turn leaves alone.
LEMMA TurnTouches ==
    ASSUME WellFormed, NEW r \in Requests, Turn(r)
    PROVE  /\ pc[r] # "idle" /\ thr[r] \in Threads
           /\ UNCHANGED <<overlapped, recommanded>>
           /\ \A q \in Requests \ {r} : pc'[q] = pc[q] /\ thr'[q] = thr[q] /\ gate'[q] = gate[q]
           /\ \A u \in Threads \ {thr[r]} : /\ graph'[u] = graph[u] /\ excuse'[u] = excuse[u]
                                            /\ OpenOn(u)' = OpenOn(u)
           /\ \A g \in Gates : /\ fed[g] \subseteq fed'[g]
                               /\ g # gate[r] => fed'[g] = fed[g]
                               /\ status[g] # "unused" => asks'[g] = asks[g]
<1> DEFINE Steps1 == \/ ResolveMark(r) \/ Load(r) \/ RunStart(r) \/ RunResume(r) \/ RunNothing(r)
                     \/ Walk(r) \/ Fail(r) \/ SyncRead(r) \/ SyncClose(r) \/ SyncOpen(r)
                     \/ Publish(r)
<1>0. TypeOK /\ HandlerInv /\ Steps1
  BY DEF WellFormed, Turn
<1>1. pc[r] # "idle"
  BY <1>0 DEF ResolveMark, Load, RunStart, RunResume, RunNothing, Walk, Fail, MayRaise,
     SyncRead, SyncClose, SyncOpen, Publish
<1>2. thr[r] \in Threads
  BY <1>0, <1>1 DEF HandlerInv
<1>3. UNCHANGED <<overlapped, recommanded>>
  BY <1>0 DEF ResolveMark, Load, RunStart, RunResume, RunNothing, Walk, Fail, SyncRead,
     SyncClose, SyncOpen, Publish, history
<1>4. \A q \in Requests \ {r} : pc'[q] = pc[q] /\ thr'[q] = thr[q] /\ gate'[q] = gate[q]
  BY <1>0 DEF ResolveMark, Load, RunStart, RunResume, RunNothing, Walk, Fail, SyncRead,
     SyncClose, SyncOpen, Publish, MoveTo, Leave, Goto, TypeOK
<1>5. \A u \in Threads \ {thr[r]} : graph'[u] = graph[u]
  BY <1>0 DEF ResolveMark, Load, RunStart, RunResume, RunNothing, Walk, Fail, SyncRead,
     SyncClose, SyncOpen, Publish, MoveTo, TypeOK
<1>6. \A u \in Threads \ {thr[r]} : excuse'[u] = excuse[u]
  BY <1>0 DEF ResolveMark, Load, RunStart, RunResume, RunNothing, Walk, Fail, SyncRead,
     SyncClose, SyncOpen, Publish, history, TypeOK
<1>7. \A g \in Gates : /\ fed[g] \subseteq fed'[g]
                       /\ g # gate[r] => fed'[g] = fed[g]
  <2>1. UNCHANGED fed \/ \E p : Feed(r, p)
    BY <1>0 DEF ResolveMark, Load, RunStart, RunResume, RunNothing, Walk, Fail, SyncRead,
       SyncClose, SyncOpen, Publish, history
  <2>2. QED
    BY <1>0, <2>1 DEF Feed, TypeOK
<1>8. \A g \in Gates : status[g] # "unused" => asks'[g] = asks[g]
  <2>1. CASE SyncOpen(r)
    BY <1>0, <2>1 DEF SyncOpen, Unused, TypeOK
  <2>2. CASE UNCHANGED asks
    BY <2>2
  <2>3. QED
    BY <1>0, <2>1, <2>2 DEF ResolveMark, Load, RunStart, RunResume, RunNothing, Walk, Fail,
       SyncRead, SyncClose, Publish, store
<1>9. \A u \in Threads \ {thr[r]} : OpenOn(u)' = OpenOn(u)
  <2>1. CASE ResolveMark(r)
    <3>1. asks[gate[r]].thread = thr[r]
      BY <1>0, <2>1, TurnRuntimeAssumption DEF ResolveMark, HandlerInv
    <3>2. QED
      BY <1>0, <2>1, <3>1 DEF ResolveMark, Mark, OpenOn, TypeOK
  <2>2. CASE SyncClose(r)
    BY <1>0, <2>2 DEF SyncClose, ToClose, OpenOn
  <2>3. CASE SyncOpen(r)
    BY <1>0, <2>3 DEF SyncOpen, Unused, OpenOn, Pause, TypeOK
  <2>4. CASE UNCHANGED store
    BY <2>4 DEF store, OpenOn
  <2>5. QED
    BY <1>0, <2>1, <2>2, <2>3, <2>4 DEF Load, RunStart, RunResume, RunNothing, Walk, Fail,
       SyncRead, Publish
<1>10. QED
  BY <1>1, <1>2, <1>3, <1>4, <1>5, <1>6, <1>7, <1>8, <1>9

\* A request that enters has a trusted thread for itself.
LEMMA EnterAlone ==
    ASSUME WellFormed, NEW r \in Requests, NEW t \in Threads, NEW g, NEW step, Enter(r, t, g, step)
    PROVE  /\ pc[r] = "idle"
           /\ pc' = [pc EXCEPT ![r] = step] /\ thr' = [thr EXCEPT ![r] = t]
           /\ gate' = [gate EXCEPT ![r] = g]
           /\ \A u \in Threads : overlapped[u] => overlapped'[u]
           /\ \A u \in Threads \ {t} : overlapped'[u] = overlapped[u]
           /\ ~overlapped'[t] => Quiescent(t)
BY DEF Enter, Goto, WellFormed, TypeOK

LEMMA EntranceTalks ==
    ASSUME WellFormed, TalkInv, NEW r \in Requests,
           UNCHANGED <<graph, status, asks, fed, excuse>>,
           \A u \in Threads : Trusted(u)' => Trusted(u),
           \A q \in Requests \ {r} : pc'[q] = pc[q] /\ thr'[q] = thr[q] /\ gate'[q] = gate[q],
           \/ pc'[r] = "mark"
           \/ pc'[r] = "load" /\ graph[thr'[r]].run < MaxRuns
    PROVE  TalkInv'
<1>0. HandlerInv
  BY DEF WellFormed
<1>1. RunsAreCounted'
  BY <1>0 DEF RunsAreCounted, TalkInv, HandlerInv
<1>2. CarriedIsUsed'
  BY <1>0 DEF CarriedIsUsed, TalkInv, HandlerInv
<1>3. StuckOffersNothing'
  BY DEF StuckOffersNothing, TalkInv, OpenOn
<1>4. QED
  BY <1>1, <1>2, <1>3 DEF TalkInv

LEMMA InvokeTalks ==
    ASSUME WellFormed, TalkInv, NEW r \in Requests, NEW t \in Threads, Invoke(r, t)
    PROVE  TalkInv'
<1>0. TypeOK /\ Enter(r, t, None, "load") /\ UNCHANGED <<graph, status, asks, fed, excuse>>
  BY DEF Invoke, store, WellFormed
<1>1. \A u \in Threads : Trusted(u)' => Trusted(u)
  BY <1>0 DEF Invoke, Enter, Trusted, TypeOK
<1>2. \A q \in Requests \ {r} : pc'[q] = pc[q] /\ thr'[q] = thr[q] /\ gate'[q] = gate[q]
  BY <1>0, EnterAlone DEF TypeOK
<1>3. pc'[r] = "load" /\ graph[thr'[r]].run < MaxRuns
  BY <1>0, EnterAlone DEF Invoke, TypeOK
<1>4. QED
  BY <1>0, <1>1, <1>2, <1>3, EntranceTalks

LEMMA ResolveCheckTalks ==
    ASSUME WellFormed, TalkInv, NEW r \in Requests, NEW g \in Gates, ResolveCheck(r, g)
    PROVE  TalkInv'
<1>p. PICK t \in Threads : t = asks[g].thread
  BY DEF ResolveCheck, Resolvable, WellFormed, HandlerInv, Pauses
<1>0. /\ TypeOK /\ Enter(r, t, g, "mark")
      /\ UNCHANGED <<graph, status, asks, fed, excuse, recommanded>>
  BY <1>p DEF ResolveCheck, ThreadOf, store, WellFormed
<1>1. \A u \in Threads : Trusted(u)' => Trusted(u)
  BY <1>0 DEF Enter, Trusted, TypeOK
<1>2. \A q \in Requests \ {r} : pc'[q] = pc[q] /\ thr'[q] = thr[q] /\ gate'[q] = gate[q]
  BY <1>0, EnterAlone DEF TypeOK
<1>3. pc'[r] = "mark"
  BY <1>0, EnterAlone DEF TypeOK
<1>4. QED
  BY <1>0, <1>1, <1>2, <1>3, EntranceTalks

\* What each step of a turn says of its own thread, when that can be trusted.
LEMMA TurnCounts ==
    ASSUME WellFormed, TalkInv, NEW r \in Requests, Turn(r)
    PROVE  RunsAreCounted'
<1>0. TypeOK /\ HandlerInv
  BY DEF WellFormed
<1>p. PICK t \in Threads : t = thr[r]
  BY TurnTouches
<1>a. /\ \A u \in Threads : Trusted(u)' = Trusted(u)
      /\ \A q \in Requests \ {r} : pc'[q] = pc[q] /\ thr'[q] = thr[q] /\ gate'[q] = gate[q]
      /\ \A u \in Threads \ {t} : graph'[u] = graph[u]
  BY <1>p, TurnTouches DEF Trusted
<1>c. graph[t] \in Checkpoint /\ graph[t].run \in Nat /\ graph[t].at \in 1 .. Last + 1
  BY <1>0 DEF TypeOK, Checkpoint
<1>1. ASSUME Trusted(t)
      PROVE  graph'[t].run <= MaxRuns /\ (HasWork(graph[t])' => graph'[t].run >= 1)
  <2>0. graph[t].run <= MaxRuns /\ (HasWork(graph[t]) => graph[t].run >= 1)
    BY <1>1 DEF TalkInv, RunsAreCounted
  <2>1. CASE RunStart(r)
    <3>1. graph[t].run < MaxRuns
      BY <1>1, <1>p, <2>1 DEF RunStart, FreshInput, TalkInv, RunsAreCounted
    <3>2. graph'[t] = [run |-> graph[t].run + 1, at |-> 1, parked |-> FALSE]
      BY <1>0, <1>p, <2>1 DEF RunStart, MoveTo, NextRun, TypeOK
    <3>3. QED
      BY <1>c, <3>1, <3>2, TurnRuntimeAssumption
  <2>2. CASE RunResume(r)
    <3>1. pos[r] = graph[t] /\ HasWork(pos[r])
      BY <1>1, <1>p, <2>2 DEF RunResume, WellFormed, AnswersInv, WorksFromLatest, Trusted
    <3>2. graph'[t].run = graph[t].run
      BY <1>0, <1>p, <2>2, <3>1 DEF RunResume, MoveTo, Answered, TypeOK
    <3>3. QED
      BY <2>0, <3>1, <3>2
  <2>3. CASE Walk(r)
    <3>1. pos[r] = graph[t]
      BY <1>1, <1>p, <2>3 DEF Walk, WellFormed, AnswersInv, WorksFromLatest, Trusted
    <3>2. /\ graph'[t].run = graph[t].run
          /\ HasWork(pos[r]) \/ graph'[t].at = Last + 1
      BY <1>0, <1>p, <1>c, <2>3, <3>1 DEF Walk, MoveTo, TypeOK, Checkpoint
    <3>3. QED
      BY <2>0, <3>1, <3>2, TurnRuntimeAssumption DEF HasWork
  <2>4. CASE graph' = graph
    BY <2>0, <2>4 DEF HasWork
  <2>5. QED
    BY <2>1, <2>2, <2>3, <2>4 DEF Turn, ResolveMark, Load, RunNothing, Fail, SyncRead, SyncClose,
       SyncOpen, Publish
<1>2. ASSUME NEW q \in Requests, pc'[q] \in {"load", "run"}, gate'[q] = None, Trusted(thr[q])',
             thr'[q] \in Threads
      PROVE  graph'[thr'[q]].run < MaxRuns
  <2>1. CASE q = r
    <3>1. /\ pc[r] \in {"load", "run", "mark"} /\ graph' = graph
          /\ thr'[r] = thr[r] /\ gate'[r] = gate[r]
      BY <1>0, <1>2, <2>1, TurnTouches DEF Turn, ResolveMark, Load, RunStart, RunResume, RunNothing,
         Walk, Fail, SyncRead, SyncClose, SyncOpen, Publish, MoveTo, Leave, Goto, TypeOK
    <3>2. pc[r] # "mark"
      BY <1>0, <1>2, <2>1, <3>1, TurnRuntimeAssumption DEF HandlerInv
    <3>3. QED
      BY <1>2, <1>a, <2>1, <3>1, <3>2 DEF TalkInv, RunsAreCounted
  <2>2. CASE q # r
    <3>1. pc[q] = pc'[q] /\ thr[q] = thr'[q] /\ gate[q] = gate'[q] /\ Trusted(thr[q])
      BY <1>2, <1>a, <2>2
    <3>2. thr[q] # t
      BY <1>2, <1>p, <2>2, <3>1, WorksAlone, TurnTouches DEF Trusted
    <3>3. QED
      BY <1>2, <1>a, <3>1, <3>2 DEF TalkInv, RunsAreCounted
  <2>3. QED
    BY <2>1, <2>2
<1>3. \A q \in Requests : pc'[q] # "idle" => thr'[q] \in Threads
  BY <1>0, <1>a, <1>p DEF HandlerInv, Turn, ResolveMark, Load, RunStart, RunResume, RunNothing,
     Walk, Fail, SyncRead, SyncClose, SyncOpen, Publish, MoveTo, Leave, Goto, TypeOK
<1>4. \A u \in Threads : Trusted(u)' =>
         graph'[u].run <= MaxRuns /\ (HasWork(graph[u])' => graph'[u].run >= 1)
  BY <1>1, <1>a DEF TalkInv, RunsAreCounted, HasWork
<1>5. QED
  BY <1>2, <1>3, <1>4 DEF RunsAreCounted, HasWork, Trusted

LEMMA TurnUses ==
    ASSUME WellFormed, TalkInv, NEW r \in Requests, Turn(r)
    PROVE  CarriedIsUsed'
<1>0. TypeOK /\ HandlerInv
  BY DEF WellFormed
<1> SUFFICES ASSUME NEW q \in Requests, pc'[q] \in {"walk", "sync", "write", "publish"},
                    gate'[q] # None, Trusted(thr[q])'
             PROVE  fed'[gate'[q]] # {}
  BY DEF CarriedIsUsed
<1>1. CASE q # r
  <2>1. pc[q] = pc'[q] /\ thr[q] = thr'[q] /\ gate[q] = gate'[q] /\ gate[q] \in Gates
    BY <1>0, <1>1, TurnTouches DEF TypeOK
  <2>2. Trusted(thr[q])
    BY <2>1, TurnTouches DEF Trusted
  <2>3. fed[gate[q]] # {}
    BY <2>1, <2>2 DEF TalkInv, CarriedIsUsed
  <2>4. QED
    BY <2>1, <2>3, TurnTouches
<1>2. CASE q = r
  <2>1. thr'[r] = thr[r] /\ gate'[r] = gate[r] /\ gate[r] \in Gates
    BY <1>0, <1>2 DEF Turn, ResolveMark, Load, RunStart, RunResume, RunNothing, Walk, Fail,
       SyncRead, SyncClose, SyncOpen, Publish, MoveTo, Leave, Goto, TypeOK
  <2>2. Trusted(thr[r])
    BY <1>2, <2>1, TurnTouches DEF Trusted
  <2>3. CASE pc[r] \in {"walk", "sync", "write", "publish"}
    BY <1>2, <2>1, <2>2, <2>3, TurnTouches DEF TalkInv, CarriedIsUsed
  <2>4. CASE pc[r] = "run"
    <3>1. pos[r].parked /\ HasWork(pos[r])
      BY <1>2, <2>1, <2>2, <2>4, <1>0, AnswerArrives, TurnRuntimeAssumption
         DEF HandlerInv, HasWork
    <3>2. RunResume(r)
      BY <1>0, <1>2, <2>1, <2>4, <3>1 DEF Turn, ResolveMark, Load, RunStart, RunNothing, FreshInput,
         Walk, Fail, Leave, Goto, SyncRead, SyncClose, SyncOpen, Publish, TypeOK
    <3>3. Feed(r, Pause(thr[r], pos[r]))
      BY <3>1, <3>2 DEF RunResume
    <3>4. QED
      BY <1>0, <1>2, <2>1, <3>3 DEF Feed, TypeOK
  <2>5. CASE pc[r] \in {"mark", "load"}
    BY <1>0, <1>2, <2>5 DEF Turn, ResolveMark, Load, RunStart, RunResume, RunNothing, Walk, Fail,
       SyncRead, SyncClose, SyncOpen, Publish, MoveTo, Leave, Goto, TypeOK
  <2>6. QED
    BY <1>0, <2>3, <2>4, <2>5, TurnTouches DEF TypeOK, Steps
<1>3. QED
  BY <1>1, <1>2

LEMMA TurnOffers ==
    ASSUME WellFormed, TalkInv, NEW r \in Requests, Turn(r)
    PROVE  StuckOffersNothing'
<1>0. TypeOK /\ HandlerInv
  BY DEF WellFormed
<1> SUFFICES ASSUME NEW u \in Threads, Trusted(u)', excuse'[u] # "none"
             PROVE  OpenOn(u)' = {}
  BY DEF StuckOffersNothing
<1>t. Trusted(u) /\ thr[r] \in Threads
  BY TurnTouches DEF Trusted
<1>1. CASE u # thr[r]
  BY <1>1, <1>t, TurnTouches DEF TalkInv, StuckOffersNothing
<1>2. CASE u = thr[r]
  <2>1. CASE Fail(r)
    <3>1. OpenOn(u) = {}
      BY <1>2, <1>t, <2>1
         DEF Fail, MayRaise, WellFormed, AnswersInv, NothingOpenAtWork, AtWork
    <3>2. QED
      BY <2>1, <3>1 DEF Fail, store, OpenOn
  <2>2. CASE SyncClose(r) \/ SyncOpen(r)
    BY <1>0, <1>2, <1>t, <2>2 DEF SyncClose, SyncOpen, TypeOK
  <2>3. CASE ResolveMark(r)
    <3>1. OpenOn(u) = {}
      BY <1>t, <2>3 DEF ResolveMark, history, TalkInv, StuckOffersNothing
    <3>2. QED
      BY <1>0, <2>3, <3>1 DEF ResolveMark, Mark, OpenOn, TypeOK
  <2>4. CASE UNCHANGED <<store, excuse>>
    BY <1>t, <2>4 DEF store, OpenOn, TalkInv, StuckOffersNothing
  <2>5. QED
    BY <2>1, <2>2, <2>3, <2>4 DEF Turn, Load, RunStart, RunResume, RunNothing, Walk, SyncRead,
       Publish, history
<1>3. QED
  BY <1>1, <1>2

LEMMA RestartTalks ==
    ASSUME WellFormed, TalkInv, Restart
    PROVE  TalkInv'
<1>0. TypeOK
  BY DEF WellFormed
<1>t. \A u \in Threads : Trusted(u)' = Trusted(u)
  BY DEF Restart, Trusted
<1>1. \A u \in Threads : \/ graph'[u] = graph[u]
                         \/ graph'[u].run = graph[u].run /\ ~HasWork(graph'[u])
  BY <1>0, TurnRuntimeAssumption DEF Restart, Ended, HasWork, TypeOK
<1>2. RunsAreCounted'
  BY <1>t, <1>1 DEF Restart, RunsAreCounted, TalkInv, HasWork
<1>3. CarriedIsUsed'
  BY DEF Restart, CarriedIsUsed
<1>4. StuckOffersNothing'
  BY DEF Restart, StuckOffersNothing, OpenOn, Unused
<1>5. QED
  BY <1>2, <1>3, <1>4 DEF TalkInv

LEMMA TalkInit == Init => TalkInv
BY TurnRuntimeAssumption DEF Init, TalkInv, RunsAreCounted, CarriedIsUsed, StuckOffersNothing,
   Nowhere, Ended, HasWork, OpenOn

LEMMA TalkNext == WellFormed /\ TalkInv /\ [Next]_vars => TalkInv'
<1> SUFFICES ASSUME WellFormed, TalkInv, [Next]_vars
             PROVE  TalkInv'
  OBVIOUS
<1>1. ASSUME NEW r \in Requests, NEW t \in Threads, Invoke(r, t)
      PROVE  TalkInv'
  BY <1>1, InvokeTalks
<1>2. ASSUME NEW r \in Requests, NEW g \in Gates, ResolveCheck(r, g)
      PROVE  TalkInv'
  BY <1>2, ResolveCheckTalks
<1>3. ASSUME NEW r \in Requests, Turn(r)
      PROVE  TalkInv'
  BY <1>3, TurnCounts, TurnUses, TurnOffers DEF TalkInv
<1>4. CASE Restart
  BY <1>4, RestartTalks
<1>5. CASE UNCHANGED vars
  BY <1>5 DEF vars, store, handlers, history, TalkInv, RunsAreCounted, CarriedIsUsed,
     StuckOffersNothing, Trusted, HasWork, OpenOn
<1>6. QED
  BY <1>1, <1>2, <1>3, <1>4, <1>5 DEF Next

-----------------------------------------------------------------------------
(* What the conversation of a thread looks like, by where its handlers are. *)

LEMMA OnlyOne == ASSUME NEW x PROVE Only({x}) = x
BY DEF Only

LEMMA OnlyIsIn == ASSUME NEW S, S # {} PROVE Only(S) \in S
BY DEF Only

WorkView ==
    \A t \in Threads, r \in Requests : pc[r] # "idle" /\ thr[r] = t /\ Trusted(t) =>
        /\ Mode(t) = "working"
        /\ Question(t) =
              IF gate[r] # None /\ fed[gate[r]] = {} THEN asks[gate[r]] ELSE None

RestView ==
    \A t \in Threads : Quiescent(t) /\ Trusted(t) =>
        \/ excuse[t] # "none" /\ Mode(t) = "stuck" /\ Question(t) = None
        \/ excuse[t] = "none" /\ OpenOn(t) = {} /\ Mode(t) = "idle" /\ Question(t) = None
        \/ /\ excuse[t] = "none" /\ OpenOn(t) # {} /\ Mode(t) = "asking"
           /\ \A g \in OpenOn(t) : Question(t) = asks[g]

LostView ==
    \A t \in Threads :
        /\ Mode(t) = "untrusted" <=> ~Trusted(t)
        /\ ~Trusted(t) => Question(t) = None /\ Used(t) = {}

Good == WellFormed /\ TalkInv /\ WorkView /\ RestView /\ LostView

LEMMA WorkLooksSo == WellFormed => WorkView
<1> SUFFICES ASSUME WellFormed, NEW t \in Threads, NEW r \in Requests,
                    pc[r] # "idle", thr[r] = t, Trusted(t)
             PROVE  /\ Mode(t) = "working"
                    /\ Question(t) =
                          IF gate[r] # None /\ fed[gate[r]] = {} THEN asks[gate[r]] ELSE None
  BY DEF WorkView
<1>1. InFlight(t) = {r}
  BY WorksAlone DEF InFlight, Trusted
<1>2. Mode(t) = "working"
  BY <1>1 DEF Mode, Quiescent
<1>3. Pending(t) = Carried(t)
  BY <1>2 DEF Pending
<1>4. CASE gate[r] # None /\ fed[gate[r]] = {}
  <2>1. Pending(t) = {gate[r]}
    BY <1>1, <1>3, <1>4 DEF Carried
  <2>2. QED
    BY <1>2, <1>4, <2>1, OnlyOne DEF Question
<1>5. CASE ~(gate[r] # None /\ fed[gate[r]] = {})
  <2>1. Pending(t) = {}
    BY <1>1, <1>3, <1>5 DEF Carried
  <2>2. QED
    BY <1>2, <1>5, <2>1 DEF Question
<1>6. QED
  BY <1>4, <1>5

LEMMA RestLooksSo == WellFormed => RestView
<1> SUFFICES ASSUME WellFormed, NEW t \in Threads, Quiescent(t), Trusted(t)
             PROVE  \/ excuse[t] # "none" /\ Mode(t) = "stuck" /\ Question(t) = None
                    \/ /\ excuse[t] = "none" /\ OpenOn(t) = {}
                       /\ Mode(t) = "idle" /\ Question(t) = None
                    \/ /\ excuse[t] = "none" /\ OpenOn(t) # {} /\ Mode(t) = "asking"
                       /\ \A g \in OpenOn(t) : Question(t) = asks[g]
  BY DEF RestView
<1>1. CASE excuse[t] # "none" \/ OpenOn(t) = {}
  BY <1>1 DEF Mode, Question, Pending
<1>2. ASSUME excuse[t] = "none", NEW g \in OpenOn(t)
      PROVE  Mode(t) = "asking" /\ Question(t) = asks[g]
  <2>1. OpenOn(t) = {g}
    BY DEF WellFormed, AnswersInv, OneCurrentQuestion
  <2>2. Mode(t) = "asking" /\ Pending(t) = {g}
    BY <1>2, <2>1 DEF Mode, Pending
  <2>3. QED
    BY <2>2, OnlyOne DEF Question
<1>3. QED
  BY <1>1, <1>2

LEMMA LostLooksSo == LostView
BY DEF LostView, Mode, Question, Pending, Used

\* In every reachable state the engine's records are in order (WellFormed, TalkInv), and a
\* thread's conversation is what its handlers, or its rest, make of it.
THEOREM ConversationsLookSo == Spec => []Good
BY AnswersAreRight, TalkInit, TalkNext, WorkLooksSo, RestLooksSo, LostLooksSo, PTL DEF Spec, Good

-----------------------------------------------------------------------------
(* Every step of the engine is a step of Conversation, or none.             *)

Stays(t) == Mode(t)' = Mode(t) /\ Question(t)' = Question(t) /\ Used(t)' = Used(t)

LEMMA AllStay == ASSUME \A t \in Threads : Stays(t) PROVE UNCHANGED Conv!vars
BY DEF Stays, Conv!vars

LEMMA OneMoves ==
    ASSUME NEW t \in Threads, NEW m, NEW q, NEW u,
           Mode(t)' = m, Question(t)' = q, Used(t)' = u,
           \A x \in Threads \ {t} : Stays(x)
    PROVE  Conv!To(t, m, q, u)
BY DEF Stays, Conv!To

LEMMA UsedStays ==
    ASSUME NEW t \in Threads, fed' = fed, Trusted(t)' = Trusted(t)
    PROVE  Used(t)' = Used(t)
BY DEF Used

\* A step leaves the conversations alone whose handlers, gates and history it does
\* not touch.
LEMMA ElsewhereStays ==
    ASSUME Good, Good', NEW u \in Threads,
           Trusted(u)' = Trusted(u), InFlight(u)' = InFlight(u),
           \A q \in InFlight(u) : gate'[q] = gate[q],
           excuse'[u] = excuse[u], OpenOn(u)' = OpenOn(u),
           \A g \in Gates : status[g] # "unused" => asks'[g] = asks[g],
           \A g \in Gates : (status[g] # "unused" => asks[g].thread = u) => fed'[g] = fed[g]
    PROVE  Stays(u)
<1>0. TypeOK /\ HandlerInv /\ FedIsAsked /\ FedIsAsked'
  BY DEF Good, WellFormed, AnswersInv
<1>1. Mode(u)' = Mode(u)
  BY DEF Mode, Quiescent
<1>2. Carried(u)' = Carried(u)
  <2>1. \A q \in InFlight(u) : gate[q] # None =>
           gate[q] \in Gates /\ asks[gate[q]].thread = u
    BY <1>0 DEF InFlight, HandlerInv, TypeOK
  <2>2. \A q \in InFlight(u) : gate[q] # None => fed'[gate[q]] = fed[gate[q]]
    BY <2>1
  <2>3. QED
    BY <2>2 DEF Carried
<1>3. Pending(u)' = Pending(u)
  BY <1>1, <1>2 DEF Pending
<1>4. \A g \in Pending(u) : asks'[g] = asks[g]
  BY <1>0 DEF Pending, OpenOn, Carried, InFlight, HandlerInv, TypeOK
<1>5. Question(u)' = Question(u)
  <2>1. CASE Pending(u) = {}
    BY <1>3, <2>1 DEF Question
  <2>2. CASE Pending(u) # {}
    <3>1. Only(Pending(u)) \in Pending(u)
      BY <2>2, OnlyIsIn
    <3>2. Question(u)' = asks'[Only(Pending(u))]
      BY <1>3, <2>2 DEF Question
    <3>3. QED
      BY <1>4, <2>2, <3>1, <3>2 DEF Question
  <2>3. QED
    BY <2>1, <2>2
<1>6. Used(u)' = Used(u)
  <2>1. \A g \in Gates : \A f : f.pause.thread = u => (f \in fed'[g] <=> f \in fed[g])
    BY <1>0 DEF FedIsAsked
  <2>2. {e \in UNION {fed'[g] : g \in Gates} : e.pause.thread = u}
            = {e \in UNION {fed[g] : g \in Gates} : e.pause.thread = u}
    BY <2>1
  <2>3. QED
    BY <2>2 DEF Used
<1>7. QED
  BY <1>1, <1>5, <1>6 DEF Stays

\* A request that enters touches no other thread.
LEMMA EntranceIsLocal ==
    ASSUME Good, Good', NEW r \in Requests, NEW t \in Threads, NEW a, NEW step,
           Enter(r, t, a, step), UNCHANGED <<status, asks, fed, excuse>>,
           \A u \in Threads \ {t} : recommanded'[u] = recommanded[u]
    PROVE  \A u \in Threads \ {t} : Stays(u)
<1> SUFFICES ASSUME NEW u \in Threads, u # t PROVE Stays(u)
  OBVIOUS
<1>0. TypeOK /\ WellFormed
  BY DEF Good, WellFormed
<1>1. Trusted(u)' = Trusted(u)
  BY <1>0, EnterAlone DEF Trusted
<1>2. InFlight(u)' = InFlight(u) /\ \A q \in InFlight(u) : gate'[q] = gate[q]
  BY <1>0, EnterAlone DEF InFlight, TypeOK
<1>3. OpenOn(u)' = OpenOn(u)
  BY DEF OpenOn
<1>4. \A h \in Gates : status[h] # "unused" => asks'[h] = asks[h]
  OBVIOUS
<1>5. \A h \in Gates : (status[h] # "unused" => asks[h].thread = u) => fed'[h] = fed[h]
  OBVIOUS
<1>6. excuse'[u] = excuse[u]
  OBVIOUS
<1>7. QED
  BY <1>1, <1>2, <1>3, <1>4, <1>5, <1>6, ElsewhereStays

\* From the moment its clients overlap, a thread promises nothing.
LEMMA LostStays ==
    ASSUME Good, Good', NEW t \in Threads, ~Trusted(t), ~Trusted(t)'
    PROVE  Stays(t)
BY DEF Good, LostView, Stays

LEMMA Distrusts ==
    ASSUME Good, Good', NEW t \in Threads, Trusted(t), ~Trusted(t)',
           \A u \in Threads \ {t} : Stays(u)
    PROVE  Conv!Next
<1>1. Mode(t) # "untrusted" /\ Mode(t)' = "untrusted" /\ Question(t)' = None /\ Used(t)' = {}
  BY DEF Good, LostView
<1>2. Conv!To(t, "untrusted", None, {})
  BY <1>1, OneMoves
<1>3. Conv!Distrust(t)
  BY <1>1, <1>2 DEF Conv!Distrust
<1>4. QED
  BY <1>3 DEF Conv!Next

LEMMA InvokeConverses ==
    ASSUME Good, Good', NEW r \in Requests, NEW t \in Threads, Invoke(r, t)
    PROVE  [Conv!Next]_Conv!vars
<1>0. /\ TypeOK /\ WellFormed
      /\ Enter(r, t, None, "load") /\ UNCHANGED <<status, asks, fed, excuse>>
      /\ recommanded' = [recommanded EXCEPT ![t] = @ \/ OpenOn(t) # {}]
  BY DEF Invoke, store, Good, WellFormed
<1>1. \A u \in Threads \ {t} : Stays(u)
  <2>1. \A u \in Threads \ {t} : recommanded'[u] = recommanded[u]
    BY <1>0 DEF TypeOK
  <2>2. QED
    BY <1>0, <2>1, EntranceIsLocal
<1>2. Trusted(t)' => Trusted(t) /\ Quiescent(t) /\ OpenOn(t) = {}
  BY <1>0, EnterAlone DEF Trusted, TypeOK
<1>3. CASE Trusted(t)'
  <2>1. Mode(t) \in {"idle", "stuck"}
    BY <1>2, <1>3 DEF Good, RestView
  <2>2. Mode(t)' = "working" /\ Question(t)' = None
    BY <1>0, <1>3, EnterAlone DEF Good, WorkView, TypeOK
  <2>3. Used(t)' = Used(t)
    BY <1>0, <1>2, <1>3, UsedStays
  <2>4. Conv!To(t, "working", None, Used(t))
    BY <1>1, <2>2, <2>3, OneMoves
  <2>5. Conv!Begin(t)
    BY <2>1, <2>4 DEF Conv!Begin
  <2>6. QED
    BY <2>5 DEF Conv!Next
<1>4. CASE ~Trusted(t)' /\ Trusted(t)
  BY <1>1, <1>4, Distrusts
<1>5. CASE ~Trusted(t)' /\ ~Trusted(t)
  BY <1>1, <1>5, LostStays, AllStay
<1>6. QED
  BY <1>3, <1>4, <1>5

LEMMA ResolveCheckConverses ==
    ASSUME Good, Good', NEW r \in Requests, NEW g \in Gates, ResolveCheck(r, g)
    PROVE  [Conv!Next]_Conv!vars
<1>p. PICK t \in Threads : t = asks[g].thread
  BY DEF ResolveCheck, Resolvable, Good, WellFormed, HandlerInv, Pauses
<1>0. /\ TypeOK /\ WellFormed /\ g \in OpenOn(t)
      /\ Enter(r, t, g, "mark") /\ UNCHANGED <<status, asks, fed, excuse, recommanded>>
  BY <1>p DEF ResolveCheck, Resolvable, ThreadOf, store, OpenOn, Good, WellFormed
<1>1. \A u \in Threads \ {t} : Stays(u)
  BY <1>0, EntranceIsLocal
<1>2. Trusted(t)' => Trusted(t) /\ Quiescent(t)
  BY <1>0, EnterAlone DEF Trusted, TypeOK
<1>3. CASE Trusted(t)'
  <2>1. Mode(t) = "asking" /\ Question(t) = asks[g]
    BY <1>0, <1>2, <1>3 DEF Good, RestView, TalkInv, StuckOffersNothing
  <2>2. fed[g] = {}
    <3>1. SUFFICES ASSUME NEW f \in fed[g] PROVE FALSE
      OBVIOUS
    <3>2. f.pause.thread = t /\ asks[g] = Pause(t, graph[t])
      BY <1>0, <1>2, <1>3, <1>p
         DEF WellFormed, AnswersInv, FedIsAsked, OneCurrentQuestion
    <3>3. f.pause = Pause(t, graph[t])
      BY <1>0, <1>2, <1>3, <3>2 DEF WellFormed, AnswersInv, AnswerReachesItsQuestion
    <3>4. Before(f.pause, graph[t])
      BY <1>0, <1>2, <1>3, <3>2 DEF WellFormed, AnswersInv, FedIsPast, Asking
    <3>5. graph[t].run \in Nat /\ graph[t].at \in Int
      BY <1>0, TurnRuntimeAssumption DEF TypeOK, Checkpoint
    <3>6. QED
      BY <3>3, <3>4, <3>5 DEF Before, Pause
  <2>3. pc'[r] # "idle" /\ thr'[r] = t /\ gate'[r] = g /\ g # None
    BY <1>0, EnterAlone, TurnRuntimeAssumption DEF TypeOK
  <2>4. Mode(t)' = "working" /\ Question(t)' = asks[g]
    BY <1>0, <1>3, <2>2, <2>3 DEF Good, WorkView
  <2>5. Used(t)' = Used(t)
    BY <1>0, <1>2, <1>3, UsedStays
  <2>6. Conv!To(t, "working", Question(t), Used(t))
    BY <1>1, <2>1, <2>4, <2>5, OneMoves
  <2>7. Conv!Accept(t)
    BY <2>1, <2>6 DEF Conv!Accept
  <2>8. QED
    BY <2>7 DEF Conv!Next
<1>4. CASE ~Trusted(t)' /\ Trusted(t)
  BY <1>1, <1>4, Distrusts
<1>5. CASE ~Trusted(t)' /\ ~Trusted(t)
  BY <1>1, <1>5, LostStays, AllStay
<1>6. QED
  BY <1>3, <1>4, <1>5

\* A turn converses on its own thread only.
LEMMA TurnConversesAlone ==
    ASSUME Good, Good', NEW r \in Requests, Turn(r)
    PROVE  \A u \in Threads \ {thr[r]} : Stays(u)
<1> SUFFICES ASSUME NEW u \in Threads, u # thr[r] PROVE Stays(u)
  OBVIOUS
<1>0. WellFormed /\ TypeOK /\ HandlerInv
  BY DEF Good, WellFormed
<1>1. Trusted(u)' = Trusted(u)
  BY <1>0, TurnTouches DEF Trusted
<1>2. thr'[r] # u
  BY <1>0, TurnRuntimeAssumption DEF Turn, ResolveMark, Load, RunStart, RunResume, RunNothing, Walk,
     Fail, SyncRead, SyncClose, SyncOpen, Publish, MoveTo, Leave, Goto, TypeOK
<1>3. InFlight(u)' = InFlight(u) /\ \A q \in InFlight(u) : gate'[q] = gate[q]
  BY <1>0, <1>2, TurnTouches DEF InFlight
<1>4. excuse'[u] = excuse[u] /\ OpenOn(u)' = OpenOn(u)
  BY <1>0, TurnTouches
<1>5. \A g \in Gates : status[g] # "unused" => asks'[g] = asks[g]
  BY <1>0, TurnTouches
<1>6. \A g \in Gates : (status[g] # "unused" => asks[g].thread = u) => fed'[g] = fed[g]
  BY <1>0, TurnTouches, TurnRuntimeAssumption DEF HandlerInv
<1>7. QED
  BY <1>1, <1>3, <1>4, <1>5, <1>6, ElsewhereStays

\* ... and says nothing there on the way from one question to the next.
LEMMA QuietTurnConverses ==
    ASSUME Good, Good', NEW r \in Requests, Turn(r),
           pc'[r] # "idle", thr'[r] = thr[r], gate'[r] = gate[r], fed' = fed
    PROVE  UNCHANGED Conv!vars
<1>0. WellFormed /\ TypeOK /\ HandlerInv
  BY DEF Good, WellFormed
<1>p. PICK t \in Threads : t = thr[r] /\ pc[r] # "idle"
  BY <1>0, TurnTouches
<1>t. Trusted(t)' = Trusted(t)
  BY <1>0, TurnTouches DEF Trusted
<1>1. CASE Trusted(t)
  <2>1. gate[r] # None => asks'[gate[r]] = asks[gate[r]]
    BY <1>0, TurnTouches DEF HandlerInv, TypeOK
  <2>2. Mode(t)' = Mode(t) /\ Question(t)' = Question(t)
    <3>1. /\ Mode(t) = "working"
          /\ Question(t) = IF gate[r] # None /\ fed[gate[r]] = {} THEN asks[gate[r]] ELSE None
      BY <1>1, <1>p DEF Good, WorkView
    <3>2. /\ Mode(t)' = "working"
          /\ Question(t)' = IF gate'[r] # None /\ fed'[gate'[r]] = {} THEN asks'[gate'[r]] ELSE None
      BY <1>1, <1>p, <1>t DEF Good, WorkView
    <3>3. QED
      BY <2>1, <3>1, <3>2
  <2>3. Stays(t)
    BY <1>t, <2>2, UsedStays DEF Stays
  <2>4. QED
    BY <1>p, <2>3, TurnConversesAlone, AllStay
<1>2. CASE ~Trusted(t)
  BY <1>2, <1>p, <1>t, LostStays, TurnConversesAlone, AllStay
<1>3. QED
  BY <1>1, <1>2

\* A thread that is already lost stays lost, whatever a turn does on it.
LEMMA LostTurnConverses ==
    ASSUME Good, Good', NEW r \in Requests, Turn(r), ~Trusted(thr[r])
    PROVE  UNCHANGED Conv!vars
<1>0. WellFormed
  BY DEF Good
<1>p. PICK t \in Threads : t = thr[r]
  BY <1>0, TurnTouches
<1>t. ~Trusted(t) /\ ~Trusted(t)'
  BY <1>0, <1>p, TurnTouches DEF Trusted
<1>1. QED
  BY <1>p, <1>t, LostStays, TurnConversesAlone, AllStay

\* The answer a turn carries goes to the interrupt asked: what is used is the question.
LEMMA FedIsUsed ==
    ASSUME Good, Good', NEW r \in Requests, NEW t \in Threads, t = thr[r],
           pc[r] = "run", gate[r] # None, Feed(r, Pause(t, pos[r])),
           Trusted(t), Trusted(t)'
    PROVE  /\ Question(t) = asks[gate[r]] /\ Question(t) # None
           /\ Used(t)' = Used(t) \cup {Question(t)}
<1>0. WellFormed /\ TypeOK /\ HandlerInv /\ gate[r] \in Gates
  BY DEF Good, WellFormed, TypeOK
<1>1. /\ pos[r] = graph[t] /\ pos[r].parked /\ asks[gate[r]] = Pause(t, pos[r])
      /\ \A g \in Gates : \A f \in fed[g] : f.pause.thread = t => Before(f.pause, pos[r])
  BY <1>0, AnswerArrives
<1>2. fed[gate[r]] = {}
  <2>1. SUFFICES ASSUME NEW f \in fed[gate[r]] PROVE FALSE
    OBVIOUS
  <2>2. f.pause.thread = t
    BY <1>0 DEF WellFormed, AnswersInv, FedIsAsked, HandlerInv
  <2>3. f.pause = Pause(t, pos[r])
    BY <1>0, <1>1, <2>2 DEF WellFormed, AnswersInv, AnswerReachesItsQuestion
  <2>4. pos[r].run \in Nat /\ pos[r].at \in Int
    BY <1>0, TurnRuntimeAssumption DEF TypeOK, Checkpoint
  <2>5. QED
    BY <1>0, <1>1, <2>2, <2>3, <2>4 DEF Before, Pause
<1>3. Question(t) = asks[gate[r]]
  BY <1>2 DEF Good, WorkView
<1>4. Pause(t, pos[r]) \in Askable
  <2>1. pos[r].at \in 1 .. Last /\ HasWork(pos[r])
    BY <1>0, <1>1, TurnRuntimeAssumption DEF HandlerInv, HasWork
  <2>2. pos[r].run \in 1 .. MaxRuns
    BY <1>0, <1>1, <2>1, TurnRuntimeAssumption DEF Good, TalkInv, RunsAreCounted, TypeOK, Checkpoint
  <2>3. QED
    BY <2>1, <2>2 DEF Askable, Pause
<1>5. Used(t)' = Used(t) \cup {Pause(t, pos[r])}
  <2>1. PICK now : now = [pause |-> Pause(t, pos[r]), by |-> r]
    OBVIOUS
  <2>2. /\ fed'[gate[r]] = fed[gate[r]] \cup {now}
        /\ \A g \in Gates : g # gate[r] => fed'[g] = fed[g]
    BY <1>0, <2>1 DEF Feed, TypeOK
  <2>3. now.pause = Pause(t, pos[r]) /\ now.pause.thread = t
    BY <2>1 DEF Pause
  <2>4. ASSUME NEW p
        PROVE  p \in Used(t)' <=> p \in Used(t) \/ p = Pause(t, pos[r])
    <3>1. p \in Used(t)' <=> \E g \in Gates : \E f \in fed'[g] : f.pause.thread = t /\ p = f.pause
      BY DEF Used
    <3>2. p \in Used(t) <=> \E g \in Gates : \E f \in fed[g] : f.pause.thread = t /\ p = f.pause
      BY DEF Used
    <3>3. QED
      BY <1>0, <2>2, <2>3, <3>1, <3>2
  <2>5. QED
    BY <2>4 DEF Used
<1>6. QED
  BY <1>1, <1>3, <1>4, <1>5, NoneIsNoQuestion

LEMMA RunResumeConverses ==
    ASSUME Good, Good', NEW r \in Requests, Turn(r), RunResume(r)
    PROVE  [Conv!Next]_Conv!vars
<1>0. WellFormed /\ TypeOK
  BY DEF Good, WellFormed
<1>p. PICK t \in Threads : t = thr[r]
  BY <1>0, TurnTouches
<1>t. Trusted(t)' = Trusted(t)
  BY <1>0, TurnTouches DEF Trusted
<1>1. CASE Trusted(t)
  <2>1. /\ pc[r] = "run" /\ gate[r] # None
        /\ Feed(r, Pause(t, pos[r]))
    BY <1>0, <1>1, <1>p, AnswerArrives DEF RunResume, FreshInput
  <2>2. /\ Question(t) # None /\ Used(t)' = Used(t) \cup {Question(t)}
    BY <1>1, <1>p, <1>t, <2>1, FedIsUsed
  <2>3. Mode(t) = "working"
    BY <1>1, <1>p, <2>1 DEF Good, WorkView
  <2>4. pc'[r] # "idle" /\ thr'[r] = t /\ gate'[r] = gate[r] /\ fed'[gate[r]] # {}
    BY <1>0, <1>p, <2>1 DEF RunResume, MoveTo, Goto, Feed, TypeOK
  <2>5. Mode(t)' = "working" /\ Question(t)' = None
    BY <1>1, <1>t, <2>4 DEF Good, WorkView
  <2>6. Conv!To(t, "working", None, Used(t) \cup {Question(t)})
    BY <1>p, <2>2, <2>5, TurnConversesAlone, OneMoves
  <2>7. Conv!Use(t)
    BY <2>2, <2>3, <2>6 DEF Conv!Use
  <2>8. QED
    BY <2>7 DEF Conv!Next
<1>2. CASE ~Trusted(t)
  BY <1>2, <1>p, LostTurnConverses
<1>3. QED
  BY <1>1, <1>2

LEMMA FailConverses ==
    ASSUME Good, Good', NEW r \in Requests, Turn(r), Fail(r)
    PROVE  [Conv!Next]_Conv!vars
<1>0. WellFormed /\ TypeOK
  BY DEF Good, WellFormed
<1>p. PICK t \in Threads : t = thr[r] /\ pc[r] # "idle"
  BY <1>0, TurnTouches
<1>t. Trusted(t)' = Trusted(t)
  BY <1>0, TurnTouches DEF Trusted
<1>1. CASE Trusted(t)
  <2>1. Mode(t) = "working"
    BY <1>1, <1>p DEF Good, WorkView
  <2>2. Used(t)' \in {Used(t), Used(t) \cup ({Question(t)} \ {None})}
    <3>1. CASE fed' = fed
      BY <1>t, <3>1, UsedStays
    <3>2. CASE pc[r] = "run" /\ gate[r] # None /\ Feed(r, Pause(t, pos[r]))
      BY <1>1, <1>p, <1>t, <3>2, FedIsUsed
    <3>3. QED
      BY <1>p, <3>1, <3>2 DEF Fail, FreshInput
  <2>3. Quiescent(t)' /\ excuse'[t] = "failed"
    BY <1>0, <1>1, <1>p, WorksAlone, TurnRuntimeAssumption
       DEF Fail, Leave, Goto, Quiescent, InFlight, Trusted, TypeOK
  <2>4. Mode(t)' = "stuck" /\ Question(t)' = None
    BY <1>1, <1>t, <2>3 DEF Good, RestView
  <2>5. \/ Conv!To(t, "stuck", None, Used(t))
        \/ Conv!To(t, "stuck", None, Used(t) \cup ({Question(t)} \ {None}))
    BY <1>p, <2>2, <2>4, TurnConversesAlone, OneMoves
  <2>6. Conv!Break(t)
    BY <2>1, <2>5 DEF Conv!Break
  <2>7. QED
    BY <2>6 DEF Conv!Next
<1>2. CASE ~Trusted(t)
  BY <1>2, <1>p, LostTurnConverses
<1>3. QED
  BY <1>1, <1>2

\* The end of a turn: the thread asks, or has finished, or was interrupted before.
LEMMA PublishConverses ==
    ASSUME Good, Good', NEW r \in Requests, Turn(r), Publish(r)
    PROVE  [Conv!Next]_Conv!vars
<1>0. WellFormed /\ TypeOK /\ HandlerInv
  BY DEF Good, WellFormed
<1>p. PICK t \in Threads : t = thr[r] /\ pc[r] = "publish"
  BY <1>0, TurnTouches DEF Publish
<1>t. Trusted(t)' = Trusted(t)
  BY <1>0, TurnTouches DEF Trusted
<1>1. CASE Trusted(t)
  <2>1. Mode(t) = "working" /\ Question(t) = None
    BY <1>1, <1>p DEF Good, WorkView, TalkInv, CarriedIsUsed
  <2>2. Used(t)' = Used(t)
    BY <1>t, UsedStays DEF Publish, history
  <2>3. Quiescent(t)'
    BY <1>0, <1>1, <1>p, WorksAlone, TurnRuntimeAssumption
       DEF Publish, Leave, Goto, Quiescent, InFlight, Trusted, TypeOK
  <2>4. CASE Mode(t)' = "stuck" /\ Question(t)' = None
    <3>1. Conv!To(t, "stuck", None, Used(t))
      BY <1>p, <2>2, <2>4, TurnConversesAlone, OneMoves
    <3>2. Conv!Break(t)
      BY <2>1, <3>1 DEF Conv!Break
    <3>3. QED
      BY <3>2 DEF Conv!Next
  <2>5. CASE Mode(t)' = "idle" /\ Question(t)' = None
    <3>1. Conv!To(t, "idle", None, Used(t))
      BY <1>p, <2>2, <2>5, TurnConversesAlone, OneMoves
    <3>2. Conv!Finish(t)
      BY <2>1, <3>1 DEF Conv!Finish
    <3>3. QED
      BY <3>2 DEF Conv!Next
  <2>6. CASE /\ OpenOn(t)' # {} /\ Mode(t)' = "asking"
             /\ \A g \in OpenOn(t)' : Question(t)' = asks'[g]
    <3>1. PICK g \in OpenOn(t) : Question(t)' = asks[g]
      BY <2>6 DEF Publish, store, OpenOn
    <3>2. graph[t].parked /\ asks[g] = Pause(t, graph[t])
      BY <1>0, <1>1 DEF WellFormed, AnswersInv, OneCurrentQuestion
    <3>3. Pause(t, graph[t]) \in Askable
      <4>1. graph[t].at \in 1 .. Last /\ HasWork(graph[t])
        BY <1>0, <3>2, TurnRuntimeAssumption DEF HandlerInv, HasWork
      <4>2. graph[t].run \in 1 .. MaxRuns
        BY <1>0, <1>1, <4>1, TurnRuntimeAssumption
           DEF Good, TalkInv, RunsAreCounted, TypeOK, Checkpoint
      <4>3. QED
        BY <4>1, <4>2 DEF Askable, Pause
    <3>4. Pause(t, graph[t]) \notin Used(t)
      <4>1. SUFFICES ASSUME NEW h \in Gates, NEW f \in fed[h], f.pause = Pause(t, graph[t])
                     PROVE  FALSE
        BY <1>1 DEF Used
      <4>2. f.pause.thread = t /\ Asking(t)
        BY <3>1, <4>1 DEF Pause, Asking
      <4>3. Before(f.pause, graph[t])
        BY <1>0, <1>1, <4>2 DEF WellFormed, AnswersInv, FedIsPast
      <4>4. graph[t].run \in Nat /\ graph[t].at \in Int
        BY <1>0, TurnRuntimeAssumption DEF TypeOK, Checkpoint
      <4>5. QED
        BY <4>1, <4>3, <4>4 DEF Before, Pause
    <3>5. Conv!To(t, "asking", asks[g], Used(t))
      BY <1>p, <2>2, <2>6, <3>1, TurnConversesAlone, OneMoves
    <3>6. Conv!Ask(t)
      BY <2>1, <3>2, <3>3, <3>4, <3>5 DEF Conv!Ask
    <3>7. QED
      BY <3>6 DEF Conv!Next
  <2>7. QED
    BY <1>1, <1>t, <2>3, <2>4, <2>5, <2>6 DEF Good, RestView
<1>2. CASE ~Trusted(t)
  BY <1>2, <1>p, LostTurnConverses
<1>3. QED
  BY <1>1, <1>2

LEMMA RestartConverses ==
    ASSUME Good, Good', Restart
    PROVE  Conv!Next
<1>1. \A t \in Threads : Trusted(t)' = Trusted(t) /\ Used(t)' = Used(t)
  BY DEF Restart, Trusted, Used
<1>2. \A t \in Threads : Quiescent(t)' /\ excuse'[t] = "restarted"
  BY DEF Restart, Quiescent, InFlight
<1>3. \A t \in Threads :
         /\ Mode(t)' = IF Mode(t) = "untrusted" THEN "untrusted" ELSE "stuck"
         /\ Question(t)' = None
  BY <1>1, <1>2 DEF Good, RestView, LostView
<1>4. Conv!Crash
  BY <1>1, <1>3 DEF Conv!Crash
<1>5. QED
  BY <1>4 DEF Conv!Next

LEMMA NextConverses == Good /\ Good' /\ [Next]_vars => [Conv!Next]_Conv!vars
<1> SUFFICES ASSUME Good, Good', [Next]_vars
             PROVE  [Conv!Next]_Conv!vars
  OBVIOUS
<1>1. ASSUME NEW r \in Requests, NEW t \in Threads, Invoke(r, t)
      PROVE  [Conv!Next]_Conv!vars
  BY <1>1, InvokeConverses
<1>2. ASSUME NEW r \in Requests, NEW g \in Gates, ResolveCheck(r, g)
      PROVE  [Conv!Next]_Conv!vars
  BY <1>2, ResolveCheckConverses
<1>3. ASSUME NEW r \in Requests, Turn(r)
      PROVE  [Conv!Next]_Conv!vars
  <2>0. TypeOK
    BY DEF Good, WellFormed
  <2>1. CASE \/ ResolveMark(r) \/ Load(r) \/ RunStart(r) \/ RunNothing(r) \/ Walk(r)
             \/ SyncRead(r) \/ SyncClose(r) \/ SyncOpen(r)
    <3>1. pc'[r] # "idle" /\ thr'[r] = thr[r] /\ gate'[r] = gate[r] /\ fed' = fed
      BY <2>0, <2>1 DEF ResolveMark, Load, RunStart, RunNothing, Walk, SyncRead, SyncClose,
         SyncOpen, MoveTo, Goto, history, TypeOK
    <3>2. QED
      BY <1>3, <3>1, QuietTurnConverses
  <2>2. CASE RunResume(r)
    BY <1>3, <2>2, RunResumeConverses
  <2>3. CASE Fail(r)
    BY <1>3, <2>3, FailConverses
  <2>4. CASE Publish(r)
    BY <1>3, <2>4, PublishConverses
  <2>5. QED
    BY <1>3, <2>1, <2>2, <2>3, <2>4 DEF Turn
<1>4. CASE Restart
  BY <1>4, RestartConverses
<1>5. CASE UNCHANGED vars
  <2>1. \A t \in Threads : Stays(t)
    BY <1>5 DEF vars, store, handlers, history, Stays, Mode, Question, Pending, Carried, Used,
       Trusted, Quiescent, InFlight, OpenOn
  <2>2. QED
    BY <2>1, AllStay
<1>6. QED
  BY <1>1, <1>2, <1>3, <1>4, <1>5 DEF Next

LEMMA InitConverses == Init => Conv!Init
BY TurnRuntimeAssumption DEF Init, Conv!Init, Mode, Question, Pending, Used, Trusted, Quiescent,
   InFlight, OpenOn

\* The safety of ImplementsConversation: what graph_runner.py, the gate store and the
\* routes do to a thread is, step by step, what Conversation promises of it.
THEOREM EngineConverses == Spec => Conv!Init /\ [][Conv!Next]_(Conv!vars)
BY InitConverses, NextConverses, ConversationsLookSo, PTL DEF Spec

=============================================================================

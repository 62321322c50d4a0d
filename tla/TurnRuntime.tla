---------------------------- MODULE TurnRuntime ----------------------------
(***************************************************************************)
(* The engine's turn runtime: POST /v1/commands and                        *)
(* POST /v1/approval-gates/{id}/resolve, the GraphRunner that drives the   *)
(* checkpointed LangGraph thread to its next interrupt, and the gate store *)
(* that surfaces the interrupt to a human.                                 *)
(*                                                                         *)
(* FastAPI runs every synchronous handler in a thread pool, so each        *)
(* handler is a process here, and the shared state (checkpoint, gate       *)
(* store) is read and written at the points where the code does it.        *)
(*                                                                         *)
(* A thread's graph is abstracted to the sequence of its interrupts: a     *)
(* run (one fresh command) walks interrupts 1..Last and may end early.     *)
(* LangGraph itself is external.  Dispatch is the default, inline one.     *)
(***************************************************************************)
EXTENDS Integers, FiniteSets

CONSTANTS
    Threads,      \* thread ids, "org:project:session"
    Requests,     \* handler slots of the API's thread pool
    Gates,        \* gate ids (uuid4 values) the engine can draw
    None,         \* no gate: the turn of a command; no thread; no interrupt
    Last,         \* the most interrupts one run meets
    MaxRuns,      \* bound: commands are sent while a thread has run fewer
    MaxRestarts,  \* bound on engine restarts
    Durable       \* TRUE: PostgresSaver checkpoints, FALSE: MemorySaver

ASSUME TurnRuntimeAssumption ==
    /\ None \notin Gates \cup Threads
    /\ Last \in Nat \ {0}
    /\ MaxRuns \in Nat
    /\ MaxRestarts \in Nat
    /\ Durable \in BOOLEAN

VARIABLES
    graph,       \* per thread, its latest checkpoint
    status,      \* per gate id, its record's status in the gate store
    asks,        \* per gate id, the interrupt its record was opened for
    pc,          \* per handler, the next step
    thr,         \* per handler, the thread of its request
    gate,        \* per handler, the gate it resolves, or None
    pos,         \* per handler, the checkpoint its turn works from
    frame,       \* per thread, the last frame published on its channel
    restarts,    \* restarts so far
    fed,         \* history: per gate, the interrupts given its answer
    excuse,      \* history: how the last turn of a thread came to grief
    overlapped,  \* history: two requests were in flight on the thread
    recommanded  \* history: a command came while a question was open

store    == <<status, asks>>
handlers == <<pc, thr, gate, pos>>
history  == <<fed, excuse, overlapped, recommanded>>
vars     == <<graph, store, handlers, frame, restarts, history>>

-----------------------------------------------------------------------------
\* A checkpoint: the run it belongs to, the interrupt the run meets next, and
\* whether the run is parked on that interrupt.  at = Last + 1: no work left.
Checkpoint == [run: Nat, at: 1 .. Last + 1, parked: BOOLEAN]

\* An interrupt is identified by its thread, run and position.
Pause(t, c) == [thread |-> t, run |-> c.run, at |-> c.at]
Pauses      == [thread: Threads, run: Nat, at: 1 .. Last + 1]

Steps == {"idle", "mark", "load", "run", "walk", "sync", "write", "publish"}

InFlight(t)  == {r \in Requests : pc[r] # "idle" /\ thr[r] = t}
Quiescent(t) == InFlight(t) = {}
OpenOn(t)    == {g \in Gates : status[g] = "open" /\ asks[g].thread = t}
Unused       == {g \in Gates : status[g] = "unused"}

\* Bound: a turn begins only while there is a gate id left for every handler.
IdLeft == Cardinality(Unused) > Cardinality({r \in Requests : pc[r] # "idle"})

\* A thread whose last run left nothing to do, and one that never ran.
Ended(run) == [run |-> run, at |-> Last + 1, parked |-> FALSE]
Nowhere    == Ended(0)

Goto(r, step) == pc' = [pc EXCEPT ![r] = step]

\* The handler returns or raises; its locals are gone.
Leave(r) ==
    /\ Goto(r, "idle")
    /\ thr'  = [thr EXCEPT ![r] = None]
    /\ gate' = [gate EXCEPT ![r] = None]
    /\ pos'  = [pos EXCEPT ![r] = Nowhere]

-----------------------------------------------------------------------------
Init ==
    /\ graph  = [t \in Threads |-> Nowhere]
    /\ status = [g \in Gates |-> "unused"]
    /\ asks   = [g \in Gates |-> None]
    /\ pc   = [r \in Requests |-> "idle"]
    /\ thr  = [r \in Requests |-> None]
    /\ gate = [r \in Requests |-> None]
    /\ pos  = [r \in Requests |-> Nowhere]
    /\ frame = [t \in Threads |-> "none"]
    /\ restarts = 0
    /\ fed    = [g \in Gates |-> {}]
    /\ excuse = [t \in Threads |-> "none"]
    /\ overlapped  = [t \in Threads |-> FALSE]
    /\ recommanded = [t \in Threads |-> FALSE]

\* A request enters on a thread: note whether another one is already there.
Enter(r, t, g, step) ==
    /\ pc[r] = "idle"
    /\ IdLeft
    /\ Goto(r, step)
    /\ thr'  = [thr EXCEPT ![r] = t]
    /\ gate' = [gate EXCEPT ![r] = g]
    /\ overlapped' = [overlapped EXCEPT ![t] = @ \/ ~Quiescent(t)]

\* POST /v1/commands: the session id comes from the client, so the thread may
\* be a new one or one that ran before, whatever state it is in.
Invoke(r, t) ==
    /\ graph[t].run < MaxRuns
    /\ Enter(r, t, None, "load")
    /\ recommanded' = [recommanded EXCEPT ![t] = @ \/ OpenOn(t) # {}]
    /\ UNCHANGED <<graph, store, pos, frame, restarts, fed, excuse>>

\* resolve(), first half: look the record up and refuse (404, 409) unless it
\* is there and open.  The verdict travels with the handler.
Resolvable_Superseded(g) == status[g] \in {"open", "superseded"}  \* mutant
Resolvable(g) == status[g] = "open"

ThreadOf(g) == asks[g].thread

ResolveCheck(r, g) ==
    /\ Resolvable(g)
    /\ Enter(r, ThreadOf(g), g, "mark")
    /\ UNCHANGED <<graph, store, pos, frame, restarts, fed, excuse, recommanded>>

\* resolve(), second half: the record is closed before the graph is resumed,
\* with no second look at its status.
Mark_Forgets(g) == status' = status  \* mutant
Mark_Answered(g) == status' = [status EXCEPT ![g] = "answered"]  \* mutant
Mark(g) == status' = [status EXCEPT ![g] = "resolved"]

ResolveMark(r) ==
    /\ pc[r] = "mark"
    /\ Mark(gate[r])
    /\ Goto(r, "load")
    /\ UNCHANGED <<graph, asks, thr, gate, pos, frame, restarts, history>>

\* graph.invoke() loads the thread's latest checkpoint.
Load(r) ==
    /\ pc[r] = "load"
    /\ pos' = [pos EXCEPT ![r] = graph[thr[r]]]
    /\ Goto(r, "run")
    /\ UNCHANGED <<graph, store, thr, gate, frame, restarts, history>>

-----------------------------------------------------------------------------
\* The turn's first checkpoint.  Later interrupts are met in Walk.
MoveTo(r, c, step) ==
    /\ graph' = [graph EXCEPT ![thr[r]] = c]
    /\ pos'   = [pos EXCEPT ![r] = c]
    /\ Goto(r, step)

Feed(r, p) == fed' = [fed EXCEPT ![gate[r]] = @ \cup {[pause |-> p, by |-> r]}]

HasWork(c) == c.at <= Last

\* start() hands the graph a fresh input, resume() a Command(resume=v).
FreshInput_Always(r) == TRUE  \* mutant
FreshInput(r) == gate[r] = None

\* A fresh input starts a new run from the graph's START.
NextRun(t) == graph[t].run + 1

RunStart(r) ==
    /\ pc[r] = "run" /\ FreshInput(r)
    /\ MoveTo(r, [run |-> NextRun(thr[r]), at |-> 1, parked |-> FALSE], "walk")
    /\ UNCHANGED <<store, thr, gate, frame, restarts, history>>

\* Command(resume=v): whatever interrupt the checkpoint is parked on takes v.
\* A checkpoint that is not parked but has work left (a turn that failed, or
\* another request's turn in progress) goes on from its pending node, whose
\* interrupt may take v as well.
Answered(c) == [run |-> c.run, at |-> c.at + 1, parked |-> FALSE]

RunResume(r) ==
    /\ pc[r] = "run" /\ ~FreshInput(r)
    /\ HasWork(pos[r])
    /\ \/ /\ MoveTo(r, Answered(pos[r]), "walk")
          /\ Feed(r, Pause(thr[r], pos[r]))
       \/ /\ ~pos[r].parked
          /\ MoveTo(r, pos[r], "walk")
          /\ UNCHANGED fed
    /\ UNCHANGED <<store, thr, gate, frame, restarts, excuse, overlapped, recommanded>>

\* Command(resume=v) on a thread with no work left runs nothing.
RunNothing(r) ==
    /\ pc[r] = "run" /\ ~FreshInput(r)
    /\ ~HasWork(pos[r])
    /\ Goto(r, "sync")
    /\ UNCHANGED <<graph, store, thr, gate, pos, frame, restarts, history>>

\* The graph reaches its next interrupt, or its end (conditional edges skip
\* interrupts, so a run may end early).
Walk(r) ==
    /\ pc[r] = "walk"
    /\ \/ /\ HasWork(pos[r])
          /\ MoveTo(r, [pos[r] EXCEPT !.parked = TRUE], "sync")
       \/ MoveTo(r, [pos[r] EXCEPT !.at = Last + 1], "sync")
    /\ UNCHANGED <<store, thr, gate, frame, restarts, history>>

\* What may raise: a node, and every read of the checkpoint, also the one for a
\* record that is about to be opened and the one for the summary of a thread whose
\* records are closed already.
MayRaise(r) ==
    \/ pc[r] \in {"load", "run", "walk", "sync"}
    \/ pc[r] = "write" /\ pos[r].parked
    \/ pc[r] = "publish" /\ ~pos[r].parked

\* The exception leaves the handler (HTTP 500), nothing more is reconciled, and
\* the checkpoint stays where the last good step left it.  When it is the resumed
\* node, the answer was consumed anyway.
Fail(r) ==
    /\ MayRaise(r)
    /\ IF pc[r] = "run" /\ ~FreshInput(r) /\ HasWork(pos[r])
       THEN Feed(r, Pause(thr[r], pos[r]))
       ELSE UNCHANGED fed
    /\ Leave(r)
    /\ excuse' = [excuse EXCEPT ![thr[r]] = "failed"]
    /\ UNCHANGED <<graph, store, frame, restarts, overlapped, recommanded>>

-----------------------------------------------------------------------------
\* _sync_pending: read the pending interrupt back from the checkpoint ...
SyncRead(r) ==
    /\ pc[r] = "sync"
    /\ pos' = [pos EXCEPT ![r] = graph[thr[r]]]
    /\ Goto(r, "write")
    /\ UNCHANGED <<graph, store, thr, gate, frame, restarts, history>>

\* ... none: close_open_for_thread supersedes every open record of the thread
ToClose_Nothing(t) == {}  \* mutant
ToClose(t) == OpenOn(t)

SyncClose(r) ==
    /\ pc[r] = "write"
    /\ ~pos[r].parked
    /\ status' = [g \in Gates |-> IF g \in ToClose(thr[r]) THEN "superseded" ELSE status[g]]
    /\ Goto(r, "publish")
    /\ excuse' = [excuse EXCEPT ![thr[r]] = "none"]
    /\ UNCHANGED <<graph, asks, thr, gate, pos, frame, restarts, fed, overlapped, recommanded>>

\* ... one: open a new record for it, leaving the thread's other records alone.
SyncOpen(r) ==
    /\ pc[r] = "write"
    /\ pos[r].parked
    /\ \E g \in Unused :
        /\ status' = [status EXCEPT ![g] = "open"]
        /\ asks'   = [asks EXCEPT ![g] = Pause(thr[r], pos[r])]
    /\ Goto(r, "publish")
    /\ excuse' = [excuse EXCEPT ![thr[r]] = "none"]
    /\ UNCHANGED <<graph, thr, gate, pos, frame, restarts, fed, overlapped, recommanded>>

\* The frame the WebSocket clients see, and the end of the request.
FrameFor_OpenedOnly(r) == IF pos[r].parked THEN "opened" ELSE frame[thr[r]]  \* mutant
FrameFor(r) == IF pos[r].parked THEN "opened" ELSE "completed"

Publish(r) ==
    /\ pc[r] = "publish"
    /\ frame' = [frame EXCEPT ![thr[r]] = FrameFor(r)]
    /\ Leave(r)
    /\ UNCHANGED <<graph, store, restarts, history>>

\* The engine process dies and comes back: handlers, the in-memory gate store
\* and the in-memory bus are gone; checkpoints survive only in Postgres.
Restart ==
    /\ restarts < MaxRestarts
    /\ restarts' = restarts + 1
    /\ pc'   = [r \in Requests |-> "idle"]
    /\ thr'  = [r \in Requests |-> None]
    /\ gate' = [r \in Requests |-> None]
    /\ pos'  = [r \in Requests |-> Nowhere]
    /\ status' = [g \in Gates |-> IF g \in Unused THEN "unused" ELSE "lost"]
    /\ frame'  = [t \in Threads |-> "none"]
    /\ graph'  = IF Durable THEN graph
                 ELSE [t \in Threads |-> Ended(graph[t].run)]
    /\ excuse' = [t \in Threads |-> "restarted"]
    /\ UNCHANGED <<asks, fed, overlapped, recommanded>>

-----------------------------------------------------------------------------
Turn(r) ==
    \/ ResolveMark(r) \/ Load(r)
    \/ RunStart(r) \/ RunResume(r) \/ RunNothing(r) \/ Walk(r) \/ Fail(r)
    \/ SyncRead(r) \/ SyncClose(r) \/ SyncOpen(r) \/ Publish(r)

Next ==
    \/ \E r \in Requests, t \in Threads : Invoke(r, t)
    \/ \E r \in Requests, g \in Gates : ResolveCheck(r, g)
    \/ \E r \in Requests : Turn(r)
    \/ Restart

\* The handlers are threads of a running process and are scheduled; clients
\* and crashes are not.
Spec == Init /\ [][Next]_vars /\ \A r \in Requests : WF_vars(Turn(r))

-----------------------------------------------------------------------------
(***************************************************************************)
(* Properties.  The code keeps one question per thread as long as requests *)
(* on a thread do not overlap and no command is sent over an open          *)
(* question; the invariants say exactly that this is all it takes.         *)
(***************************************************************************)
Trusted(t) == ~overlapped[t] /\ ~recommanded[t]

\* Quiescent, and its last turn neither raised nor was cut off by a restart.
Settled(t) == Quiescent(t) /\ excuse[t] = "none" /\ ~overlapped[t]

\* Every variable stays in the range the code gives it.
TypeOK ==
    /\ graph  \in [Threads -> Checkpoint]
    /\ status \in [Gates -> {"unused", "open", "resolved", "superseded", "lost"}]
    /\ asks   \in [Gates -> Pauses \cup {None}]
    /\ pc     \in [Requests -> Steps]
    /\ thr    \in [Requests -> Threads \cup {None}]
    /\ gate   \in [Requests -> Gates \cup {None}]
    /\ pos    \in [Requests -> Checkpoint]
    /\ frame  \in [Threads -> {"none", "opened", "completed"}]
    /\ restarts \in Nat
    /\ fed    \in [Gates -> SUBSET [pause : Pauses, by : Requests]]
    /\ excuse \in [Threads -> {"none", "failed", "restarted"}]
    /\ overlapped  \in [Threads -> BOOLEAN]
    /\ recommanded \in [Threads -> BOOLEAN]

\* The verdict given to a gate is consumed by the interrupt the gate was opened
\* for, never by another one of the thread (an approved PRD must not approve a
\* deploy): resolve() + GraphRunner.resume().
AnswerReachesItsQuestion ==
    \A g \in Gates : \A f \in fed[g] :
        Trusted(f.pause.thread) => f.pause = asks[g]

\* No interrupt consumes two answers, and no answer is consumed twice.
QuestionAnsweredOnce ==
    \A g, h \in Gates : \A a \in fed[g], b \in fed[h] :
        a.pause = b.pause /\ Trusted(a.pause.thread) => g = h /\ a = b

\* The gate store shows at most one open record per thread, the one of the
\* interrupt the thread is parked on, at every moment and not only at rest.
OneCurrentQuestion ==
    \A t \in Threads : Trusted(t) =>
        \A g, h \in OpenOn(t) :
            g = h /\ graph[t].parked /\ asks[g] = Pause(t, graph[t])

\* After a turn that ended normally a parked thread can be answered, and a
\* thread that is not parked offers nothing to answer (stale records included).
StoreMatchesCheckpoint ==
    \A t \in Threads : Settled(t) =>
        IF graph[t].parked
        THEN \E g \in OpenOn(t) : asks[g] = Pause(t, graph[t])
        ELSE OpenOn(t) = {}

\* ... and the last frame the WebSocket clients saw tells which of the two it is.
FrameMatchesCheckpoint ==
    \A t \in Threads : Settled(t) /\ frame[t] # "none" =>
        (frame[t] = "opened" <=> graph[t].parked)

\* A record superseded by the end of its thread's run is never taken as
\* answered afterwards, unless requests overlap (the status is checked once,
\* before the write).
SupersededIsFinal ==
    [][\A g \in Gates :
          status[g] = "superseded" /\ status'[g] = "resolved"
              => overlapped[asks[g].thread]]_vars

\* An accepted answer does not vanish: the graph consumes it, or the turn
\* visibly fails or is cut off by a restart.
AcceptedAnswerIsUsed ==
    \A g \in Gates :
        (\E r \in Requests : pc[r] = "load" /\ gate[r] = g) ~>
            \/ fed[g] # {}
            \/ asks[g] # None /\ LET t == asks[g].thread
                                  IN  excuse[t] # "none" \/ ~Trusted(t)

=============================================================================

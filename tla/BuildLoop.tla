----------------------------- MODULE BuildLoop -----------------------------
(***************************************************************************)
(* Construction's build: the wave order of the planned tasks, the TDD      *)
(* loop with the strike panel, and the seven test layers.                  *)
(*                                                                         *)
(* build_loop and test_phase are single graph nodes that pause inside.  On *)
(* every answer the node runs again from its top, on the state it started  *)
(* from, and its k-th interrupt() returns the k-th answer given to it      *)
(* (LangGraph, external).  So everything before the pause happens again,   *)
(* with whatever the test runner says this time.                           *)
(*                                                                         *)
(* The review between the two nodes is in Lifecycle; parties, which only   *)
(* write minutes, and LLM texts are left out.                              *)
(***************************************************************************)
EXTENDS Integers, Sequences, FiniteSets

CONSTANTS
    Tasks,      \* external ids
    TaskList,   \* the order in which every task list has them
    Layers,     \* the test layers
    Required,   \* the layers whose failure is put to the human
    Plans,      \* the task lists and switches the first build can start with
    LaterPlans, \* and those of the builds after it
    Choices,    \* what a human may answer to a strike panel
    None,       \* an answer that is not a number
    MaxBuilds   \* bound on build commands

MaxAttempts == 6
Strikes     == 3      \* the failed attempt that convenes the panel

\* listed, depends_on and wave (0: not annotated) are the task list; fails is
\* simulate_failures, layers is simulate_failing_layers; the runner is the
\* simulator or the subprocess one.
PlanType == [listed     : SUBSET Tasks,
             depends_on : [Tasks -> SUBSET Tasks],
             wave       : [Tasks -> Nat],
             fails      : [Tasks -> Nat],
             layers     : SUBSET Layers,
             night      : BOOLEAN,
             runner     : {"simulated", "subprocess"}]

ASSUME BuildAssumption ==
    /\ TaskList \in Seq(Tasks)
    /\ \A t \in Tasks : \E i \in 1 .. Len(TaskList) : TaskList[i] = t
    /\ \A i, j \in 1 .. Len(TaskList) : TaskList[i] = TaskList[j] => i = j
    /\ Required \subseteq Layers
    /\ Plans \cup LaterPlans \subseteq PlanType
    /\ Choices \subseteq Nat \cup {None}
    /\ MaxBuilds \in Nat

(***************************************************************************)
(* The wave order.                                                         *)
(***************************************************************************)
\* The tasks of a set, as a task list has them.
InListOrder(S) ==
    LET upto[i \in 0 .. Len(TaskList)] ==
            IF i = 0 THEN <<>>
            ELSE IF TaskList[i] \in S THEN Append(upto[i - 1], TaskList[i]) ELSE upto[i - 1]
    IN upto[Len(TaskList)]

Listed(p) == InListOrder(p.listed)

DependsOn(p, t) == InListOrder(p.depends_on[t] \cap p.listed)

Max2(m, n) == IF m > n THEN m ELSE n

\* The depth-first search `level`: frame on frame of its stack is a task with
\* the dependencies it has still to look at and the highest level among those
\* it did; seen are the tasks entered, wave_of the levels known (0: none).
Frame(p, t) == [ext |-> t, todo |-> DependsOn(p, t), top |-> 0]

\* The top frame learns the level of one more dependency.
Learn(stack, n) ==
    IF stack = <<>> THEN <<>> ELSE [stack EXCEPT ![1].top = Max2(@, n)]

Return(c, f) ==
    [c EXCEPT !.stack = Learn(Tail(c.stack), 1 + f.top), !.wave_of[f.ext] = 1 + f.top]

\* A dependency already entered and not known closes a cycle: it counts as 1.
Look(p, c, f, d) ==
    LET rest == [c.stack EXCEPT ![1].todo = Tail(f.todo)]
    IN CASE c.wave_of[d] # 0 -> [c EXCEPT !.stack = Learn(rest, c.wave_of[d])]
         [] c.wave_of[d] = 0 /\ d \in c.seen -> [c EXCEPT !.stack = Learn(rest, 1)]
         [] OTHER -> [c EXCEPT !.stack = <<Frame(p, d)>> \o rest, !.seen = @ \cup {d}]

Searches == [stack   : Seq([ext : Tasks, todo : Seq(Tasks), top : Nat]),
             seen    : SUBSET Tasks,
             wave_of : [Tasks -> Nat]]

Level(p) ==
    LET level[c \in Searches] ==
            IF c.stack = <<>> THEN c.wave_of
            ELSE LET f == Head(c.stack)
                 IN level[IF f.todo = <<>> THEN Return(c, f) ELSE Look(p, c, f, Head(f.todo))]
    IN level

\* One search per listed task that has no level yet, each with a fresh seen set.
WaveOf(p) ==
    LET list == Listed(p)
        upto[i \in 0 .. Len(list)] ==
            IF i = 0 THEN [t \in Tasks |-> 0]
            ELSE IF upto[i - 1][list[i]] # 0 THEN upto[i - 1]
            ELSE Level(p)[[stack |-> <<Frame(p, list[i])>>, seen |-> {list[i]},
                           wave_of |-> upto[i - 1]]]
    IN upto[Len(list)]

\* Plan has a search of its own: the same one, for it declares no dependency
\* on a task it did not create.
planned_waves(p) == WaveOf(p)

\* Plan annotates the tasks it created with their waves.
build_tree(p) == [p EXCEPT !.wave = planned_waves(p)]

compute_waves_AnyAnnotated(p) == IF \E t \in p.listed : p.wave[t] # 0 THEN p.wave ELSE WaveOf(p)  \* mutant

\* An annotation counts only when every task has one.
compute_waves(p) == IF \A t \in p.listed : p.wave[t] # 0 THEN p.wave ELSE WaveOf(p)

InWaves_ButLast(p) == [wave \in [Tasks -> Nat] |->  \* mutant: range(1, max_wave)
    LET last == CHOOSE n \in {0} \cup {wave[t] : t \in p.listed} :
                    \A t \in p.listed : wave[t] <= n
        upto[n \in 0 .. last] ==
            IF n = 0 \/ n = last THEN IF n = 0 THEN <<>> ELSE upto[n - 1]
            ELSE upto[n - 1] \o InListOrder({t \in p.listed : wave[t] = n})
    IN upto[last]]

\* The tasks in the order in which the loop walks them: wave by wave, each
\* wave in list order.
InWaves(p) == [wave \in [Tasks -> Nat] |->
    LET last == CHOOSE n \in {0} \cup {wave[t] : t \in p.listed} :
                    \A t \in p.listed : wave[t] <= n
        upto[n \in 0 .. last] ==
            IF n = 0 THEN <<>>
            ELSE upto[n - 1] \o InListOrder({t \in p.listed : wave[t] = n})
    IN upto[last]]

Order(p) == InWaves(p)[compute_waves(p)]

(***************************************************************************)
(* The state: kept is the meta graph's checkpoint, state the subgraph's,   *)
(* which reaches kept when the subgraph ends; answers are those given to   *)
(* the current node; walk is what the running node holds in locals.        *)
(***************************************************************************)
VARIABLES plan, at, turn, kept, state, question, answers, walk, builds

vars == <<plan, at, turn, kept, state, question, answers, walk, builds>>

Nothing == [test_loop |-> [t \in Tasks |-> 0], strike_history |-> <<>>,
            build_log |-> <<>>, tests |-> {}]

NoQuestion   == [mode |-> "none", task |-> None, layers |-> {}]
AskPanel(t)  == [mode |-> "strike_panel", task |-> t, layers |-> {}]
AskTests(ls) == [mode |-> "test_failures", task |-> None, layers |-> ls]

\* The loop turns to the i-th task of the order, or is through.
TaskAt(w, i) ==
    IF i > Len(w.order) THEN [w EXCEPT !.i = i, !.step = "done"]
    ELSE [w EXCEPT !.i = i, !.step = "green", !.attempt = 0, !.struck = FALSE,
                   !.fail_until = plan.fails[w.order[i]]]

\* The top of build_loop: the lists are copies of the state's.
FromTheTop(s) ==
    TaskAt([step |-> "done", order |-> Order(plan), i |-> 0, attempt |-> 0, fail_until |-> 0,
            struck |-> FALSE, taken |-> 0, test_loop |-> s.test_loop,
            strike_history |-> s.strike_history, build_log |-> s.build_log], 1)

NoWalk == [step |-> "done", order |-> <<>>, i |-> 0, attempt |-> 0, fail_until |-> 0,
           struck |-> FALSE, taken |-> 0, test_loop |-> Nothing.test_loop,
           strike_history |-> <<>>, build_log |-> <<>>]

Task == walk.order[walk.i]

Init ==
    /\ plan \in Plans
    /\ at = "end" /\ turn = "idle"
    /\ kept = Nothing /\ state = Nothing
    /\ question = NoQuestion /\ answers = <<>>
    /\ walk = NoWalk
    /\ builds = 0

\* A build command, on a thread whose last turn is over.  It replaces a parked
\* or failed build, which never reached the meta graph's checkpoint.
Command ==
    /\ turn # "running"
    /\ builds < MaxBuilds
    /\ plan' \in IF builds = 0 THEN {plan} ELSE LaterPlans
    /\ at' = "preflight" /\ turn' = "running"
    /\ state' = kept
    /\ question' = NoQuestion /\ answers' = <<>>
    /\ walk' = NoWalk
    /\ builds' = builds + 1
    /\ UNCHANGED kept

InNode(n) == turn = "running" /\ at = n

Preflight_Keeps ==  \* mutant: the bookkeeping is not seeded
    /\ InNode("preflight")
    /\ at' = "build_loop"
    /\ walk' = FromTheTop(state)
    /\ UNCHANGED <<plan, turn, kept, state, question, answers, builds>>

Preflight ==
    /\ InNode("preflight")
    /\ at' = "build_loop"
    /\ state' = [Nothing EXCEPT !.tests = state.tests]
    /\ walk' = FromTheTop(state')
    /\ UNCHANGED <<plan, turn, kept, question, answers, builds>>

Verdicts_Impure(attempt, fail_until) == BOOLEAN  \* mutant

\* What a runner may say: the simulator fails the first fail_until attempts, a
\* real suite passes or fails, whatever it did the last time.
Verdicts(attempt, fail_until) ==
    IF plan.runner = "simulated" THEN {attempt >= fail_until} ELSE BOOLEAN

Missed_Uncounted(w) ==  \* mutant
    [w EXCEPT !.step = IF w.attempt + 1 >= Strikes /\ ~w.struck THEN "panel" ELSE "green"]

\* A failed attempt; the third convenes the panel, once per task.
Missed(w) ==
    LET n == w.attempt + 1
    IN [w EXCEPT !.attempt = n,
                 !.test_loop[Task] = n,
                 !.step = IF n >= Strikes /\ ~w.struck THEN "panel" ELSE "green"]

RunUnit ==
    /\ InNode("build_loop")
    /\ walk.step = "green" /\ walk.attempt < MaxAttempts
    /\ \E passed \in Verdicts(walk.attempt, walk.fail_until) :
           walk' = IF passed THEN [walk EXCEPT !.step = "refactor"] ELSE Missed(walk)
    /\ UNCHANGED <<plan, at, turn, kept, state, question, answers, builds>>

\* The safety cap ends the attempts, passed or not.
GiveUp ==
    /\ InNode("build_loop")
    /\ walk.step = "green" /\ walk.attempt = MaxAttempts
    /\ walk' = [walk EXCEPT !.step = "refactor"]
    /\ UNCHANGED <<plan, at, turn, kept, state, question, answers, builds>>

ChoiceOf_Raw(c) == c  \* mutant

ChoiceOf(c) == IF c \in Nat THEN c ELSE 0

\* The panel's record; asked is what the human saw who made the choice.
Struck(w, choice, auto, asked) ==
    [w EXCEPT !.step = "green", !.struck = TRUE, !.fail_until = 0,
              !.test_loop[Task] = 0,
              !.strike_history = Append(@, [task_id |-> Task, choice |-> choice,
                                            auto |-> auto, asked |-> asked])]

AutoPick ==
    /\ InNode("build_loop")
    /\ walk.step = "panel" /\ plan.night
    /\ walk' = Struck(walk, 0, TRUE, NoQuestion)
    /\ UNCHANGED <<plan, at, turn, kept, state, question, answers, builds>>

\* interrupt() finds an answer of an earlier turn ...
TakeAnswer ==
    /\ InNode("build_loop")
    /\ walk.step = "panel" /\ ~plan.night
    /\ walk.taken < Len(answers)
    /\ LET given == answers[walk.taken + 1]
       IN walk' = [Struck(walk, ChoiceOf(given.choice), FALSE, given.question)
                      EXCEPT !.taken = walk.taken + 1]
    /\ UNCHANGED <<plan, at, turn, kept, state, question, answers, builds>>

\* ... or ends the turn, and the locals are gone.
PanelAsks ==
    /\ InNode("build_loop")
    /\ walk.step = "panel" /\ ~plan.night
    /\ walk.taken = Len(answers)
    /\ question' = AskPanel(Task)
    /\ turn' = "parked"
    /\ walk' = NoWalk
    /\ UNCHANGED <<plan, at, kept, state, answers, builds>>

\* The full unit layer once more; the task is recorded as done either way.
Refactor ==
    /\ InNode("build_loop")
    /\ walk.step = "refactor"
    /\ \E passed \in Verdicts(walk.attempt, 0) :
           walk' = TaskAt([walk EXCEPT !.build_log =
                               Append(@, [task_id |-> Task, attempts |-> walk.attempt,
                                          struck |-> walk.struck, passed |-> passed])],
                          walk.i + 1)
    /\ UNCHANGED <<plan, at, turn, kept, state, question, answers, builds>>

\* build_loop returns its patch.
Built ==
    /\ InNode("build_loop")
    /\ walk.step = "done"
    /\ state' = [state EXCEPT !.test_loop = walk.test_loop,
                              !.strike_history = walk.strike_history,
                              !.build_log = walk.build_log]
    /\ at' = "test_phase"
    /\ question' = NoQuestion /\ answers' = <<>>
    /\ walk' = [NoWalk EXCEPT !.order = walk.order]
    /\ UNCHANGED <<plan, turn, kept, builds>>

\* Every layer is run again on every entry.
Failing == IF plan.runner = "simulated" THEN {plan.layers} ELSE SUBSET Layers

AsksAbout_AtNight(failed) == failed \cap Required # {}  \* mutant
AsksAbout_Never(failed)   == FALSE                     \* mutant

AsksAbout(failed) == failed \cap Required # {} /\ ~plan.night

TestPhase ==
    /\ InNode("test_phase")
    /\ \E failed \in Failing :
           IF AsksAbout(failed) /\ answers = <<>>
           THEN /\ question' = AskTests(failed \cap Required)
                /\ turn' = "parked"
                /\ UNCHANGED <<at, state>>
           ELSE /\ state' = [state EXCEPT !.tests = failed]
                /\ at' = "wrap_up"
                /\ UNCHANGED <<turn, question>>
    /\ UNCHANGED <<plan, kept, answers, walk, builds>>

WrapUp ==
    /\ InNode("wrap_up")
    /\ at' = "end" /\ turn' = "done"
    /\ kept' = state
    /\ UNCHANGED <<plan, state, question, answers, walk, builds>>

Answer_Forgets(c) ==  \* mutant: only the last answer is kept
    /\ turn = "parked"
    /\ turn' = "running"
    /\ answers' = <<[question |-> question, choice |-> c]>>
    /\ walk' = IF at = "build_loop" THEN FromTheTop(state) ELSE walk
    /\ UNCHANGED <<plan, at, kept, state, question, builds>>

\* The human answers the question the thread is parked on; the node starts
\* over with one answer more.
Answer(c) ==
    /\ turn = "parked"
    /\ turn' = "running"
    /\ answers' = Append(answers, [question |-> question, choice |-> c])
    /\ walk' = IF at = "build_loop" THEN FromTheTop(state) ELSE walk
    /\ UNCHANGED <<plan, at, kept, state, question, builds>>

\* Any exception in a node: a provider, a store, the instrumentation.
Fail ==
    /\ turn = "running"
    /\ turn' = "failed"
    /\ walk' = IF at = "build_loop" THEN NoWalk ELSE walk
    /\ UNCHANGED <<plan, at, kept, state, question, answers, builds>>

Node == Preflight \/ RunUnit \/ GiveUp \/ AutoPick \/ TakeAnswer \/ PanelAsks
        \/ Refactor \/ Built \/ TestPhase \/ WrapUp

Next == Command \/ Node \/ Fail \/ \E c \in Choices : Answer(c)

\* A turn that runs goes on; nobody has to send a command or an answer.
Spec == Init /\ [][Next]_vars /\ WF_vars(Node)

(***************************************************************************)
(* Properties.                                                             *)
(***************************************************************************)
QuestionType == [mode : {"none", "strike_panel", "test_failures"},
                 task : Tasks \cup {None}, layers : SUBSET Required]
StrikeType   == [task_id : Tasks, choice : Nat, auto : BOOLEAN, asked : QuestionType]
RecordType   == [task_id : Tasks, attempts : 0 .. MaxAttempts, struck : BOOLEAN,
                 passed : BOOLEAN]
CountersType == [Tasks -> 0 .. MaxAttempts]
StateType    == [test_loop : CountersType, strike_history : Seq(StrikeType),
                 build_log : Seq(RecordType), tests : SUBSET Layers]

\* Types; a counter never passes the cap, and a green step has an open task.
TypeOK ==
    /\ plan \in PlanType
    /\ at \in {"preflight", "build_loop", "test_phase", "wrap_up", "end"}
    /\ turn \in {"idle", "running", "parked", "failed", "done"}
    /\ kept \in StateType /\ state \in StateType
    /\ question \in QuestionType
    /\ answers \in Seq([question : QuestionType, choice : Choices])
    /\ walk \in [step : {"green", "panel", "refactor", "done"}, order : Seq(Tasks), i : Nat,
                 attempt : 0 .. MaxAttempts, fail_until : Nat, struck : BOOLEAN, taken : Nat,
                 test_loop : CountersType, strike_history : Seq(StrikeType),
                 build_log : Seq(RecordType)]
    /\ walk.step # "done" => walk.i \in 1 .. Len(walk.order)
    /\ walk.taken <= Len(answers)
    /\ builds \in 0 .. MaxBuilds

\* No task waits for itself: every set of listed tasks has one that needs
\* no other of the set.
Acyclic(p) ==
    \A S \in SUBSET p.listed \ {{}} : \E t \in S : p.depends_on[t] \cap S = {}

Simulated == plan.runner = "simulated"

Looping == at = "build_loop" /\ turn = "running"

\* compute_waves loses no task and repeats none, with cycles too.
EveryTaskOnce ==
    Looping => /\ \A i, j \in 1 .. Len(walk.order) : walk.order[i] = walk.order[j] => i = j
               /\ {walk.order[i] : i \in 1 .. Len(walk.order)} = plan.listed

\* A task is built after every listed task it depends on, whether Plan
\* annotated the waves, a client seeded some of them, or preflight computes them.
DependenciesFirst ==
    Looping /\ Acyclic(plan) =>
        \A i \in 1 .. Len(walk.order) :
            plan.depends_on[walk.order[i]] \cap plan.listed
                \subseteq {walk.order[j] : j \in 1 .. i - 1}

\* The annotations of a plan that has all of them let a task wait for its
\* dependencies, as those Plan writes do.
AnnotationClimbs(p) ==
    (\A t \in p.listed : p.wave[t] # 0) /\ Acyclic(p) =>
        \A t \in p.listed : \A d \in p.depends_on[t] \cap p.listed : p.wave[d] < p.wave[t]

\* The waves are an order to build in: every task once, after what it depends on.
WavesAreRight == TypeOK /\ EveryTaskOnce /\ DependenciesFirst

RightPanels(strikes) ==
    \A k \in 1 .. Len(strikes) :
        ~strikes[k].auto => strikes[k].asked = AskPanel(strikes[k].task_id)

\* The choice a strike panel goes by was made by a human who saw that task's
\* panel, however often the node ran again: with the pure, simulated runner.
AnswerReachesItsPanel ==
    Simulated /\ at # "preflight" =>
        RightPanels(walk.strike_history) /\ RightPanels(state.strike_history)

\* No human is asked twice about a task in one build, and none at night.
NobodyAskedTwice ==
    /\ turn = "parked" => ~plan.night
    /\ Simulated =>
         /\ turn = "parked" => \A i \in 1 .. Len(answers) : answers[i].question # question
         /\ \A i, j \in 1 .. Len(answers) : answers[i].question = answers[j].question => i = j

\* What a build leaves behind is what one walk through the tasks would: the
\* replays on every answer, an abandoned build and an earlier one leave no trace.
\* There is a record for every task, a strike for every hard one, in the order of
\* the walk, and a count of the attempts that failed for every other.
ReplayLeavesNoTrace ==
    Simulated /\ at \in {"test_phase", "wrap_up", "end"} /\ turn # "idle" =>
        LET n == Len(walk.order)
            hard(t) == plan.fails[t] >= Strikes
            panels(i) == {j \in 1 .. i : hard(walk.order[j])}
        IN /\ state.build_log =
                [i \in 1 .. n |->
                    LET t == walk.order[i]
                    IN [task_id |-> t, struck |-> hard(t), passed |-> TRUE,
                        attempts |-> IF hard(t) THEN Strikes ELSE plan.fails[t]]]
           /\ Len(state.strike_history) = Cardinality(panels(n))
           /\ \A i \in panels(n) :
                state.strike_history[Cardinality(panels(i))].task_id = walk.order[i]
           /\ state.test_loop =
                [t \in Tasks |-> IF t \in plan.listed /\ ~hard(t) THEN plan.fails[t] ELSE 0]

\* A required layer is recorded as failed only after a human was told so.
FailuresAreAccepted ==
    Simulated /\ ~plan.night /\ at \in {"wrap_up", "end"} /\ turn # "idle" =>
        \/ state.tests \cap Required = {}
        \/ answers # <<>> /\ state.tests \cap Required \subseteq answers[1].question.layers

\* The human whom a panel or a failed layer asks decides that and nothing else, and
\* is asked once, however often the node runs again.
HumansAreHeard == AnswerReachesItsPanel /\ NobodyAskedTwice /\ FailuresAreAccepted

\* Whatever the runner says, a turn ends, with a human to ask only by day.
BuildEnds ==
    turn = "running" ~> (turn \in {"done", "failed"} \/ (turn = "parked" /\ ~plan.night))

\* A build whose questions are answered does not ask for ever.
AnsweredBuildsEnd ==
    []<>(turn # "parked") => []<>(turn \in {"idle", "done", "failed"})

\* Whatever the runner says and whenever the humans answer, a build comes to an end.
BuildsEnd == BuildEnds /\ AnsweredBuildsEnd

=============================================================================

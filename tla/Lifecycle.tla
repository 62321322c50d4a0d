----------------------------- MODULE Lifecycle -----------------------------
(***************************************************************************)
(* One conversation thread through the meta graph: what each command runs, *)
(* node by node, over the state that the checkpointer keeps from command   *)
(* to command.  Initialization, Inception, Construction, Operation, the    *)
(* autonomous night shift that drives Construction and Operation under the *)
(* Sentinel, and the utilities that deploy.                                *)
(*                                                                         *)
(* Turns do not overlap here (TurnRuntime is about that).  A command may   *)
(* come while a question is open or after a turn broke; it starts its      *)
(* graph from the beginning.  The meta graph has one node per subgraph, so *)
(* the thread gets a subgraph's state only when the subgraph has ended:    *)
(* a command that replaces an unfinished run works on what was there when  *)
(* that run began.  What the run did to the world stays.  Texts, prompts   *)
(* and artifacts are left out: a node is its effect on the state that      *)
(* routes, gates and records.                                              *)
(***************************************************************************)
EXTENDS Integers, Sequences, FiniteSets, Nothing

CONSTANTS
    Envs,        \* environment names
    Production,  \* those infer_tier puts in the production tier
    Fallback,    \* "staging", the target when no candidate is left
    Seeds,       \* what a client's seed_state may set
    MaxRuns      \* bound on commands

ASSUME LifecycleAssumption ==
    /\ Production \subseteq Envs
    /\ Fallback \in Envs \ Production
    /\ None \notin Envs
    /\ MaxRuns \in Nat
    /\ \A s \in Seeds :
          /\ s.tasks \in BOOLEAN
          /\ s.target_environment \in Envs \cup {None}
          /\ s.deploy_candidates \in Seq(Envs)

VARIABLES
    at,       \* the node the thread is at; "end": nothing left to do
    turn,     \* rest, running, waiting (on an interrupt) or broken
    run,      \* commands so far: the number of the run in progress
    route,    \* the subgraph the meta graph chose for the run
    state,    \* PDLCState as the nodes of the run see it
    kept,     \* PDLCState as the meta graph's checkpoint has it
    register, \* the deployments register
    main,     \* the merges into the default branch
    consents, \* history: what a human agreed to, and in which run
    passed,   \* history: runs whose required smoke checks passed
    cut       \* history: runs that a later command replaced

control == <<at, turn, run, route>>
world   == <<register, main>>
history == <<consents, passed, cut>>
vars    == <<control, state, kept, world, history>>

-----------------------------------------------------------------------------
Commands  == {"init", "brainstorm", "build", "ship", "night-shift"} \cup
             {"hotfix", "rollback", "override", "other"}
Utilities == {"hotfix", "rollback", "override", "other"}

PhaseFor(c) ==
    CASE c = "brainstorm" -> "Inception"
      [] c = "build"      -> "Construction"
      [] c = "ship"       -> "Operation"
      [] OTHER            -> "Initialization"

\* The edges of the subgraphs that do not depend on the state.  Where an end
\* depends on the subgraph around it, the node's own action says so.
Line ==
    [gather |-> "author", author |-> "init_gate", init_gate |-> "end",
     divergent_ideation |-> "socratic_discovery",
     socratic_discovery |-> "progressive_thinking",
     progressive_thinking |-> "adversarial_review",
     adversarial_review |-> "edge_case_analysis", ux_discovery |-> "synthesis",
     synthesis |-> "discover_gate", discover_gate |-> "define_prd",
     define_prd |-> "prd_gate", prd_gate |-> "create_design_dir",
     create_design_dir |-> "blooms_design", blooms_design |-> "generate_docs",
     generate_docs |-> "threat_model", threat_model |-> "design_laws",
     design_laws |-> "update_links", update_links |-> "design_gate",
     design_gate |-> "decompose", decompose |-> "create_tasks",
     create_tasks |-> "declare_deps", declare_deps |-> "build_tree",
     build_tree |-> "render_plan_file", render_plan_file |-> "plan_gate",
     plan_gate |-> "plan_wrap_up", plan_wrap_up |-> "end",
     build_preflight |-> "build_loop", build_loop |-> "review_party",
     review_party |-> "review_gate", review_gate |-> "test_phase",
     test_phase |-> "wrap_up",
     prepare |-> "merge_deploy_gate", merge_deploy_gate |-> "execute",
     execute |-> "security_checks", security_checks |-> "smoke_tests",
     ux_verify |-> "smoke_gate", smoke_gate |-> "retro_and_episode",
     retro_and_episode |-> "episode_gate", episode_gate |-> "metrics_and_wrapup",
     activate |-> "build_preflight"]

\* The nodes of Construction and Operation, which the night shift shares.
Autonomous ==
    {"build_preflight", "build_loop", "review_party", "review_gate", "test_phase",
     "wrap_up", "prepare", "merge_deploy_gate", "execute", "security_checks",
     "smoke_tests", "ux_verify", "smoke_gate", "retro_and_episode", "episode_gate",
     "metrics_and_wrapup"}
Nodes == DOMAIN Line \cup Autonomous \cup Utilities \cup
         {"edge_case_analysis", "preflight", "contract_party", "sentinel_after_build",
          "sentinel_after_ship", "completed", "aborted", "declined", "end"}

Fresh ==
    [utility_command |-> None, feature |-> FALSE, tasks |-> FALSE,
     target_environment |-> None, deploy_candidates |-> <<>>,
     night_shift_active |-> FALSE, last_verdict |-> "none", progress_log |-> <<>>,
     outcome |-> "none", construction_complete |-> FALSE, version |-> 0,
     deploy_target |-> None, merge_and_deploy_approved |-> FALSE, required |-> "none",
     scan |-> "none", smoke_signed_off |-> FALSE, operation_complete |-> FALSE]

Init ==
    /\ at = "end" /\ turn = "rest" /\ run = 0 /\ route = None
    /\ state = Fresh /\ kept = Fresh
    /\ register = {} /\ main = {}
    /\ consents = {} /\ passed = {} /\ cut = {}

-----------------------------------------------------------------------------
\* The meta graph's router.
Route(active, utility, phase) ==
    IF active THEN "night_shift"
    ELSE IF utility # None THEN "utility"
    ELSE CASE phase = "Inception"    -> "brainstorm"
           [] phase = "Construction" -> "build"
           [] phase = "Operation"    -> "ship"
           [] OTHER                  -> "init"

Entry(r, utility) ==
    CASE r = "night_shift" -> "preflight"
      [] r = "utility"     -> utility
      [] r = "brainstorm"  -> "divergent_ideation"
      [] r = "build"       -> "build_preflight"
      [] r = "ship"        -> "prepare"
      [] OTHER             -> "gather"

\* POST /v1/commands: _initial_state over the seed, on top of what the thread
\* has.  The feature is overwritten by every command, with nothing if none is
\* given; utility_command is written by the utilities only.
UtilityOf(c, had) == IF c \in Utilities THEN c ELSE had.utility_command

InitialState(c, named, seed, had) ==
    [had EXCEPT
        !.utility_command = UtilityOf(c, had),
        !.feature = named,
        !.night_shift_active = (c = "night-shift"),
        !.tasks = @ \/ seed.tasks,
        !.target_environment =
            IF seed.target_environment = None THEN @ ELSE seed.target_environment,
        !.deploy_candidates =
            IF seed.deploy_candidates = <<>> THEN @ ELSE seed.deploy_candidates]

Command(c, named, seed) ==
    LET s == InitialState(c, named, seed, kept)
        r == Route(s.night_shift_active, s.utility_command, PhaseFor(c))
    IN  /\ turn # "running"
        /\ run < MaxRuns
        /\ run' = run + 1
        /\ route' = r
        /\ at' = Entry(r, s.utility_command)
        /\ turn' = "running"
        /\ state' = s /\ kept' = s
        /\ cut' = IF turn = "rest" THEN cut ELSE cut \cup {run}
        /\ UNCHANGED <<world, consents, passed>>

-----------------------------------------------------------------------------
\* Node n returns, the graph goes on to the next one; at the end of the
\* subgraph the thread gets its state.
StepTo(n, next, new) ==
    /\ at = n /\ at' = next
    /\ turn' = IF next = "end" THEN "rest" ELSE "running"
    /\ state' = new
    /\ kept' = IF next = "end" THEN new ELSE kept
    /\ UNCHANGED <<run, route>>
Step(n, new) == StepTo(n, Line[n], new)

\* Gates stop for a human; ask() and the panels may.  Under night shift none
\* of them does.  The Contract Party, the double RED and the hotfix do their own.
Gates == {"init_gate", "discover_gate", "prd_gate", "design_gate", "plan_gate",
          "review_gate", "merge_deploy_gate", "smoke_gate", "episode_gate"}
Asks  == {"gather", "socratic_discovery", "ux_discovery", "blooms_design",
          "build_loop", "test_phase"}

Interrupts_Tests(n) ==                                               \* mutant
    \/ n \in (Gates \cup Asks) /\ ~state.night_shift_active
    \/ n \in {"contract_party", "test_phase"} \cup {"hotfix", "override"}
Interrupts_NoContract(n) ==                                          \* mutant
    n \in (Gates \cup Asks) /\ ~state.night_shift_active
Interrupts(n) ==
    \/ n \in (Gates \cup Asks) /\ ~state.night_shift_active
    \/ n \in {"contract_party"} \cup {"hotfix", "override"}

Interrupt ==
    /\ turn = "running"
    /\ Interrupts(at)
    /\ turn' = "waiting"
    /\ UNCHANGED <<at, run, route, state, kept, world, history>>

\* Does node n run to its end now?  If it stops for a human, with the answer;
\* a node that only may ask can also go through without.
Proceeds(n) ==
    /\ at = n
    /\ IF n \in Asks \/ ~Interrupts(n) THEN turn \in {"running", "waiting"}
                                       ELSE turn = "waiting"

\* The verdict of a gate: the human's, or the night shift's own.
Verdict(n, blocked, ok) ==
    IF Interrupts(n) THEN ok \in BOOLEAN ELSE ok = ~blocked

\* A node that changes nothing in this state but where the thread is.
Pass(n) ==
    /\ Proceeds(n)
    /\ Step(n, state)
    /\ UNCHANGED <<world, history>>

\* Initialization.
Gather   == Pass("gather")
Author   == Pass("author")
InitGate == Pass("init_gate")

\* Inception: Discover, Define, Design, Plan.  The verdicts are recorded and
\* nothing reads them.
DivergentIdeation   == Pass("divergent_ideation")
SocraticDiscovery   == Pass("socratic_discovery")
ProgressiveThinking == Pass("progressive_thinking")
AdversarialReview   == Pass("adversarial_review")

\* UX Discovery only with a visual signal.
EdgeCaseAnalysis ==
    /\ Proceeds("edge_case_analysis")
    /\ \E next \in {"ux_discovery", "synthesis"} : StepTo("edge_case_analysis", next, state)
    /\ UNCHANGED <<world, history>>

UxDiscovery     == Pass("ux_discovery")
Synthesis       == Pass("synthesis")
DiscoverGate    == Pass("discover_gate")
DefinePrd       == Pass("define_prd")
PrdGate         == Pass("prd_gate")
CreateDesignDir == Pass("create_design_dir")
BloomsDesign    == Pass("blooms_design")
GenerateDocs    == Pass("generate_docs")
ThreatModel     == Pass("threat_model")
DesignLaws      == Pass("design_laws")
UpdateLinks     == Pass("update_links")
DesignGate      == Pass("design_gate")

Decompose ==
    /\ Proceeds("decompose")
    /\ Step("decompose", [state EXCEPT !.tasks = TRUE])
    /\ UNCHANGED <<world, history>>

CreateTasks    == Pass("create_tasks")
DeclareDeps    == Pass("declare_deps")
BuildTree      == Pass("build_tree")
RenderPlanFile == Pass("render_plan_file")
PlanGate       == Pass("plan_gate")
PlanWrapUp     == Pass("plan_wrap_up")

\* Construction, on its own or in a night shift.
BuildPreflight == Pass("build_preflight")
BuildLoop      == Pass("build_loop")
ReviewParty    == Pass("review_party")
ReviewGate     == Pass("review_gate")
TestPhase      == Pass("test_phase")

\* Whatever the review and the tests said.
WrapUp ==
    /\ Proceeds("wrap_up")
    /\ StepTo("wrap_up", IF route = "night_shift" THEN "sentinel_after_build" ELSE "end",
              [state EXCEPT !.construction_complete = TRUE])
    /\ UNCHANGED <<world, history>>

-----------------------------------------------------------------------------
(* Operation.                                                              *)

\* select_deploy_targets: production environments are no candidates.
Selectable_All(envs) == DOMAIN envs                                  \* mutant
Selectable(envs) == {i \in DOMAIN envs : envs[i] \notin Production}

\* The first candidate that is left.
Foremost(envs) == {envs[i] : i \in {j \in Selectable(envs) : \A k \in Selectable(envs) : j <= k}}
Target ==
    LET chosen == Foremost(state.deploy_candidates)
    IN  IF chosen = {} THEN Fallback ELSE CHOOSE e \in chosen : TRUE

NextVersion_Same(v) == IF v = 0 THEN 1 ELSE v                        \* mutant
NextVersion(v) == v + 1

Prepare ==
    /\ Proceeds("prepare")
    /\ Step("prepare", [state EXCEPT !.version = NextVersion(@), !.deploy_target = Target])
    /\ UNCHANGED <<world, history>>

Consent(what) ==
    [run |-> run, what |-> what, version |-> state.version, env |-> state.deploy_target]

MergeDeployGate(ok) ==
    /\ Proceeds("merge_deploy_gate")
    /\ Verdict("merge_deploy_gate", FALSE, ok)
    /\ Step("merge_deploy_gate", [state EXCEPT !.merge_and_deploy_approved = ok])
    /\ consents' = IF ok /\ Interrupts("merge_deploy_gate")
                   THEN consents \cup {Consent("ship")} ELSE consents
    /\ UNCHANGED <<world, passed, cut>>

MayDeploy_Unasked == TRUE                                            \* mutant
MayDeploy == state.merge_and_deploy_approved

\* Layer two of the production ban.
Banned(env) == env \in Production /\ state.night_shift_active

Merge == [run |-> run, version |-> state.version]
Deployment(kind, version, env) ==
    [run |-> run, kind |-> kind, version |-> version, env |-> env]
Shipment == Deployment("ship", state.version, state.deploy_target)

Execute ==
    /\ Proceeds("execute")
    /\ ~(MayDeploy /\ Banned(state.deploy_target))
    /\ Step("execute", state)
    /\ IF MayDeploy
       THEN /\ main' = main \cup {Merge}
            /\ register' = register \cup {Shipment}
       ELSE UNCHANGED world
    /\ UNCHANGED history

\* The scanners may be absent, find nothing, or find something.
SecurityChecks(scan) ==
    /\ Proceeds("security_checks")
    /\ Step("security_checks", [state EXCEPT !.scan = scan])
    /\ UNCHANGED <<world, history>>

\* UX Verify only when Design left a UX review.
SmokeTests(result) ==
    /\ Proceeds("smoke_tests")
    /\ \E next \in {"ux_verify", "smoke_gate"} :
          StepTo("smoke_tests", next, [state EXCEPT !.required = result])
    /\ passed' = IF result = "pass" THEN passed \cup {run} ELSE passed
    /\ UNCHANGED <<world, consents, cut>>

UxVerify == Pass("ux_verify")

SmokeBlocked == state.required # "pass" \/ state.scan = "found"

SmokeGate(ok) ==
    /\ Proceeds("smoke_gate")
    /\ Verdict("smoke_gate", SmokeBlocked, ok)
    /\ Step("smoke_gate", [state EXCEPT !.smoke_signed_off = ok])
    /\ UNCHANGED <<world, history>>

RetroAndEpisode == Pass("retro_and_episode")
EpisodeGate     == Pass("episode_gate")

\* Reflect's last node, whatever the gates said.
MetricsAndWrapup ==
    /\ Proceeds("metrics_and_wrapup")
    /\ StepTo("metrics_and_wrapup",
              IF route = "night_shift" THEN "sentinel_after_ship" ELSE "end",
              [state EXCEPT !.operation_complete = TRUE])
    /\ UNCHANGED <<world, history>>

-----------------------------------------------------------------------------
(* The night shift.                                                        *)

Unfit ==
    \/ ~state.feature \/ ~state.tasks
    \/ state.target_environment \in Production

Preflight ==
    /\ Proceeds("preflight")
    /\ StepTo("preflight", IF Unfit THEN "aborted" ELSE "contract_party", state)
    /\ UNCHANGED <<world, history>>

ContractParty(ok) ==
    /\ Proceeds("contract_party")
    /\ Verdict("contract_party", FALSE, ok)
    /\ StepTo("contract_party", IF ok THEN "activate" ELSE "declined", state)
    /\ consents' = IF ok /\ Interrupts("contract_party")
                   THEN consents \cup {Consent("contract")} ELSE consents
    /\ UNCHANGED <<world, passed, cut>>

Activate ==
    /\ Proceeds("activate")
    /\ Step("activate", [state EXCEPT !.night_shift_active = TRUE])
    /\ UNCHANGED <<world, history>>

\* The progress markers in the synthesized state document.
Fingerprint == (IF state.construction_complete THEN {"build-done"} ELSE {}) \cup
               (IF state.operation_complete THEN {"complete"} ELSE {})

\* Only the last three firings are ever compared.
Tail3(log) == IF Len(log) <= 3 THEN log ELSE SubSeq(log, Len(log) - 2, Len(log))
Stalled(log) == Len(log) = 3 /\ log[1] = log[2] /\ log[2] = log[3]

Evaluate_NoAborts(log) ==                                            \* mutant
    IF state.operation_complete THEN "complete"
    ELSE IF Stalled(log) THEN "stagnation" ELSE "continue"
Evaluate(log) ==
    IF state.required = "fail" THEN "smoke-failed"
    ELSE IF state.operation_complete THEN "complete"
    ELSE IF Stalled(log) THEN "stagnation"
    ELSE "continue"

Aborts(verdict) == verdict \in {"smoke-failed", "stagnation"}

Sentinel(n, next) ==
    LET log     == Tail3(Append(state.progress_log, Fingerprint))
        verdict == Evaluate(log)
    IN  /\ Proceeds(n)
        /\ StepTo(n, IF Aborts(verdict) THEN "aborted" ELSE next,
                  [state EXCEPT !.progress_log = log, !.last_verdict = verdict])
        /\ UNCHANGED <<world, history>>

SentinelAfterBuild == Sentinel("sentinel_after_build", "prepare")
SentinelAfterShip  == Sentinel("sentinel_after_ship", "completed")

Outcome(n) ==
    /\ n \in {"completed", "aborted", "declined"}
    /\ Proceeds(n)
    /\ StepTo(n, "end", [state EXCEPT !.outcome = n, !.night_shift_active = FALSE])
    /\ UNCHANGED <<world, history>>

-----------------------------------------------------------------------------
(* The utilities that touch deployments, and all the others.               *)

HotfixEnv_Raw == state.deploy_target                                 \* mutant
HotfixEnv == IF state.deploy_target = None THEN Fallback ELSE state.deploy_target
Hotfixed  == Deployment("hotfix", state.version, HotfixEnv)

Hotfix(ok) ==
    /\ Proceeds("hotfix")
    /\ Verdict("hotfix", FALSE, ok)
    /\ ~(ok /\ Banned(HotfixEnv))
    /\ StepTo("hotfix", "end", state)
    /\ IF ok
       THEN /\ register' = register \cup {Hotfixed}
            /\ consents' = consents \cup {Consent("hotfix")}
       ELSE UNCHANGED <<register, consents>>
    /\ UNCHANGED <<main, passed, cut>>

\* Recorded at once; the version the next ship counts from goes back with it.
Rollback(v) ==
    /\ Proceeds("rollback")
    /\ v \in 0 .. state.version
    /\ StepTo("rollback", "end", [state EXCEPT !.version = v])
    /\ register' = register \cup {Deployment("rollback", v, HotfixEnv)}
    /\ UNCHANGED <<main, history>>

OtherUtility(n) ==
    /\ n \in {"override", "other"}
    /\ Proceeds(n)
    /\ StepTo(n, "end", state)
    /\ UNCHANGED <<world, history>>

-----------------------------------------------------------------------------
\* A node raises or the engine goes down: the node's result is lost, what it
\* did to the world so far is not.
Break ==
    /\ turn \in {"running", "waiting"}
    /\ turn' = "broken"
    /\ \/ UNCHANGED <<world, consents>>
       \/ /\ at = "execute" /\ MayDeploy /\ ~Banned(state.deploy_target)
          /\ main' = main \cup {Merge}
          /\ register' \in {register, register \cup {Shipment}}
          /\ UNCHANGED consents
       \/ /\ at = "hotfix" /\ turn = "waiting" /\ ~Banned(HotfixEnv)
          /\ register' = register \cup {Hotfixed}
          /\ consents' = consents \cup {Consent("hotfix")}
          /\ UNCHANGED main
       \/ /\ at = "rollback"
          /\ \E v \in 0 .. state.version :
                register' = register \cup {Deployment("rollback", v, HotfixEnv)}
          /\ UNCHANGED <<main, consents>>
    /\ UNCHANGED <<at, run, route, state, kept, passed, cut>>

\* The nodes of each subgraph, and the subgraphs of each phase.
Initialization == Gather \/ Author \/ InitGate

DiscoverGraph ==
    \/ DivergentIdeation \/ SocraticDiscovery \/ ProgressiveThinking \/ AdversarialReview
    \/ EdgeCaseAnalysis \/ UxDiscovery \/ Synthesis \/ DiscoverGate
DefineGraph == DefinePrd \/ PrdGate
DesignGraph ==
    \/ CreateDesignDir \/ BloomsDesign \/ GenerateDocs \/ ThreatModel \/ DesignLaws
    \/ UpdateLinks \/ DesignGate
PlanGraph ==
    Decompose \/ CreateTasks \/ DeclareDeps \/ BuildTree \/ RenderPlanFile \/ PlanGate \/ PlanWrapUp
Inception == DiscoverGraph \/ DefineGraph \/ DesignGraph \/ PlanGraph

Construction ==
    BuildPreflight \/ BuildLoop \/ ReviewParty \/ ReviewGate \/ TestPhase \/ WrapUp

ShipGraph == Prepare \/ Execute \/ \E ok \in BOOLEAN : MergeDeployGate(ok)
VerifyGraph ==
    \/ \E scan \in {"none", "clean", "found"} : SecurityChecks(scan)
    \/ \E result \in {"pass", "fail"} : SmokeTests(result)
    \/ UxVerify
    \/ \E ok \in BOOLEAN : SmokeGate(ok)
ReflectGraph == RetroAndEpisode \/ EpisodeGate \/ MetricsAndWrapup
Operation == ShipGraph \/ VerifyGraph \/ ReflectGraph

NightShift ==
    \/ Preflight \/ Activate \/ SentinelAfterBuild \/ SentinelAfterShip
    \/ \E ok \in BOOLEAN : ContractParty(ok)
    \/ \E n \in {"completed", "aborted", "declined"} : Outcome(n)
Utility ==
    \/ \E ok \in BOOLEAN : Hotfix(ok)
    \/ \E v \in 0 .. MaxRuns : Rollback(v)
    \/ \E n \in {"override", "other"} : OtherUtility(n)

Node == Interrupt \/ Initialization \/ Inception \/ Construction \/ Operation
                  \/ NightShift \/ Utility

Next ==
    \/ \E c \in Commands, named \in BOOLEAN, seed \in Seeds : Command(c, named, seed)
    \/ Node
    \/ Break

\* A turn that runs goes on; humans answer when they like.
Spec == Init /\ [][Next]_vars /\ WF_vars(turn = "running" /\ Node)

-----------------------------------------------------------------------------
PDLCState ==
    [utility_command : Utilities \cup {None}, feature : BOOLEAN, tasks : BOOLEAN,
     target_environment : Envs \cup {None}, deploy_candidates : Seq(Envs),
     night_shift_active : BOOLEAN,
     last_verdict : {"none", "continue", "complete", "stagnation", "smoke-failed"},
     progress_log : Seq(SUBSET {"build-done", "complete"}),
     outcome : {"none", "completed", "aborted", "declined"},
     construction_complete : BOOLEAN, version : Nat,
     deploy_target : Envs \cup {None}, merge_and_deploy_approved : BOOLEAN,
     required : {"none", "pass", "fail"}, scan : {"none", "clean", "found"},
     smoke_signed_off : BOOLEAN, operation_complete : BOOLEAN]

\* Every variable stays in the range the code gives it; in particular what is
\* deployed always has an environment.
TypeOK ==
    /\ at \in Nodes
    /\ turn \in {"rest", "running", "waiting", "broken"}
    /\ run \in 0 .. MaxRuns
    /\ route \in {None, "init", "brainstorm", "build", "ship", "night_shift", "utility"}
    /\ state \in PDLCState /\ kept \in PDLCState
    /\ \A d \in register :
          /\ d.run \in 1 .. MaxRuns /\ d.version \in Nat /\ d.env \in Envs
          /\ d.kind \in {"ship", "hotfix", "rollback"}
    /\ main \subseteq [run : 1 .. MaxRuns, version : Nat]
    /\ passed \subseteq 1 .. MaxRuns /\ cut \subseteq 1 .. MaxRuns

Agreed(r, what) == \E c \in consents : c.run = r /\ c.what = what

\* Whatever is merged or deployed was agreed to by a human in its own run, for
\* that version and that environment, or in the Contract Party of a night
\* shift: a verdict kept in the state from an earlier run never deploys.
NothingShipsUnasked ==
    /\ \A d \in register : d.kind # "rollback" =>
          \/ \E c \in consents : /\ c.run = d.run /\ c.what = d.kind
                                 /\ c.version = d.version
                                 /\ d.kind = "ship" => c.env = d.env
          \/ d.kind = "ship" /\ Agreed(d.run, "contract")
    /\ \A m \in main :
          \/ \E c \in consents : c.run = m.run /\ c.what = "ship" /\ c.version = m.version
          \/ Agreed(m.run, "contract")

\* No command, autonomous or not, deploys to production through Operation, and
\* no later hotfix or rollback inherits a production target from it.
NoProductionDeploy == \A d \in register : d.env \notin Production

\* The gates answer themselves only in a run whose contract a human accepted:
\* night_shift_active is set from the command on, before anyone was asked.
AutonomyNeedsContract ==
    state.night_shift_active /\ at \in Autonomous
        => Agreed(run, "contract")

\* After the Contract Party nothing in the run waits for a human.
OneHumanGate ==
    state.night_shift_active /\ turn = "waiting" => at = "contract_party"

\* A night shift that reports success merged, deployed and passed its smoke
\* tests in this run, not in an earlier one of the thread.
CompletedMeansShipped ==
    turn = "rest" /\ route = "night_shift" /\ state.outcome = "completed" =>
        /\ run \in passed
        /\ \E m \in main : m.run = run
        /\ \E d \in register : d.run = run /\ d.kind = "ship"

\* What the Contract Party is told: nothing is decided without a human before it is
\* accepted, no human is waited for afterwards, and success means shipped.
NightShiftKeepsItsWord == AutonomyNeedsContract /\ OneHumanGate /\ CompletedMeansShipped

\* Two deployments of Operation carry the same version only if the run of the
\* first was replaced before it ended, so that its version number was lost,
\* or a rollback moved the version back.
VersionsAreNew ==
    (\A d \in register : d.kind # "rollback") =>
        \A d, e \in register :
            d.kind = "ship" /\ e.kind = "ship" /\ d.run < e.run /\ d.version = e.version
                => d.run \in cut

\* Every deployment is one that a human agreed to, none of Operation is in
\* production, and no two carry one version without a reason.
ShipsAsAgreed == TypeOK /\ NothingShipsUnasked /\ NoProductionDeploy /\ VersionsAreNew

\* A night shift that was activated reaches an outcome of its own, or breaks.
NightShiftEnds ==
    (at = "activate" /\ turn = "running") ~>
        \/ turn = "broken"
        \/ turn = "rest" /\ state.outcome \in {"completed", "aborted"}
                         /\ ~state.night_shift_active

-----------------------------------------------------------------------------
(* What documents and comments of the repository say without a condition.  *)

\* "... a hard block": a night shift does not succeed over a refused sign-off.
BlockedIsNotCompleted ==
    turn = "rest" /\ route = "night_shift" /\ state.outcome = "completed"
        => state.smoke_signed_off

=============================================================================

---------------------------- MODULE ProjectProofs -----------------------------
(***************************************************************************)
(* A project's threads and the organization they are in.  What one thread  *)
(* may deploy, and what a night shift may decide, for any environments and *)
(* seeds, any number of commands, and breaks anywhere.  And what the       *)
(* entities refer to and an import leaves, for any ids, names, events and  *)
(* imports, however these overlap and fail.                                *)
(***************************************************************************)
EXTENDS Lifecycle, Workspace, TLAPS, SequenceTheorems, FiniteSetTheorems

-----------------------------------------------------------------------------
(* Where a thread can be.                                                  *)

Inceptive ==
    {"gather", "author", "init_gate", "divergent_ideation", "socratic_discovery",
     "progressive_thinking", "adversarial_review", "edge_case_analysis", "ux_discovery",
     "synthesis", "discover_gate", "define_prd", "prd_gate", "create_design_dir",
     "blooms_design", "generate_docs", "threat_model", "design_laws", "update_links",
     "design_gate", "decompose", "create_tasks", "declare_deps", "build_tree",
     "render_plan_file", "plan_gate", "plan_wrap_up"}
Building ==
    {"build_preflight", "build_loop", "review_party", "review_gate", "test_phase", "wrap_up"}
Choosing == {"prepare", "merge_deploy_gate", "execute"}
Probing  == {"security_checks", "smoke_tests"}
Judging  == {"ux_verify", "smoke_gate", "retro_and_episode", "episode_gate", "metrics_and_wrapup"}
Agreeing == {"preflight", "contract_party", "declined"}
Shifting == {"activate", "sentinel_after_build", "sentinel_after_ship", "completed"}
Shift    == Agreeing \cup Shifting \cup {"aborted"}

LEMMA PlacesAre ==
    /\ Nodes = Inceptive \cup Building \cup Choosing \cup Probing \cup Judging \cup Shift
                         \cup Utilities \cup {"end"}
    /\ Autonomous = Building \cup Choosing \cup Probing \cup Judging
<1>1. DOMAIN Line = (Inceptive \ {"edge_case_analysis"}) \cup (Building \ {"wrap_up"})
                    \cup Choosing \cup {"security_checks", "activate"}
                    \cup (Judging \ {"metrics_and_wrapup"})
  BY DEF Line, Inceptive, Building, Choosing, Judging
<1>2. Autonomous = Building \cup Choosing \cup Probing \cup Judging
  BY DEF Autonomous, Building, Choosing, Probing, Judging
<1> QED
  BY <1>1, <1>2 DEF Nodes, Inceptive, Building, Choosing, Probing, Judging, Agreeing, Shifting,
     Shift

\* The nodes that only pass the thread on, and where to.
Plain == (Inceptive \ {"edge_case_analysis", "decompose"}) \cup (Building \ {"wrap_up"})
         \cup (Judging \ {"smoke_gate", "metrics_and_wrapup"})

LEMMA InceptionStays ==
    \A n \in Inceptive \ {"edge_case_analysis"} : Line[n] \in Inceptive \cup {"end"}
BY SMTT(60) DEF Line, Inceptive

LEMMA BuildingStays == \A n \in Building \ {"wrap_up"} : Line[n] \in Building
BY SMTT(60) DEF Line, Building

LEMMA JudgingStays == \A n \in Judging \ {"smoke_gate", "metrics_and_wrapup"} : Line[n] \in Judging
BY SMTT(60) DEF Line, Judging

LEMMA LineIs ==
    /\ Line["prepare"] = "merge_deploy_gate" /\ Line["merge_deploy_gate"] = "execute"
    /\ Line["execute"] = "security_checks" /\ Line["security_checks"] = "smoke_tests"
    /\ Line["smoke_gate"] = "retro_and_episode" /\ Line["activate"] = "build_preflight"
BY DEF Line

LEMMA LineStays ==
    ASSUME NEW n \in Plain \cup {"decompose"}
    PROVE  \/ n \in Inceptive /\ Line[n] \in Inceptive \cup {"end"}
           \/ n \in Building  /\ Line[n] \in Building
           \/ n \in Judging   /\ Line[n] \in Judging
BY InceptionStays, BuildingStays, JudgingStays DEF Plain, Inceptive

-----------------------------------------------------------------------------
(* The inductive invariant.                                                *)

\* A thread with work in it has a run, and is somewhere.
ThreadIsSomewhere ==
    /\ turn = "rest" <=> at = "end"
    /\ turn # "rest" => run # 0

\* No state names a production target, and a shipment has one.
TargetsAreSafe ==
    /\ state.deploy_target \notin Production /\ kept.deploy_target \notin Production
    /\ at \in {"merge_deploy_gate", "execute"} => state.deploy_target # None

Shipments == {d \in register : d.kind = "ship"}
Unrolled  == \A d \in register : d.kind # "rollback"

\* A run ships once, after execute began.
ShipsOnce ==
    \A d \in Shipments :
        /\ d.run <= run
        /\ d.run = run => \/ at \in Probing \cup Judging
                          \/ at \in {"sentinel_after_ship", "completed", "aborted", "end"}
                          \/ at = "execute" /\ turn = "broken"

\* The version number of a run that was not replaced is in the thread's state, so
\* that the next one is larger.
VersionsGrow ==
    /\ kept.version <= state.version
    /\ turn = "rest" => kept.version = state.version
    /\ at \in {"merge_deploy_gate", "execute"} => kept.version < state.version
    /\ Unrolled => \A d \in Shipments :
          /\ d.run = run => d.version = state.version
          /\ d.run < run /\ d.run \notin cut => d.version <= kept.version

\* What execute finds approved was approved in this run.
ApprovedHere ==
    at = "execute" /\ state.merge_and_deploy_approved =>
        \/ \E c \in consents : /\ c.run = run /\ c.what = "ship"
                               /\ c.version = state.version /\ c.env = state.deploy_target
        \/ Agreed(run, "contract")

\* night_shift_active is true in the runs of the night shift and in no other;
\* past its Contract Party such a run has a contract.
ShiftIsOne ==
    /\ at \in Shift => route = "night_shift"
    /\ route = "night_shift" => at \in Autonomous \cup Shift \cup {"end"}
    /\ turn # "rest" => (state.night_shift_active <=> route = "night_shift")
    /\ route = "night_shift" /\ at \in Autonomous \cup Shifting => Agreed(run, "contract")

\* What a night shift has done by the time it can only succeed or abort.
ShiftHasShipped ==
    /\ route = "night_shift" =>
          /\ at = "execute" => state.merge_and_deploy_approved
          /\ at \in Probing \cup Judging \cup {"sentinel_after_ship", "completed"} =>
                /\ \E m \in main : m.run = run
                /\ \E d \in register : d.run = run /\ d.kind = "ship"
    /\ at \in Judging \cup {"sentinel_after_ship"} =>
          state.required = "fail" \/ run \in passed
    /\ at = "completed" => run \in passed

Consents == NothingShipsUnasked /\ ApprovedHere
Versions == ShipsOnce /\ VersionsGrow /\ VersionsAreNew
Safety   == TargetsAreSafe /\ NoProductionDeploy
ShiftInv == ShiftIsOne /\ OneHumanGate /\ ShiftHasShipped /\ CompletedMeansShipped
LifeInv  == TypeOK /\ ThreadIsSomewhere /\ Safety /\ Versions /\ Consents /\ ShiftInv

-----------------------------------------------------------------------------
(* Steps that touch neither what is deployed nor what was agreed to.       *)

SameState ==
    /\ state'.version = state.version /\ state'.deploy_target = state.deploy_target
    /\ state'.night_shift_active = state.night_shift_active
    /\ state'.required = state.required /\ state'.outcome = state.outcome

Onward(n, m) ==
    \/ n \in Inceptive /\ m \in Inceptive \cup {"end"}
    \/ n \in Building /\ m \in Building
    \/ n = "wrap_up" /\ m = IF route = "night_shift" THEN "sentinel_after_build" ELSE "end"
    \/ n = "security_checks" /\ m = "smoke_tests"
    \/ n \in Judging /\ m \in Judging
    \/ n = "metrics_and_wrapup"
           /\ m = IF route = "night_shift" THEN "sentinel_after_ship" ELSE "end"
    \/ n = "preflight" /\ m \in {"aborted", "contract_party"}
    \/ n = "contract_party" /\ m = "declined"
    \/ n = "contract_party" /\ m = "activate" /\ Agreed(run, "contract")'
    \/ n = "activate" /\ m = "build_preflight"
    \/ n = "sentinel_after_build" /\ m \in {"aborted", "prepare"}
    \/ n = "sentinel_after_ship" /\ m = "aborted"
    \/ n = "sentinel_after_ship" /\ m = "completed" /\ state.required # "fail"
    \/ n \in {"override", "other"} /\ m = "end"

LEMMA QuietKeeps ==
    ASSUME LifeInv, NEW n, NEW m, Onward(n, m),
           at = n, turn \in {"running", "waiting"},
           at' = m, turn' = IF m = "end" THEN "rest" ELSE "running",
           kept' = IF m = "end" THEN state' ELSE kept,
           state' \in PDLCState, SameState,
           UNCHANGED <<run, route, world, passed, cut>>, consents \subseteq consents'
    PROVE  LifeInv'
<1> USE DEF LifeInv, world
<1>1. m \in Nodes
  BY PlacesAre DEF Onward, Shift, Agreeing, Shifting, Building, Choosing, Probing, Judging,
     Utilities
<1>2. n \in Nodes \ {"end"}
  BY PlacesAre DEF Onward, Inceptive, Shift, Agreeing, Shifting, Building, Choosing, Probing,
     Judging, Utilities
<1>3. n # "execute" /\ m \notin {"merge_deploy_gate", "execute"}
  BY DEF Onward, Inceptive, Building, Judging
<1>4. TypeOK'
  BY <1>1 DEF TypeOK
<1>5. ThreadIsSomewhere'
  BY DEF ThreadIsSomewhere
<1>6. Safety'
  BY <1>3 DEF Safety, TargetsAreSafe, NoProductionDeploy, SameState
<1>7. Consents'
  BY <1>3 DEF Consents, NothingShipsUnasked, ApprovedHere, Agreed
<1>8. Versions'
  <2>1. ShipsOnce'
    <3>1. \/ m \in Probing \cup Judging \cup {"sentinel_after_ship", "completed", "aborted", "end"}
          \/ n \notin Probing \cup Judging \cup
                  {"sentinel_after_ship", "completed", "aborted", "end", "execute"}
      BY DEF Onward, Inceptive, Building, Judging, Probing
    <3> QED BY <3>1 DEF Versions, ShipsOnce, Shipments
  <2>2. VersionsGrow'
    BY <1>3 DEF Versions, VersionsGrow, Shipments, Unrolled, SameState, TypeOK, PDLCState
  <2>3. VersionsAreNew'
    BY DEF Versions, VersionsAreNew
  <2> QED BY <2>1, <2>2, <2>3 DEF Versions
<1>9. ShiftIsOne'
  <2> USE DEF ShiftInv, ShiftIsOne
  <2>1. n \in Inceptive \cup {"override", "other"} => route # "night_shift"
    BY PlacesAre DEF Inceptive, Building, Choosing, Probing, Judging, Shift, Agreeing, Shifting
  <2>2. n \in Shift => route = "night_shift"
    OBVIOUS
  <2>3. Agreed(run, "contract") => Agreed(run, "contract")'
    BY DEF Agreed
  <2> QED
    BY <2>1, <2>2, <2>3, PlacesAre DEF Onward, SameState, Inceptive, Building, Choosing,
       Probing, Judging, Shift, Agreeing, Shifting
<1>10. ShiftHasShipped'
  BY <1>3 DEF ShiftInv, ShiftHasShipped, Onward, SameState, Inceptive, Building, Probing,
     Judging
<1>11. OneHumanGate'
  BY DEF OneHumanGate
<1>12. CompletedMeansShipped'
  <2>1. m = "end" => route # "night_shift"
    BY PlacesAre DEF ShiftInv, ShiftIsOne, Onward, Inceptive, Building, Choosing, Probing,
       Judging, Shift, Agreeing, Shifting
  <2> QED BY <2>1 DEF CompletedMeansShipped
<1> QED
  BY <1>4, <1>5, <1>6, <1>7, <1>8, <1>9, <1>10, <1>11, <1>12 DEF ShiftInv

LEMMA LifeInit == Init => LifeInv
<1> SUFFICES ASSUME Init PROVE LifeInv
  OBVIOUS
<1> USE LifecycleAssumption DEF Init
<1>1. Fresh \in PDLCState
  BY DEF Fresh, PDLCState
<1>2. "end" \in Nodes /\ "end" \notin Autonomous \cup Shift
  BY PlacesAre DEF Shift, Agreeing, Shifting, Building, Choosing, Probing, Judging
<1>3. TypeOK
  BY <1>1, <1>2 DEF TypeOK
<1>4. ThreadIsSomewhere /\ Safety
  BY DEF ThreadIsSomewhere, Safety, TargetsAreSafe, NoProductionDeploy, Fresh
<1>5. Versions
  BY DEF Versions, ShipsOnce, VersionsGrow, VersionsAreNew, Shipments, Fresh
<1>6. Consents
  BY DEF Consents, NothingShipsUnasked, ApprovedHere
<1>7. ShiftInv
  BY <1>2 DEF ShiftInv, ShiftIsOne, OneHumanGate, ShiftHasShipped, CompletedMeansShipped, Fresh,
     Probing, Judging, Shift, Agreeing, Shifting
<1> QED
  BY <1>3, <1>4, <1>5, <1>6, <1>7 DEF LifeInv

\* Pass: every gate of Inception and Construction, and every node without a decision.
LEMMA PassKeeps ==
    ASSUME LifeInv, NEW n \in Plain, Pass(n)
    PROVE  LifeInv'
<1>1. Onward(n, Line[n])
  BY LineStays DEF Onward, Plain
<1>2. state' = state
  BY DEF Pass, Step, StepTo
<1>3. SameState /\ state' \in PDLCState
  BY <1>2 DEF SameState, LifeInv, TypeOK
<1> QED
  BY <1>1, <1>3, QuietKeeps DEF Pass, Proceeds, Step, StepTo, world, history

\* A node that sets one of the fields that only route or report.
LEMMA QuietNodesKeep ==
    ASSUME LifeInv,
           \/ EdgeCaseAnalysis \/ Decompose \/ WrapUp \/ MetricsAndWrapup
           \/ Preflight \/ Activate
           \/ \E n \in {"override", "other"} : OtherUtility(n)
           \/ \E scan \in {"none", "clean", "found"} : SecurityChecks(scan)
           \/ \E ok \in BOOLEAN : SmokeGate(ok)
    PROVE  LifeInv'
<1> USE DEF StepTo, Step, Proceeds, world, history
<1>0. state \in PDLCState
  BY DEF LifeInv, TypeOK
<1>1. CASE EdgeCaseAnalysis
  <2>1. PICK m \in {"ux_discovery", "synthesis"} : StepTo("edge_case_analysis", m, state)
    BY <1>1 DEF EdgeCaseAnalysis
  <2>2. Onward("edge_case_analysis", m)
    BY DEF Onward, Inceptive
  <2> QED BY <1>0, <1>1, <2>1, <2>2, QuietKeeps DEF EdgeCaseAnalysis, SameState
<1>2. CASE Decompose
  <2>1. Onward("decompose", Line["decompose"])
    BY LineStays DEF Onward
  <2>2. state' \in PDLCState /\ SameState
    BY <1>0, <1>2 DEF Decompose, SameState, PDLCState
  <2> QED BY <1>2, <2>1, <2>2, QuietKeeps DEF Decompose
<1>3. CASE WrapUp
  <2> DEFINE m == IF route = "night_shift" THEN "sentinel_after_build" ELSE "end"
  <2>1. Onward("wrap_up", m)
    BY DEF Onward
  <2>2. state' \in PDLCState /\ SameState
    BY <1>0, <1>3 DEF WrapUp, SameState, PDLCState
  <2> QED BY <1>3, <2>1, <2>2, QuietKeeps DEF WrapUp
<1>4. CASE MetricsAndWrapup
  <2> DEFINE m == IF route = "night_shift" THEN "sentinel_after_ship" ELSE "end"
  <2>1. Onward("metrics_and_wrapup", m)
    BY DEF Onward
  <2>2. state' \in PDLCState /\ SameState
    BY <1>0, <1>4 DEF MetricsAndWrapup, SameState, PDLCState
  <2> QED BY <1>4, <2>1, <2>2, QuietKeeps DEF MetricsAndWrapup
<1>5. CASE Preflight
  <2> DEFINE m == IF Unfit THEN "aborted" ELSE "contract_party"
  <2>1. Onward("preflight", m)
    BY DEF Onward
  <2> QED BY <1>0, <1>5, <2>1, QuietKeeps DEF Preflight, SameState
<1>6. CASE Activate
  <2>1. Onward("activate", Line["activate"])
    BY LineIs DEF Onward
  <2>2. state.night_shift_active = TRUE
    BY <1>0, <1>6 DEF Activate, LifeInv, ShiftInv, ShiftIsOne, Shift, Shifting, PDLCState
  <2>3. state' \in PDLCState /\ SameState
    BY <1>0, <1>6, <2>2 DEF Activate, SameState, PDLCState
  <2> QED BY <1>6, <2>1, <2>3, QuietKeeps DEF Activate
<1>7. CASE \E n \in {"override", "other"} : OtherUtility(n)
  <2>1. PICK n \in {"override", "other"} : OtherUtility(n)
    BY <1>7
  <2>2. Onward(n, "end")
    BY DEF Onward
  <2> QED BY <1>0, <2>1, <2>2, QuietKeeps DEF OtherUtility, SameState
<1>8. CASE \E scan \in {"none", "clean", "found"} : SecurityChecks(scan)
  <2>1. PICK scan \in {"none", "clean", "found"} : SecurityChecks(scan)
    BY <1>8
  <2>2. Onward("security_checks", Line["security_checks"])
    BY LineIs DEF Onward
  <2>3. state' \in PDLCState /\ SameState
    BY <1>0, <2>1 DEF SecurityChecks, SameState, PDLCState
  <2> QED BY <2>1, <2>2, <2>3, QuietKeeps DEF SecurityChecks
<1>9. CASE \E ok \in BOOLEAN : SmokeGate(ok)
  <2>1. PICK ok \in BOOLEAN : SmokeGate(ok)
    BY <1>9
  <2>2. Onward("smoke_gate", Line["smoke_gate"])
    BY LineIs DEF Onward, Judging
  <2>3. state' \in PDLCState /\ SameState
    BY <1>0, <2>1 DEF SmokeGate, SameState, PDLCState
  <2> QED BY <2>1, <2>2, <2>3, QuietKeeps DEF SmokeGate
<1> QED
  BY <1>1, <1>2, <1>3, <1>4, <1>5, <1>6, <1>7, <1>8, <1>9

\* The Contract Party records who agreed before autonomy begins.
LEMMA ContractKeeps ==
    ASSUME LifeInv, NEW ok \in BOOLEAN, ContractParty(ok)
    PROVE  LifeInv'
<1> USE DEF StepTo, Proceeds, world
<1>0. state \in PDLCState /\ SameState /\ state' = state
  BY DEF ContractParty, LifeInv, TypeOK, SameState
<1>1. Interrupts("contract_party")
  BY DEF Interrupts
<1>2. consents \subseteq consents' /\ (ok => Agreed(run, "contract")')
  <2>1. consents' = IF ok THEN consents \cup {Consent("contract")} ELSE consents
    BY <1>1 DEF ContractParty
  <2>2. Consent("contract").run = run /\ Consent("contract").what = "contract"
    BY DEF Consent
  <2>3. run' = run
    BY DEF ContractParty
  <2> QED BY <2>1, <2>2, <2>3 DEF Agreed
<1>3. Onward("contract_party", IF ok THEN "activate" ELSE "declined")
  BY <1>2 DEF Onward
<1> QED
  BY <1>0, <1>1, <1>2, <1>3, QuietKeeps DEF ContractParty

\* Both firings: a shipment whose required checks failed is not completed.
LEMMA SentinelKeeps ==
    ASSUME LifeInv, SentinelAfterBuild \/ SentinelAfterShip
    PROVE  LifeInv'
<1> USE DEF StepTo, Proceeds, world, history
<1>0. state \in PDLCState
  BY DEF LifeInv, TypeOK
<1> DEFINE log == Tail3(Append(state.progress_log, Fingerprint))
           new == [state EXCEPT !.progress_log = log, !.last_verdict = Evaluate(log)]
<1>1. log \in Seq(SUBSET {"build-done", "complete"})
  <2>1. Fingerprint \in SUBSET {"build-done", "complete"}
    BY DEF Fingerprint
  <2>2. Append(state.progress_log, Fingerprint) \in Seq(SUBSET {"build-done", "complete"})
    BY <1>0, <2>1 DEF PDLCState
  <2> DEFINE all == Append(state.progress_log, Fingerprint)
  <2>3. CASE Len(all) <= 3
    BY <2>2, <2>3 DEF Tail3
  <2>4. CASE ~(Len(all) <= 3)
    <3> HIDE DEF all
    <3>1. SubSeq(all, Len(all) - 2, Len(all)) \in Seq(SUBSET {"build-done", "complete"})
      BY <2>2, <2>4, LenProperties, SubSeqProperties DEF all
    <3> QED BY <2>4, <3>1 DEF Tail3, all
  <2> QED BY <2>3, <2>4
<1> HIDE DEF log
<1>2. Evaluate(log) \in {"continue", "complete", "stagnation", "smoke-failed"}
  BY DEF Evaluate
<1>3. new \in PDLCState
  BY <1>0, <1>1, <1>2 DEF PDLCState
<1>4. /\ new.version = state.version /\ new.deploy_target = state.deploy_target
      /\ new.night_shift_active = state.night_shift_active
      /\ new.required = state.required /\ new.outcome = state.outcome
  BY <1>0 DEF PDLCState
<1>5. ASSUME NEW n, NEW next, Sentinel(n, next),
             Onward(n, IF Aborts(Evaluate(log)) THEN "aborted" ELSE next)
      PROVE  LifeInv'
  <2>1. state' = new
    BY <1>5 DEF Sentinel, log
  <2>2. SameState /\ state' \in PDLCState
    BY <1>3, <1>4, <2>1 DEF SameState
  <2> QED
    BY <1>5, <2>2, QuietKeeps DEF Sentinel, log
<1>6. CASE SentinelAfterBuild
  BY <1>5, <1>6 DEF SentinelAfterBuild, Onward
<1>7. CASE SentinelAfterShip
  <2>1. ~Aborts(Evaluate(log)) => state.required # "fail"
    BY DEF Aborts, Evaluate
  <2> QED BY <1>5, <1>7, <2>1 DEF SentinelAfterShip, Onward
<1> QED BY <1>6, <1>7

LEMMA InterruptKeeps == ASSUME LifeInv, Interrupt PROVE LifeInv'
<1> USE DEF LifeInv, Interrupt, world, history
<1>1. TypeOK'
  BY DEF TypeOK
<1>2. ThreadIsSomewhere' /\ Safety'
  BY DEF ThreadIsSomewhere, Safety, TargetsAreSafe, NoProductionDeploy
<1>3. Versions'
  BY DEF Versions, ShipsOnce, VersionsGrow, VersionsAreNew, Shipments, Unrolled
<1>4. Consents'
  BY DEF Consents, NothingShipsUnasked, ApprovedHere, Agreed
<1>5. ShiftIsOne' /\ ShiftHasShipped' /\ CompletedMeansShipped'
  BY DEF ShiftInv, ShiftIsOne, ShiftHasShipped, CompletedMeansShipped, Agreed
<1>6. OneHumanGate'
  <2>1. at \notin {"hotfix", "override"} \/ route # "night_shift"
    BY PlacesAre DEF ShiftInv, ShiftIsOne, Building, Choosing, Probing, Judging, Shift,
       Agreeing, Shifting
  <2>2. state.night_shift_active => route = "night_shift"
    BY DEF ShiftInv, ShiftIsOne
  <2> QED BY <2>1, <2>2 DEF Interrupts, OneHumanGate
<1> QED
  BY <1>1, <1>2, <1>3, <1>4, <1>5, <1>6 DEF ShiftInv

\* prepare: a new version, and a target that is not in production.
LEMMA TargetIsSafe ==
    ASSUME state.deploy_candidates \in Seq(Envs)
    PROVE  Target \in Envs \ Production
<1> DEFINE chosen == Foremost(state.deploy_candidates)
<1>1. chosen \subseteq Envs \ Production
  BY DEF Foremost, Selectable
<1>2. chosen # {} => (CHOOSE e \in chosen : TRUE) \in chosen
  OBVIOUS
<1> HIDE DEF chosen
<1>3. Target = IF chosen = {} THEN Fallback ELSE CHOOSE e \in chosen : TRUE
  BY DEF Target, chosen
<1> QED
  BY <1>1, <1>2, <1>3, LifecycleAssumption

LEMMA SetVersion ==
    ASSUME NEW s \in PDLCState, NEW v \in Nat
    PROVE  LET t == [s EXCEPT !.version = v]
           IN  /\ t \in PDLCState /\ t.version = v /\ t.deploy_target = s.deploy_target
               /\ t.night_shift_active = s.night_shift_active
BY DEF PDLCState

LEMMA PrepareKeeps == ASSUME LifeInv, Prepare PROVE LifeInv'
<1> USE DEF LifeInv, world, history
<1>0. /\ at = "prepare" /\ at' = "merge_deploy_gate" /\ turn' = "running" /\ turn # "rest"
      /\ state' = [state EXCEPT !.version = @ + 1, !.deploy_target = Target]
      /\ UNCHANGED <<kept, run, route, register, main, consents, passed, cut>>
  BY LineIs DEF Prepare, Step, StepTo, Proceeds, NextVersion
<1>1. Target \in Envs \ Production
  BY TargetIsSafe DEF TypeOK, PDLCState
<1>2. /\ state' \in PDLCState /\ state'.version = state.version + 1
      /\ state'.deploy_target = Target
      /\ state'.night_shift_active = state.night_shift_active
  <2> DEFINE counted == [state EXCEPT !.version = @ + 1]
  <2>1. /\ counted \in PDLCState /\ counted.version = state.version + 1
        /\ counted.night_shift_active = state.night_shift_active
    <3>1. state \in PDLCState /\ state.version + 1 \in Nat
      BY DEF TypeOK, PDLCState
    <3> QED BY <3>1, SetVersion
  <2>2. state' = [counted EXCEPT !.deploy_target = Target]
    BY <1>0
  <2> HIDE DEF counted
  <2> QED BY <1>1, <2>1, <2>2 DEF PDLCState
<1>3. state.version \in Nat /\ kept.version \in Nat
  BY DEF TypeOK, PDLCState
<1>4. TypeOK'
  BY <1>0, <1>2, PlacesAre DEF TypeOK, Choosing
<1>5. ThreadIsSomewhere' /\ Safety'
  BY <1>0, <1>1, <1>2, LifecycleAssumption
     DEF ThreadIsSomewhere, Safety, TargetsAreSafe, NoProductionDeploy
<1>6. Versions'
  <2>1. \A d \in Shipments : d.run # run
    BY <1>0 DEF Versions, ShipsOnce, Probing, Judging
  <2> QED
    BY <1>0, <1>2, <1>3, <2>1
       DEF Versions, ShipsOnce, VersionsGrow, VersionsAreNew, Shipments, Unrolled
<1>7. Consents'
  BY <1>0 DEF Consents, NothingShipsUnasked, ApprovedHere, Agreed
<1>8. ShiftInv'
  <2>1. {"prepare", "merge_deploy_gate"} \subseteq Autonomous \ Shift
    BY PlacesAre DEF Choosing, Shift, Agreeing, Shifting
  <2>2. ShiftIsOne'
    BY <1>0, <1>2, <2>1 DEF ShiftInv, ShiftIsOne, Agreed
  <2>3. ShiftHasShipped'
    BY <1>0 DEF ShiftHasShipped, Probing, Judging
  <2> QED
    BY <1>0, <2>2, <2>3 DEF ShiftInv, OneHumanGate, CompletedMeansShipped
<1> QED
  BY <1>4, <1>5, <1>6, <1>7, <1>8

\* merge_deploy_gate: the human's verdict on this version and target, or the
\* night shift's own under its contract.
LEMMA MergeDeployGateKeeps ==
    ASSUME LifeInv, NEW ok \in BOOLEAN, MergeDeployGate(ok)
    PROVE  LifeInv'
<1> USE DEF LifeInv, world
<1>0. /\ at = "merge_deploy_gate" /\ at' = "execute" /\ turn' = "running" /\ turn # "rest"
      /\ state' = [state EXCEPT !.merge_and_deploy_approved = ok]
      /\ UNCHANGED <<kept, run, route, register, main, passed, cut>>
  BY LineIs DEF MergeDeployGate, Step, StepTo, Proceeds
<1>1. /\ state' \in PDLCState /\ state'.merge_and_deploy_approved = ok
      /\ state'.version = state.version /\ state'.deploy_target = state.deploy_target
      /\ state'.night_shift_active = state.night_shift_active
  BY <1>0 DEF TypeOK, PDLCState
<1>2. consents \subseteq consents'
  BY DEF MergeDeployGate
<1>3. TypeOK'
  BY <1>0, <1>1, PlacesAre DEF TypeOK, Choosing
<1>4. ThreadIsSomewhere' /\ Safety'
  BY <1>0, <1>1 DEF ThreadIsSomewhere, Safety, TargetsAreSafe, NoProductionDeploy
<1>5. Versions'
  <2>1. \A d \in Shipments : d.run # run
    BY <1>0 DEF Versions, ShipsOnce, Probing, Judging
  <2>2. ShipsOnce'
    BY <1>0, <2>1 DEF Versions, ShipsOnce, Shipments
  <2>3. VersionsGrow'
    BY <1>0, <1>1 DEF Versions, VersionsGrow, Shipments, Unrolled
  <2> QED BY <1>0, <2>2, <2>3 DEF Versions, VersionsAreNew
<1>6. Consents'
  <2>1. CASE Interrupts("merge_deploy_gate")
    <3>1. ok => Consent("ship") \in consents'
      BY <2>1 DEF MergeDeployGate
    <3>2. /\ Consent("ship").run = run /\ Consent("ship").what = "ship"
          /\ Consent("ship").version = state.version /\ Consent("ship").env = state.deploy_target
      BY DEF Consent
    <3> QED
      BY <1>0, <1>1, <1>2, <3>1, <3>2 DEF Consents, NothingShipsUnasked, ApprovedHere, Agreed
  <2>2. CASE ~Interrupts("merge_deploy_gate")
    <3>1. state.night_shift_active
      BY <2>2 DEF Interrupts, Gates
    <3>2. Agreed(run, "contract")
      BY <1>0, <3>1, PlacesAre DEF ShiftInv, ShiftIsOne, Choosing
    <3> QED
      BY <1>0, <1>1, <1>2, <3>2 DEF Consents, NothingShipsUnasked, ApprovedHere, Agreed
  <2> QED BY <2>1, <2>2
<1>7. ShiftInv'
  <2>1. "merge_deploy_gate" \in Autonomous /\ "execute" \in Autonomous \ Shift
    BY PlacesAre DEF Choosing, Shift, Agreeing, Shifting
  <2>2. ShiftIsOne'
    BY <1>0, <1>1, <1>2, <2>1 DEF ShiftInv, ShiftIsOne, Agreed
  <2>3. route = "night_shift" => ok = TRUE
    BY <1>0 DEF MergeDeployGate, Verdict, Interrupts, ShiftInv, ShiftIsOne, TypeOK, PDLCState
  <2>4. ShiftHasShipped'
    BY <1>0, <1>1, <2>3 DEF ShiftHasShipped, Probing, Judging
  <2> QED
    BY <1>0, <2>2, <2>4 DEF ShiftInv, OneHumanGate, CompletedMeansShipped
<1> QED
  BY <1>3, <1>4, <1>5, <1>6, <1>7

\* What execute ships, all of it or, when it breaks, a part of it.
LEMMA ShipmentIsFine ==
    ASSUME LifeInv, at = "execute", turn \in {"running", "waiting"},
           state.merge_and_deploy_approved,
           UNCHANGED <<run, route, kept, state, consents, passed, cut>>,
           main' \in {main, main \cup {Merge}}, register' \in {register, register \cup {Shipment}},
           turn' # "rest", at' = "security_checks" \/ (at' = "execute" /\ turn' = "broken")
    PROVE  NothingShipsUnasked' /\ NoProductionDeploy' /\ Versions'
<1> USE DEF LifeInv
<1>1. /\ Shipment.run = run /\ Shipment.kind = "ship" /\ Shipment.version = state.version
      /\ Shipment.env = state.deploy_target
      /\ Merge.run = run /\ Merge.version = state.version
  BY DEF Shipment, Deployment, Merge
<1>2. \A d \in register' : d \in register \/ d = Shipment
  OBVIOUS
<1>3. \A m \in main' : m \in main \/ m = Merge
  OBVIOUS
<1>4. NothingShipsUnasked'
  BY <1>1, <1>2, <1>3 DEF Consents, NothingShipsUnasked, ApprovedHere, Agreed
<1>5. NoProductionDeploy'
  BY <1>1, <1>2 DEF Safety, TargetsAreSafe, NoProductionDeploy
<1>6. Versions'
  <2>1. \A d \in Shipments' : d \in Shipments \/ d = Shipment
    BY <1>2 DEF Shipments
  <2>2. \A d \in Shipments : d.run < run
    BY DEF Versions, ShipsOnce, Probing, Judging, TypeOK, Shipments
  <2>3. ShipsOnce'
    BY <1>1, <2>1, <2>2 DEF Versions, ShipsOnce, Probing, TypeOK
  <2>4. Unrolled' => Unrolled
    BY <1>1, <1>2 DEF Unrolled
  <2>5. VersionsGrow'
    BY <1>1, <2>1, <2>2, <2>4 DEF Versions, VersionsGrow, ThreadIsSomewhere, TypeOK
  <2>6. VersionsAreNew'
    <3> SUFFICES ASSUME Unrolled', NEW d \in Shipments', NEW e \in Shipments', d.run < e.run,
                        d.version = e.version
                 PROVE  d.run \in cut
      BY DEF VersionsAreNew, Unrolled, Shipments
    <3>1. d \in Shipments
      <4>1. \A f \in Shipments : f.run \in Int
        BY DEF TypeOK, Shipments
      <4>2. run \in Int /\ e.run <= run
        BY <1>1, <2>1, <2>2, <4>1 DEF TypeOK
      <4> QED BY <1>1, <2>1, <4>1, <4>2
    <3>2. CASE e \in Shipments
      BY <2>4, <3>1, <3>2 DEF Versions, VersionsAreNew, Unrolled, Shipments
    <3>3. CASE e = Shipment
      <4>1. d.version \in Nat /\ kept.version \in Nat /\ state.version \in Nat
        BY <3>1 DEF TypeOK, PDLCState, Shipments
      <4>2. d.run \notin cut => d.version <= kept.version
        BY <1>1, <2>2, <2>4, <3>1 DEF Versions, VersionsGrow
      <4>3. kept.version < state.version
        BY DEF Versions, VersionsGrow
      <4> QED BY <1>1, <3>3, <4>1, <4>2, <4>3
    <3> QED BY <2>1, <3>2, <3>3
  <2> QED BY <2>3, <2>5, <2>6 DEF Versions
<1> QED BY <1>4, <1>5, <1>6

LEMMA ShipmentHasType ==
    ASSUME TypeOK, ThreadIsSomewhere, TargetsAreSafe, at = "execute"
    PROVE  /\ Shipment.run \in 1 .. MaxRuns /\ Shipment.version \in Nat /\ Shipment.env \in Envs
           /\ Shipment.kind = "ship" /\ Merge \in [run : 1 .. MaxRuns, version : Nat]
<1>1. run \in 1 .. MaxRuns
  BY LifecycleAssumption DEF TypeOK, ThreadIsSomewhere
<1>2. state.version \in Nat /\ state.deploy_target \in Envs
  BY DEF TypeOK, PDLCState, TargetsAreSafe
<1> QED BY <1>1, <1>2 DEF Shipment, Deployment, Merge

LEMMA ExecuteKeeps == ASSUME LifeInv, Execute PROVE LifeInv'
<1> USE DEF LifeInv, world, history
<1>0. /\ at = "execute" /\ at' = "security_checks" /\ turn' = "running"
      /\ turn \in {"running", "waiting"} /\ state' = state
      /\ UNCHANGED <<kept, run, route, consents, passed, cut>>
      /\ IF state.merge_and_deploy_approved
         THEN main' = main \cup {Merge} /\ register' = register \cup {Shipment}
         ELSE UNCHANGED <<register, main>>
  BY LineIs DEF Execute, Step, StepTo, Proceeds, MayDeploy
<1>1. TypeOK'
  <2>1. CASE state.merge_and_deploy_approved
    BY <1>0, <2>1, ShipmentHasType, PlacesAre DEF TypeOK, Probing, Safety
  <2>2. CASE ~state.merge_and_deploy_approved
    BY <1>0, <2>2, PlacesAre DEF TypeOK, Probing
  <2> QED BY <2>1, <2>2
<1>2. ThreadIsSomewhere' /\ TargetsAreSafe'
  BY <1>0 DEF ThreadIsSomewhere, Safety, TargetsAreSafe
<1>3. NothingShipsUnasked' /\ NoProductionDeploy' /\ Versions'
  <2>1. CASE state.merge_and_deploy_approved
    <3>1. main' \in {main, main \cup {Merge}} /\ register' \in {register, register \cup {Shipment}}
      BY <1>0, <2>1
    <3>2. UNCHANGED <<run, route, kept, state, consents, passed, cut>> /\ turn' # "rest"
      BY <1>0
    <3> QED BY <1>0, <2>1, <3>1, <3>2, ShipmentIsFine
  <2>2. CASE ~state.merge_and_deploy_approved
    <3>1. \A d \in Shipments : d.run # run
      BY <1>0 DEF Versions, ShipsOnce, Probing, Judging
    <3>2. Versions'
      BY <1>0, <2>2, <3>1 DEF Versions, ShipsOnce, VersionsGrow, VersionsAreNew, Shipments,
         Unrolled
    <3> QED
      BY <1>0, <2>2, <3>2 DEF Consents, NothingShipsUnasked, Agreed, Safety, NoProductionDeploy
  <2> QED BY <2>1, <2>2
<1>4. ApprovedHere'
  BY <1>0 DEF ApprovedHere
<1>5. ShiftInv'
  <2>1. {"execute", "security_checks"} \subseteq Autonomous \ Shift
    BY PlacesAre DEF Choosing, Probing, Shift, Agreeing, Shifting
  <2>2. ShiftIsOne'
    BY <1>0, <2>1 DEF ShiftInv, ShiftIsOne, Agreed
  <2>3. route = "night_shift" =>
            /\ \E m \in main' : m.run = run
            /\ \E d \in register' : d.run = run /\ d.kind = "ship"
    <3>1. route = "night_shift" => Merge \in main' /\ Shipment \in register'
      BY <1>0 DEF ShiftInv, ShiftHasShipped
    <3>2. Merge.run = run /\ Shipment.run = run /\ Shipment.kind = "ship"
      BY DEF Merge, Shipment, Deployment
    <3> QED BY <3>1, <3>2
  <2>4. ShiftHasShipped'
    BY <1>0, <2>3 DEF ShiftHasShipped, Judging
  <2> QED
    BY <1>0, <2>2, <2>4 DEF ShiftInv, OneHumanGate, CompletedMeansShipped
<1> QED
  BY <1>1, <1>2, <1>3, <1>4, <1>5 DEF Safety, Consents

\* smoke_tests: a required check passes or fails in this run.
LEMMA SmokeTestsKeep ==
    ASSUME LifeInv, NEW result \in {"pass", "fail"}, SmokeTests(result)
    PROVE  LifeInv'
<1> USE DEF LifeInv, world
<1>0. PICK m \in {"ux_verify", "smoke_gate"} :
          /\ at = "smoke_tests" /\ at' = m /\ turn' = "running" /\ turn # "rest"
          /\ state' = [state EXCEPT !.required = result]
          /\ passed' = IF result = "pass" THEN passed \cup {run} ELSE passed
          /\ UNCHANGED <<kept, run, route, register, main, consents, cut>>
  BY DEF SmokeTests, StepTo, Proceeds
<1>1. /\ state' \in PDLCState /\ state'.required = result
      /\ state'.version = state.version /\ state'.deploy_target = state.deploy_target
      /\ state'.night_shift_active = state.night_shift_active
  BY ZenonT(60), <1>0 DEF TypeOK, PDLCState
<1>2. {"smoke_tests", m} \subseteq Autonomous \ Shift /\ m \in Judging \cap Nodes
  BY PlacesAre DEF Probing, Judging, Shift, Agreeing, Shifting
<1>3. m \notin {"merge_deploy_gate", "execute", "completed", "rest"}
  OBVIOUS
<1>4. TypeOK'
  <2>1. run \in 1 .. MaxRuns
    BY <1>0, LifecycleAssumption DEF TypeOK, ThreadIsSomewhere
  <2> QED BY <1>0, <1>1, <1>2, <2>1 DEF TypeOK
<1>5. ThreadIsSomewhere' /\ Safety'
  BY <1>0, <1>1 DEF ThreadIsSomewhere, Safety, TargetsAreSafe, NoProductionDeploy
<1>6. Versions'
  BY <1>0, <1>1, <1>2, <1>3 DEF Versions, ShipsOnce, VersionsGrow, VersionsAreNew, Shipments,
     Unrolled
<1>7. Consents'
  BY <1>0, <1>3 DEF Consents, NothingShipsUnasked, ApprovedHere, Agreed
<1>8. ShiftIsOne'
  BY <1>0, <1>1, <1>2 DEF ShiftInv, ShiftIsOne, Agreed
<1>9. ShiftHasShipped'
  BY <1>0, <1>1, <1>2, <1>3 DEF ShiftInv, ShiftHasShipped, Probing
<1> QED
  BY <1>0, <1>4, <1>5, <1>6, <1>7, <1>8, <1>9 DEF ShiftInv, OneHumanGate, CompletedMeansShipped

LEMMA SetOutcome ==
    ASSUME NEW s \in PDLCState, NEW n \in {"completed", "aborted", "declined"}
    PROVE  LET t == [s EXCEPT !.outcome = n]
           IN  /\ t \in PDLCState /\ t.outcome = n
               /\ t.version = s.version /\ t.deploy_target = s.deploy_target
BY DEF PDLCState

\* completed, aborted, declined: what the run shipped is in main and register.
LEMMA OutcomeKeeps == ASSUME LifeInv, NEW n, Outcome(n) PROVE LifeInv'
<1> USE DEF LifeInv, world, history
<1>0. /\ n \in {"completed", "aborted", "declined"}
      /\ at = n /\ at' = "end" /\ turn' = "rest" /\ turn # "rest" /\ kept' = state'
      /\ state' = [state EXCEPT !.outcome = n, !.night_shift_active = FALSE]
      /\ UNCHANGED <<run, route, register, main, consents, passed, cut>>
  BY DEF Outcome, StepTo, Proceeds
<1>1. /\ state' \in PDLCState /\ state'.outcome = n
      /\ state'.version = state.version /\ state'.deploy_target = state.deploy_target
  <2> DEFINE told == [state EXCEPT !.outcome = n]
  <2>1. /\ told \in PDLCState /\ told.outcome = n
        /\ told.version = state.version /\ told.deploy_target = state.deploy_target
    BY <1>0, SetOutcome DEF TypeOK
  <2>2. state' = [told EXCEPT !.night_shift_active = FALSE]
    BY <1>0
  <2> HIDE DEF told
  <2> QED BY <2>1, <2>2 DEF PDLCState
<1>2. TypeOK'
  BY <1>0, <1>1, PlacesAre DEF TypeOK
<1>3. ThreadIsSomewhere' /\ Safety'
  BY <1>0, <1>1 DEF ThreadIsSomewhere, Safety, TargetsAreSafe, NoProductionDeploy
<1>4. Versions'
  <2>1. kept'.version = state.version /\ kept.version <= state.version
    BY <1>0, <1>1 DEF Versions, VersionsGrow
  <2>2. \A d \in Shipments : d.version \in Nat
    BY DEF Shipments, TypeOK
  <2>3. state.version \in Nat /\ kept.version \in Nat
    BY DEF TypeOK, PDLCState
  <2>4. VersionsGrow'
    BY <1>0, <1>1, <2>1, <2>2, <2>3 DEF Versions, VersionsGrow, Shipments, Unrolled
  <2> QED
    BY <1>0, <2>4 DEF Versions, ShipsOnce, VersionsAreNew, Shipments
<1>5. Consents'
  BY <1>0 DEF Consents, NothingShipsUnasked, ApprovedHere, Agreed
<1>6. ShiftInv'
  <2>1. "end" \notin Autonomous \cup Shift
    BY PlacesAre DEF Building, Choosing, Probing, Judging, Shift, Agreeing, Shifting
  <2>2. ShiftIsOne' /\ ShiftHasShipped'
    BY <1>0, <2>1 DEF ShiftIsOne, ShiftHasShipped, Probing, Judging, Shift
  <2>3. CompletedMeansShipped'
    BY <1>0, <1>1 DEF ShiftInv, ShiftHasShipped, CompletedMeansShipped
  <2> QED BY <1>0, <2>2, <2>3 DEF ShiftInv, OneHumanGate
<1> QED BY <1>2, <1>3, <1>4, <1>5, <1>6

\* hotfix and rollback, and what is left of one that breaks.
Repair(d) ==
    /\ register' = register \cup {d} /\ d.run = run /\ d.kind \in {"hotfix", "rollback"}
    /\ d.env \in Envs \ Production /\ d.version \in Nat
    /\ d.kind = "hotfix" =>
          \E c \in consents' : c.run = run /\ c.what = "hotfix" /\ c.version = d.version

LEMMA RepairIsFine ==
    ASSUME LifeInv, NEW d, Repair(d) \/ register' = register, turn # "rest",
           UNCHANGED <<run, main, cut>>, consents \subseteq consents'
    PROVE  /\ NothingShipsUnasked' /\ NoProductionDeploy' /\ VersionsAreNew'
           /\ Shipments' = Shipments /\ (Unrolled' => Unrolled)
           /\ \A r \in register' : /\ r.run \in 1 .. MaxRuns /\ r.version \in Nat /\ r.env \in Envs
                                   /\ r.kind \in {"ship", "hotfix", "rollback"}
<1> USE DEF LifeInv
<1>1. \A r \in register' : r \in register \/ (Repair(d) /\ r = d)
  BY DEF Repair
<1>2. register \subseteq register'
  BY DEF Repair
<1>3. run \in 1 .. MaxRuns
  BY LifecycleAssumption DEF TypeOK, ThreadIsSomewhere
<1>4. NothingShipsUnasked'
  BY <1>1 DEF Repair, Consents, NothingShipsUnasked, Agreed
<1>5. NoProductionDeploy'
  BY <1>1 DEF Repair, Safety, NoProductionDeploy
<1>6. Shipments' = Shipments
  BY <1>1, <1>2 DEF Repair, Shipments
<1>7. Unrolled' => Unrolled
  BY <1>2 DEF Unrolled
<1>8. VersionsAreNew'
  BY <1>6, <1>7 DEF Versions, VersionsAreNew, Unrolled, Shipments
<1>9. \A r \in register' : /\ r.run \in 1 .. MaxRuns /\ r.version \in Nat /\ r.env \in Envs
                          /\ r.kind \in {"ship", "hotfix", "rollback"}
  BY <1>1, <1>3 DEF Repair, TypeOK
<1> QED BY <1>4, <1>5, <1>6, <1>7, <1>8, <1>9

LEMMA HotfixEnvIsSafe == LifeInv => HotfixEnv \in Envs \ Production
BY LifecycleAssumption DEF LifeInv, TypeOK, PDLCState, Safety, TargetsAreSafe, HotfixEnv

\* The end of a run whose node repaired something, or nothing.
LEMMA RepairKeeps ==
    ASSUME LifeInv, NEW d, Repair(d) \/ register' = register, turn # "rest",
           at \in {"hotfix", "rollback"}, at' = "end", turn' = "rest",
           state' \in PDLCState, kept' = state', state'.deploy_target = state.deploy_target,
           (Repair(d) /\ d.kind = "rollback") \/ state'.version = state.version,
           UNCHANGED <<run, route, main, passed, cut>>, consents \subseteq consents'
    PROVE  LifeInv'
<1> USE DEF LifeInv
<1>1. TypeOK'
  BY PlacesAre, RepairIsFine DEF TypeOK
<1>2. ThreadIsSomewhere' /\ TargetsAreSafe'
  BY DEF ThreadIsSomewhere, Safety, TargetsAreSafe
<1>3. Versions'
  <2>1. ShipsOnce'
    BY RepairIsFine DEF Versions, ShipsOnce
  <2>2. VersionsGrow'
    <3>1. CASE Unrolled'
      <4>1. state'.version = state.version
        BY <3>1 DEF Unrolled, Repair
      <4>2. /\ state.version \in Nat /\ kept.version \in Nat
            /\ \A e \in Shipments : e.version \in Nat
        BY DEF TypeOK, PDLCState, Shipments
      <4> QED BY <4>1, <4>2, RepairIsFine DEF Versions, VersionsGrow
    <3>2. CASE ~Unrolled'
      BY <3>2 DEF VersionsGrow, PDLCState
    <3> QED BY <3>1, <3>2
  <2> QED BY <2>1, <2>2, RepairIsFine DEF Versions
<1>4. ApprovedHere'
  BY DEF ApprovedHere
<1>5. ShiftInv'
  <2>1. route # "night_shift"
    BY PlacesAre DEF ShiftInv, ShiftIsOne, Building, Choosing, Probing, Judging, Shift,
       Agreeing,
       Shifting
  <2>2. "end" \notin Shift
    BY DEF Shift, Agreeing, Shifting
  <2> QED
    BY <2>1, <2>2 DEF ShiftInv, ShiftIsOne, ShiftHasShipped, OneHumanGate,
       CompletedMeansShipped,
       Judging
<1> QED
  BY <1>1, <1>2, <1>3, <1>4, <1>5, RepairIsFine DEF Consents, Safety

LEMMA HotfixKeeps == ASSUME LifeInv, NEW ok \in BOOLEAN, Hotfix(ok) PROVE LifeInv'
<1> USE DEF StepTo, Proceeds
<1>1. /\ state \in PDLCState /\ state.version \in Nat /\ state' = state
  BY DEF Hotfix, LifeInv, TypeOK, PDLCState
<1>2. CASE ok
  <2>1. register' = register \cup {Hotfixed} /\ consents' = consents \cup {Consent("hotfix")}
    BY <1>2 DEF Hotfix
  <2>2. /\ Hotfixed.run = run /\ Hotfixed.kind = "hotfix" /\ Hotfixed.version = state.version
        /\ Hotfixed.env = HotfixEnv
        /\ Consent("hotfix").run = run /\ Consent("hotfix").what = "hotfix"
        /\ Consent("hotfix").version = state.version
    BY DEF Hotfixed, Deployment, Consent
  <2>3. Repair(Hotfixed)
    BY <1>1, <2>1, <2>2, HotfixEnvIsSafe DEF Repair
  <2> QED BY <1>1, <2>1, <2>3, RepairKeeps DEF Hotfix
<1>3. CASE ~ok
  BY <1>1, <1>3, RepairKeeps DEF Hotfix
<1> QED BY <1>2, <1>3

LEMMA RollbackIsRepair ==
    ASSUME LifeInv, NEW v \in 0 .. state.version,
           register' = register \cup {Deployment("rollback", v, HotfixEnv)}
    PROVE  /\ Repair(Deployment("rollback", v, HotfixEnv)) /\ v \in Nat
           /\ Deployment("rollback", v, HotfixEnv).kind = "rollback"
<1> DEFINE d == Deployment("rollback", v, HotfixEnv)
<1>1. d.run = run /\ d.kind = "rollback" /\ d.version = v /\ d.env = HotfixEnv
  BY DEF Deployment
<1>2. v \in Nat
  OBVIOUS
<1> QED BY <1>1, <1>2, HotfixEnvIsSafe DEF Repair

LEMMA RollbackKeeps == ASSUME LifeInv, NEW v, Rollback(v) PROVE LifeInv'
<1> USE DEF StepTo, Proceeds, history
<1> DEFINE d == Deployment("rollback", v, HotfixEnv)
<1>1. Repair(d) /\ v \in Nat /\ d.kind = "rollback"
  BY RollbackIsRepair DEF Rollback
<1>2. state' = [state EXCEPT !.version = v] /\ state \in PDLCState
  BY DEF Rollback, LifeInv, TypeOK
<1>3. state' \in PDLCState /\ state'.deploy_target = state.deploy_target
  BY <1>1, <1>2, SetVersion
<1> HIDE DEF d
<1> QED
  BY <1>1, <1>3, RepairKeeps DEF Rollback

\* A node that raises, or an engine that goes down, anywhere: what was done to the
\* world so far is one of the above.
LEMMA BreakKeeps == ASSUME LifeInv, Break PROVE LifeInv'
<1>0. /\ turn \in {"running", "waiting"} /\ turn' = "broken" /\ turn # "rest"
      /\ UNCHANGED <<at, run, route, state, kept, passed, cut>>
  BY DEF Break
<1>1. ThreadIsSomewhere' /\ TargetsAreSafe'
  BY <1>0 DEF LifeInv, ThreadIsSomewhere, Safety, TargetsAreSafe
<1>2. consents \subseteq consents'
  BY DEF Break
<1>3. ApprovedHere'
  BY <1>0, <1>2 DEF LifeInv, Consents, ApprovedHere, Agreed
<1>4. main \subseteq main' /\ register \subseteq register'
  BY DEF Break, world
<1>5. ShiftInv'
  <2>1. ShiftIsOne'
    BY <1>0, <1>2 DEF LifeInv, ShiftInv, ShiftIsOne, Agreed
  <2>2. ShiftHasShipped'
    BY <1>0, <1>4 DEF LifeInv, ShiftInv, ShiftHasShipped
  <2> QED BY <1>0, <2>1, <2>2 DEF ShiftInv, OneHumanGate, CompletedMeansShipped
<1>6. ASSUME UNCHANGED <<register, main>> PROVE LifeInv'
  <2>1. TypeOK'
    BY <1>0, <1>6 DEF LifeInv, TypeOK
  <2>2. NoProductionDeploy' /\ NothingShipsUnasked'
    BY <1>2, <1>6 DEF LifeInv, Safety, NoProductionDeploy, Consents, NothingShipsUnasked, Agreed
  <2>3. Versions'
    BY <1>0, <1>6 DEF LifeInv, Versions, ShipsOnce, VersionsGrow, VersionsAreNew, Shipments,
       Unrolled
  <2> QED BY <1>1, <1>3, <1>5, <2>1, <2>2, <2>3 DEF LifeInv, Safety, Consents
<1>7. ASSUME NEW d, Repair(d), main' = main PROVE LifeInv'
  <2>1. TypeOK'
    BY <1>0, <1>2, <1>7, RepairIsFine DEF LifeInv, TypeOK
  <2>2. Shipments' = Shipments /\ (Unrolled' => Unrolled) /\ VersionsAreNew'
    BY <1>0, <1>2, <1>7, RepairIsFine
  <2>3. ShipsOnce' /\ VersionsGrow'
    BY <1>0, <2>2 DEF LifeInv, Versions, ShipsOnce, VersionsGrow
  <2>4. NoProductionDeploy' /\ NothingShipsUnasked'
    BY <1>0, <1>2, <1>7, RepairIsFine
  <2> QED
    BY <1>1, <1>3, <1>5, <2>1, <2>2, <2>3, <2>4 DEF LifeInv, Safety, Consents, Versions
<1>8. ASSUME at = "execute", MayDeploy, main' = main \cup {Merge},
             register' \in {register, register \cup {Shipment}}, consents' = consents
      PROVE  LifeInv'
  <2>1. TypeOK /\ ThreadIsSomewhere /\ TargetsAreSafe
    BY DEF LifeInv, Safety
  <2>2. TypeOK'
    BY <1>0, <1>8, <2>1, ShipmentHasType DEF TypeOK
  <2>3. UNCHANGED <<run, route, kept, state, consents, passed, cut>> /\ turn' # "rest"
    BY <1>0, <1>8
  <2>4. NothingShipsUnasked' /\ NoProductionDeploy' /\ Versions'
    BY <1>0, <1>8, <2>3, ShipmentIsFine DEF MayDeploy
  <2> QED
    BY <1>1, <1>3, <1>5, <2>2, <2>4 DEF LifeInv, Safety, Consents
<1>9. CASE UNCHANGED <<world, consents>>
  BY <1>6, <1>9 DEF world
<1>10. CASE /\ at = "execute" /\ MayDeploy /\ main' = main \cup {Merge}
            /\ register' \in {register, register \cup {Shipment}} /\ UNCHANGED consents
  BY <1>8, <1>10
<1>11. CASE /\ register' = register \cup {Hotfixed}
            /\ consents' = consents \cup {Consent("hotfix")} /\ UNCHANGED main
  <2>1. /\ Hotfixed.run = run /\ Hotfixed.kind = "hotfix" /\ Hotfixed.version = state.version
        /\ Hotfixed.env = HotfixEnv
        /\ Consent("hotfix").run = run /\ Consent("hotfix").what = "hotfix"
        /\ Consent("hotfix").version = state.version
    BY DEF Hotfixed, Deployment, Consent
  <2>2. state.version \in Nat
    BY DEF LifeInv, TypeOK, PDLCState
  <2>3. Repair(Hotfixed)
    BY <1>11, <2>1, <2>2, HotfixEnvIsSafe DEF Repair
  <2> QED BY <1>7, <1>11, <2>3
<1>12. CASE /\ \E v \in 0 .. state.version :
                  register' = register \cup {Deployment("rollback", v, HotfixEnv)}
            /\ UNCHANGED <<main, consents>>
  BY <1>7, <1>12, RollbackIsRepair
<1> QED
  BY <1>9, <1>10, <1>11, <1>12 DEF Break

-----------------------------------------------------------------------------
\* A command begins its graph on what the thread has; the run it replaces, if it
\* was still at work, is cut.
LEMMA EntryIs ==
    ASSUME NEW r \in {"init", "brainstorm", "build", "ship", "night_shift", "utility"},
           NEW u, r = "utility" => u \in Utilities
    PROVE  /\ Entry(r, u) \in Nodes \ {"end"}
           /\ Entry(r, u) \in Shift <=> r = "night_shift"
           /\ r = "night_shift" => Entry(r, u) = "preflight"
           /\ Entry(r, u) \notin {"merge_deploy_gate", "execute"} \cup Probing \cup Judging
<1>1. Entry(r, u) = CASE r = "night_shift" -> "preflight"
                      [] r = "utility"     -> u
                      [] r = "brainstorm"  -> "divergent_ideation"
                      [] r = "build"       -> "build_preflight"
                      [] r = "ship"        -> "prepare"
                      [] OTHER             -> "gather"
  BY DEF Entry
<1>2. CASE r = "utility"
  BY <1>1, <1>2, PlacesAre DEF Utilities, Shift, Agreeing, Shifting, Probing, Judging
<1>3. CASE r # "utility"
  BY <1>1, <1>3, PlacesAre
     DEF Inceptive, Building, Choosing, Shift, Agreeing, Shifting, Probing, Judging
<1> QED BY <1>2, <1>3

LEMMA StartHasType ==
    ASSUME NEW c \in Commands, NEW named \in BOOLEAN, NEW seed \in Seeds, NEW had \in PDLCState
    PROVE  LET s == InitialState(c, named, seed, had)
           IN  /\ s \in PDLCState /\ s.version = had.version
               /\ s.deploy_target = had.deploy_target
               /\ s.night_shift_active = (c = "night-shift")
<1> DEFINE u == UtilityOf(c, had)
           a == had.tasks \/ seed.tasks
           e == IF seed.target_environment = None THEN had.target_environment
                                                  ELSE seed.target_environment
           l == IF seed.deploy_candidates = <<>> THEN had.deploy_candidates
                                                 ELSE seed.deploy_candidates
           t1 == [had EXCEPT !.utility_command = u]
           t2 == [t1 EXCEPT !.feature = named]
           t3 == [t2 EXCEPT !.night_shift_active = (c = "night-shift")]
           t4 == [t3 EXCEPT !.tasks = a]
           t5 == [t4 EXCEPT !.target_environment = e]
           t6 == [t5 EXCEPT !.deploy_candidates = l]
<1>1. u \in Utilities \cup {None}
  BY DEF UtilityOf, PDLCState
<1>2. a \in BOOLEAN
  OBVIOUS
<1>3. e \in Envs \cup {None} /\ l \in Seq(Envs)
  BY LifecycleAssumption DEF PDLCState
<1>4. InitialState(c, named, seed, had) = t6
  BY DEF InitialState, PDLCState
<1> HIDE DEF u, a, e, l
<1> DEFINE Good(t) == /\ t \in PDLCState /\ t.version = had.version
                      /\ t.deploy_target = had.deploy_target
<1>5. Good(t1)
  BY <1>1 DEF PDLCState
<1> HIDE DEF t1
<1>6. Good(t2)
  BY <1>5 DEF PDLCState
<1> HIDE DEF t2
<1>7. Good(t3) /\ t3.night_shift_active = (c = "night-shift")
  BY ZenonT(60), <1>6 DEF PDLCState
<1> HIDE DEF t3
<1>8. Good(t4) /\ t4.night_shift_active = (c = "night-shift")
  BY <1>2, <1>7 DEF PDLCState
<1> HIDE DEF t4
<1>9. Good(t5) /\ t5.night_shift_active = (c = "night-shift")
  BY <1>3, <1>8 DEF PDLCState
<1> HIDE DEF t5
<1>10. Good(t6) /\ t6.night_shift_active = (c = "night-shift")
  BY <1>3, <1>9 DEF PDLCState
<1> QED BY <1>4, <1>10

LEMMA CommandKeeps ==
    ASSUME LifeInv, NEW c \in Commands, NEW named \in BOOLEAN, NEW seed \in Seeds,
           Command(c, named, seed)
    PROVE  LifeInv'
<1> USE DEF LifeInv, world
<1> DEFINE s == InitialState(c, named, seed, kept)
           r == Route(s.night_shift_active, s.utility_command, PhaseFor(c))
<1>0. /\ turn # "running" /\ run < MaxRuns /\ run' = run + 1 /\ route' = r
      /\ at' = Entry(r, s.utility_command) /\ turn' = "running" /\ state' = s /\ kept' = s
      /\ cut' = IF turn = "rest" THEN cut ELSE cut \cup {run}
      /\ UNCHANGED <<register, main, consents, passed>>
  BY DEF Command
<1>1. /\ s \in PDLCState /\ s.version = kept.version /\ s.deploy_target = kept.deploy_target
      /\ s.night_shift_active = (c = "night-shift")
  BY StartHasType DEF TypeOK
<1> HIDE DEF s
<1>2. /\ r \in {"init", "brainstorm", "build", "ship", "night_shift", "utility"}
      /\ r = "night_shift" <=> s.night_shift_active
      /\ r = "utility" => s.utility_command \in Utilities
  BY <1>1 DEF Route, PDLCState
<1> HIDE DEF r
<1>3. /\ at' \in Nodes \ {"end"} /\ (at' \in Shift <=> r = "night_shift")
      /\ r = "night_shift" => at' = "preflight"
      /\ at' \notin {"merge_deploy_gate", "execute"} \cup Probing \cup Judging
  BY <1>0, <1>2, EntryIs
<1>4. TypeOK'
  <2>1. run \in 0 .. MaxRuns /\ run + 1 \in 0 .. MaxRuns
    BY <1>0, LifecycleAssumption DEF TypeOK
  <2>2. cut' \subseteq 1 .. MaxRuns
    BY <1>0, <2>1 DEF TypeOK, ThreadIsSomewhere
  <2> QED BY <1>0, <1>1, <1>2, <1>3, <2>1, <2>2 DEF TypeOK
<1>5. ThreadIsSomewhere' /\ Safety'
  BY <1>0, <1>1, <1>3 DEF ThreadIsSomewhere, Safety, TargetsAreSafe, NoProductionDeploy, TypeOK
<1>6. Versions'
  <2>1. /\ run \in Nat /\ kept.version \in Nat /\ state.version \in Nat
        /\ \A d \in Shipments : d.run \in Nat /\ d.version \in Nat /\ d.run <= run
    BY DEF TypeOK, PDLCState, Shipments, Versions, ShipsOnce
  <2>2. ShipsOnce'
    BY <1>0, <2>1 DEF ShipsOnce, Shipments
  <2>3. VersionsGrow'
    <3>1. ASSUME Unrolled, NEW d \in Shipments, d.run \notin cut'
          PROVE  d.version <= kept.version
      <4>1. CASE d.run < run
        BY <1>0, <3>1, <4>1 DEF Versions, VersionsGrow
      <4>2. CASE d.run = run
        BY <1>0, <3>1, <4>2 DEF Versions, VersionsGrow
      <4> QED BY <2>1, <4>1, <4>2
    <3> QED BY <1>0, <1>1, <1>3, <2>1, <3>1 DEF VersionsGrow, Shipments, Unrolled
  <2>4. VersionsAreNew'
    BY <1>0 DEF Versions, VersionsAreNew
  <2> QED BY <2>2, <2>3, <2>4 DEF Versions
<1>7. Consents'
  BY <1>0, <1>3 DEF Consents, NothingShipsUnasked, ApprovedHere, Agreed
<1>8. ShiftInv'
  <2>1. "preflight" \notin Autonomous \cup Shifting
    BY PlacesAre DEF Building, Choosing, Probing, Judging, Shifting
  <2>2. ShiftIsOne'
    BY <1>0, <1>1, <1>2, <1>3, <2>1 DEF ShiftIsOne
  <2>3. ShiftHasShipped'
    <3>1. at' \notin {"sentinel_after_ship", "completed"}
      BY <1>3 DEF Shift, Shifting
    <3> QED BY <1>3, <3>1 DEF ShiftHasShipped
  <2> QED BY <1>0, <2>2, <2>3 DEF ShiftInv, OneHumanGate, CompletedMeansShipped
<1> QED BY <1>4, <1>5, <1>6, <1>7, <1>8

-----------------------------------------------------------------------------
LEMMA PlainNodesAre ==
    ASSUME \/ Initialization \/ Construction \/ Inception
           \/ UxVerify \/ RetroAndEpisode \/ EpisodeGate
    PROVE  EdgeCaseAnalysis \/ Decompose \/ WrapUp \/ \E n \in Plain : Pass(n)
<1> USE DEF Plain, Inceptive, Building, Judging
<1>1. CASE Initialization
  BY <1>1 DEF Initialization, Gather, Author, InitGate
<1>2. CASE Construction
  BY <1>2 DEF Construction, BuildPreflight, BuildLoop, ReviewParty, ReviewGate, TestPhase
<1>3. CASE Inception
  BY <1>3 DEF Inception, DiscoverGraph, DefineGraph, DesignGraph, PlanGraph, DivergentIdeation,
     SocraticDiscovery, ProgressiveThinking, AdversarialReview, UxDiscovery, Synthesis,
     DiscoverGate, DefinePrd, PrdGate, CreateDesignDir, BloomsDesign, GenerateDocs, ThreatModel,
     DesignLaws, UpdateLinks, DesignGate, CreateTasks,
     DeclareDeps, BuildTree, RenderPlanFile, PlanGate, PlanWrapUp
<1>4. CASE UxVerify \/ RetroAndEpisode \/ EpisodeGate
  BY <1>4 DEF UxVerify, RetroAndEpisode, EpisodeGate
<1> QED BY <1>1, <1>2, <1>3, <1>4

LEMMA LifeNext == LifeInv /\ [Next]_vars => LifeInv'
<1> SUFFICES ASSUME LifeInv, [Next]_vars PROVE LifeInv'
  OBVIOUS
<1>1. ASSUME NEW c \in Commands, NEW named \in BOOLEAN, NEW seed \in Seeds, Command(c, named, seed)
      PROVE  LifeInv'
  BY <1>1, CommandKeeps
<1>2. CASE Interrupt
  BY <1>2, InterruptKeeps
<1>3. CASE Initialization \/ Inception \/ Construction
  BY <1>3, PlainNodesAre, PassKeeps, QuietNodesKeep
<1>4. CASE Operation
  <2>1. CASE UxVerify \/ RetroAndEpisode \/ EpisodeGate
    BY <2>1, PlainNodesAre, PassKeeps, QuietNodesKeep
  <2>2. CASE Prepare
    BY <2>2, PrepareKeeps
  <2>3. CASE Execute
    BY <2>3, ExecuteKeeps
  <2>4. CASE MetricsAndWrapup
    BY <2>4, QuietNodesKeep
  <2>5. CASE \E ok \in BOOLEAN : MergeDeployGate(ok) \/ SmokeGate(ok)
    BY <2>5, MergeDeployGateKeeps, QuietNodesKeep
  <2>6. CASE \E scan \in {"none", "clean", "found"} : SecurityChecks(scan)
    BY <2>6, QuietNodesKeep
  <2>7. CASE \E result \in {"pass", "fail"} : SmokeTests(result)
    BY <2>7, SmokeTestsKeep
  <2> QED
    BY <1>4, <2>1, <2>2, <2>3, <2>4, <2>5, <2>6, <2>7
    DEF Operation, ShipGraph, VerifyGraph, ReflectGraph
<1>5. CASE NightShift
  <2>1. CASE Preflight \/ Activate
    BY <2>1, QuietNodesKeep
  <2>2. CASE SentinelAfterBuild \/ SentinelAfterShip
    BY <2>2, SentinelKeeps
  <2>3. CASE \E ok \in BOOLEAN : ContractParty(ok)
    BY <2>3, ContractKeeps
  <2>4. CASE \E n \in {"completed", "aborted", "declined"} : Outcome(n)
    BY <2>4, OutcomeKeeps
  <2> QED BY <1>5, <2>1, <2>2, <2>3, <2>4 DEF NightShift
<1>6. CASE Utility
  BY <1>6, HotfixKeeps, RollbackKeeps, QuietNodesKeep DEF Utility
<1>7. CASE Break
  BY <1>7, BreakKeeps
<1>8. CASE UNCHANGED vars
  <2> USE DEF vars, control, world, history
  <2>1. TypeOK' /\ ThreadIsSomewhere' /\ Safety'
    BY <1>8 DEF LifeInv, TypeOK, ThreadIsSomewhere, Safety, TargetsAreSafe, NoProductionDeploy
  <2>2. Versions' /\ Consents'
    BY <1>8 DEF LifeInv, Versions, ShipsOnce, VersionsGrow, VersionsAreNew, Shipments, Unrolled,
       Consents, NothingShipsUnasked, ApprovedHere, Agreed
  <2>3. ShiftInv'
    BY <1>8 DEF LifeInv, ShiftInv, ShiftIsOne, OneHumanGate, ShiftHasShipped,
       CompletedMeansShipped, Agreed
  <2> QED BY <2>1, <2>2, <2>3 DEF LifeInv
<1> QED
  BY <1>1, <1>2, <1>3, <1>4, <1>5, <1>6, <1>7, <1>8 DEF Next, Node

\* Whatever a sequence of commands leaves in the thread, and wherever a run breaks:
\* every deployment and merge of Operation, on its own or in a night shift, was
\* agreed to by a human in its run, is not in production, and has a new version.
THEOREM ShipmentsAreAgreed == Spec => []ShipsAsAgreed
<1>1. LifeInv => ShipsAsAgreed
  BY DEF LifeInv, ShipsAsAgreed, Consents, Safety, Versions
<1> QED BY <1>1, LifeInit, LifeNext, PTL DEF Spec

\* The night shift decides nothing before a human accepted its contract, waits for
\* none afterwards, and calls a run completed that shipped and passed its checks.
THEOREM NightShiftIsTrue == Spec => []NightShiftKeepsItsWord
<1>1. LifeInv => NightShiftKeepsItsWord
  <2> SUFFICES ASSUME LifeInv PROVE NightShiftKeepsItsWord
    OBVIOUS
  <2>1. AutonomyNeedsContract
    <3> SUFFICES ASSUME state.night_shift_active, at \in Autonomous PROVE Agreed(run, "contract")
      BY DEF AutonomyNeedsContract
    <3>1. turn # "rest"
      BY PlacesAre DEF LifeInv, ThreadIsSomewhere, Building, Choosing, Probing, Judging
    <3> QED BY <3>1 DEF LifeInv, ShiftInv, ShiftIsOne
  <2> QED BY <2>1 DEF LifeInv, ShiftInv, NightShiftKeepsItsWord
<1> QED BY <1>1, LifeInit, LifeNext, PTL DEF Spec

-----------------------------------------------------------------------------
(* The inductive invariant of an organization's entities and imports.      *)

\* What is drawn for an import is its application; a row under way keeps its token,
\* and no token is kept under an id not yet drawn.
TokensKept ==
    \A k \in Ids :
        /\ rows[k].kind \in {"drawn", "repository"} /\ rows[k].token # "none" =>
               (k \in secrets <=> rows[k].token = "stored")
        /\ k \in secrets => rows[k].kind # "unused"
RowsHold ==
    /\ rows \in [Ids -> RowType] /\ secrets \subseteq Ids
    /\ ReferencesHold
    /\ TokensKept
    /\ \A k \in Ids : rows[k].kind = "drawn" =>
           /\ rows[k].repo = None
           /\ rows[k].by \in Imports => import[rows[k].by].pc = "resolve" /\ rows[k].token = "none"

\* Two applications of one name, created or under way.
Applying(k) == rows[k].kind = "application" \/ (rows[k].kind = "drawn" /\ rows[k].by \in Imports)
TwinsHold ==
    \A j, k \in Ids :
        j # k /\ Applying(j) /\ Applying(k) /\ rows[j].name = rows[k].name =>
            {rows[j].by, rows[k].by} \subseteq Imports /\ Overlapped(rows[j].by, rows[k].by)

\* Imports that run at once know of each other; those of the past are over.
MeetsHold ==
    /\ \A i, j \in Running : i # j => Overlapped(i, j)
    /\ \A i \in Imports : /\ import[i].pc = "idle" => import[i].met = {}
                          /\ i \notin import[i].past
                          /\ \A j \in import[i].past : import[j].pc \in Over

\* A document an import has written it, or a later one, or a turn has written last.
FilesHold ==
    \A i \in Imports :
        /\ import[i].pc = "done" => import[i].files = {}
        /\ import[i].pc # "idle" =>
               \A d \in import[i].payload.documents \ import[i].files :
                   documents[d] \notin import[i].past

\* An event is marked as seen before it is there; an import that has looked at an
\* event has it marked, and whoever marks an event adds it or fails.
SeenHolds ==
    /\ \A x \in events : x.id \in seen
    /\ \A e \in seen : (\E x \in events : x.id = e) \/ \E j \in Imports : import[j].event = e
    /\ \A i \in Imports : import[i].pc = "append" => import[i].event \in seen
    /\ mode # "postgres" =>
           \A i \in Imports :
               /\ import[i].pc \in {"ingest", "append", "write", "done"} =>
                      import[i].payload.events \ import[i].todo \subseteq seen
               /\ import[i].pc \in {"look up", "resolve", "count"} =>
                      import[i].payload.events \ import[i].todo = {}
               /\ import[i].pc \in {"write", "done"} => import[i].todo = {}
               /\ import[i].pc = "mark" =>
                      import[i].payload.events \ (import[i].todo \cup {import[i].event}) \subseteq seen

\* With analytics in Postgres no event of an import is ever on its way.
Batching == \E i \in Imports : import[i].pc \in {"mark", "append"}
NoneLand == mode = "postgres" => events = {} /\ ~Batching

\* An import adds an event once; two that add the same one overlap.
Adding(i) == import[i].pc \in {"mark", "append"}
By(i)     == {x \in events : x.by = i}
EventsHold ==
    /\ \A x, y \in events : x.id = y.id /\ x.by = y.by => x = y
    /\ \A i \in Imports :
           /\ Adding(i) => import[i].event \in Events \ import[i].todo
           /\ import[i].pc \notin {"mark", "append", "failed"} => import[i].event = None
    /\ \A x \in events :
           /\ import[x.by].pc \notin {"idle", "look up", "resolve", "count"}
           /\ x.id \notin import[x.by].todo
           /\ Adding(x.by) => x.id # import[x.by].event
    /\ \A i \in Imports : \A x \in events :
           Adding(i) /\ x.id = import[i].event /\ x.by # i => Overlapped(x.by, i)

\* Between its two counts an import has added what the store has grown by.
NumbersHold ==
    /\ live \in Nat /\ requests \in Nat /\ live <= requests /\ requests <= MaxRequests
    /\ IsFiniteSet(events)
    /\ \A i \in Imports :
           /\ import[i].count \in Nat /\ import[i].count <= Total
           /\ import[i].pc \in {"ingest", "mark", "append"} /\ ~import[i].mixed =>
                  import[i].count + Cardinality(By(i)) = Total

\* What an import has found is or was there, unless its transaction failed.
Known(k) == k = None \/ rows[k].kind \in Kinds \cup {"gone"}
FoundHolds ==
    \A i \in Imports :
        /\ import[i].pc \in {"idle", "look up"} =>
               import[i].initiative = None /\ import[i].application = None
        /\ import[i].pc = "resolve" =>
               /\ Known(import[i].initiative)
               /\ Known(import[i].application) \/ import[i].application \in Drawn(i)
        /\ import[i].pc \in {"count", "ingest", "mark", "append"} =>
               (Known(import[i].initiative) /\ Known(import[i].application)) \/ import[i].unsure

WorkspaceInv ==
    /\ WorkspaceTypeOK /\ RowsHold /\ TwinsHold
    /\ MeetsHold /\ FilesHold /\ SeenHolds /\ EventsHold /\ NumbersHold /\ FoundHolds
    /\ LandsOnce /\ CountsAreTrue /\ DimensionsExist /\ NoneLand

-----------------------------------------------------------------------------
(* The steps of an import.                                                 *)

\* An import but for the bound on its count.
Shape ==
    [pc : {"idle", "look up", "resolve", "count", "ingest", "mark", "append",
           "write", "done", "failed"}, payload : Payloads,
     initiative : Ids \cup {None}, application : Ids \cup {None},
     event : Events \cup {None}, todo : SUBSET Events, files : SUBSET Documents, count : Int,
     met : SUBSET Imports, past : SUBSET Imports, mixed : BOOLEAN, unsure : BOOLEAN]
Shaped == import \in [Imports -> Shape]

\* Another import goes on: it hears of one that starts, or of an event that is added.
Rests(j) ==
    /\ import'[j].pc = import[j].pc /\ import'[j].payload = import[j].payload
    /\ import'[j].initiative = import[j].initiative /\ import'[j].application = import[j].application
    /\ import'[j].event = import[j].event /\ import'[j].todo = import[j].todo
    /\ import'[j].files = import[j].files /\ import'[j].count = import[j].count
    /\ import[j].met \subseteq import'[j].met /\ import'[j].past = import[j].past
    /\ import[j].pc = "idle" => import'[j].met = import[j].met
    /\ import[j].mixed => import'[j].mixed
    /\ import'[j].unsure = import[j].unsure

\* An import takes a step.
Moves(i, from, to) ==
    /\ import' \in [Imports -> Shape]
    /\ \A j \in Imports : j # i => Rests(j)
    /\ import[i].pc = from /\ import'[i].pc = to /\ import'[i].payload = import[i].payload
    /\ import'[i].met = import[i].met /\ import'[i].past = import[i].past
    /\ import'[i].mixed = import[i].mixed
    /\ import[i].unsure => import'[i].unsure
KeepsFound(i) == /\ import'[i].initiative = import[i].initiative
                 /\ import'[i].application = import[i].application
KeepsBatch(i) == import'[i].event = import[i].event /\ import'[i].todo = import[i].todo
KeepsFiles(i) == import'[i].files = import[i].files
KeepsCount(i) == import'[i].count = import[i].count

LEMMA SameRests == ASSUME NEW j, import'[j] = import[j] PROVE Rests(j)
  BY DEF Rests

\* One step for all of them: what import i becomes.
Becomes(i, r) ==
    /\ r \in Shape /\ r.payload = import[i].payload /\ r.met = import[i].met
    /\ r.past = import[i].past /\ r.mixed = import[i].mixed
    /\ import[i].unsure => r.unsure

LEMMA BecomesIs ==
    ASSUME Shaped, NEW i \in Imports, NEW r, Becomes(i, r), import' = [import EXCEPT ![i] = r]
    PROVE  Moves(i, import[i].pc, r.pc) /\ import'[i] = r
<1>1. /\ import' \in [Imports -> Shape] /\ import'[i] = r
      /\ \A j \in Imports : j # i => import'[j] = import[j]
  BY DEF Shaped, Becomes
<1> QED BY <1>1, SameRests DEF Moves, Becomes

LEMMA GotoIs ==
    ASSUME Shaped, NEW i \in Imports,
           NEW to \in {"count", "ingest", "append", "write", "done", "failed"}, Goto(i, to)
    PROVE  /\ Moves(i, import[i].pc, to) /\ KeepsFound(i) /\ KeepsBatch(i) /\ KeepsFiles(i)
           /\ KeepsCount(i) /\ import'[i].unsure = import[i].unsure
<1> DEFINE r == [import[i] EXCEPT !.pc = to]
<1>1. import' = [import EXCEPT ![i] = r] /\ import[i] \in Shape
  BY DEF Goto, Shaped
<1>2. Becomes(i, r) /\ r.pc = to
  BY <1>1 DEF Shape, Becomes
<1>3. /\ r.initiative = import[i].initiative /\ r.application = import[i].application
      /\ r.event = import[i].event /\ r.todo = import[i].todo /\ r.files = import[i].files
      /\ r.count = import[i].count /\ r.unsure = import[i].unsure
  BY <1>1 DEF Shape
<1> HIDE DEF r
<1> QED BY <1>1, <1>2, <1>3, BecomesIs DEF KeepsFound, KeepsBatch, KeepsFiles, KeepsCount

LEMMA ChosenIs ==
    ASSUME Shaped, NEW i \in Imports, NEW n, NEW a \in Ids \cup {None}, NEW b \in Ids \cup {None},
           Chosen(i, n, a, b)
    PROVE  /\ Moves(i, import[i].pc, "resolve") /\ KeepsBatch(i) /\ KeepsFiles(i) /\ KeepsCount(i)
           /\ import'[i].initiative = a /\ import'[i].application = b
<1> DEFINE r == [import[i] EXCEPT !.pc = "resolve", !.initiative = a, !.application = b]
<1>1. import' = [import EXCEPT ![i] = r] /\ import[i] \in Shape
  BY DEF Chosen, Shaped
<1>2. Becomes(i, r) /\ r.pc = "resolve"
  BY <1>1 DEF Shape, Becomes
<1>3. /\ r.initiative = a /\ r.application = b /\ r.event = import[i].event
      /\ r.todo = import[i].todo /\ r.files = import[i].files /\ r.count = import[i].count
  BY <1>1 DEF Shape
<1> HIDE DEF r
<1> QED BY <1>1, <1>2, <1>3, BecomesIs DEF KeepsBatch, KeepsFiles, KeepsCount

LEMMA ResolveFailsIs ==
    ASSUME Shaped, NEW i \in Imports, ResolveFails(i)
    PROVE  /\ Moves(i, "resolve", "count") /\ KeepsBatch(i) /\ KeepsFiles(i) /\ KeepsCount(i)
           /\ import'[i].unsure
<1>1. PICK found \in {<<None, None>>, <<import[i].initiative, None>>,
                      <<import[i].initiative, import[i].application>>} :
          import' = [import EXCEPT ![i].pc = "count", ![i].unsure = TRUE,
                                   ![i].initiative = found[1], ![i].application = found[2]]
  BY DEF ResolveFails
<1>2. import[i] \in Shape /\ import[i].pc = "resolve"
  BY DEF ResolveFails, Shaped
<1>3. found[1] \in Ids \cup {None} /\ found[2] \in Ids \cup {None}
  <2>1. import[i].initiative \in Ids \cup {None} /\ import[i].application \in Ids \cup {None}
    BY <1>2 DEF Shape
  <2>2. CASE found = <<None, None>>
    BY <2>2
  <2>3. CASE found = <<import[i].initiative, None>>
    BY <2>1, <2>3
  <2>4. CASE found = <<import[i].initiative, import[i].application>>
    BY <2>1, <2>4
  <2> QED BY <1>1, <2>2, <2>3, <2>4
<1> DEFINE a == found[1]
           b == found[2]
           r == [import[i] EXCEPT !.pc = "count", !.unsure = TRUE, !.initiative = a, !.application = b]
<1>4. import' = [import EXCEPT ![i] = r] /\ a \in Ids \cup {None} /\ b \in Ids \cup {None}
  BY <1>1, <1>3 DEF Shaped
<1> HIDE DEF a, b
<1>5. Becomes(i, r) /\ r.pc = "count"
  BY <1>2, <1>4 DEF Shape, Becomes
<1>6. /\ r.unsure /\ r.event = import[i].event
      /\ r.todo = import[i].todo /\ r.files = import[i].files /\ r.count = import[i].count
  BY <1>2 DEF Shape
<1> HIDE DEF r
<1> QED BY <1>2, <1>4, <1>5, <1>6, BecomesIs DEF KeepsBatch, KeepsFiles, KeepsCount

LEMMA CountIs ==
    ASSUME Shaped, NEW i \in Imports, Count(i), Total \in Int
    PROVE  /\ Moves(i, "count", "ingest") /\ KeepsFound(i) /\ KeepsBatch(i) /\ KeepsFiles(i)
           /\ import'[i].count = Total /\ import'[i].unsure = import[i].unsure
<1> DEFINE c == Total
           r == [import[i] EXCEPT !.pc = "ingest", !.count = c]
<1>1. /\ import' = [import EXCEPT ![i] = r] /\ import[i] \in Shape /\ c \in Int
      /\ import[i].pc = "count"
  BY DEF Count, Shaped
<1> HIDE DEF c
<1>2. Becomes(i, r) /\ r.pc = "ingest"
  BY <1>1 DEF Shape, Becomes
<1>3. /\ r.initiative = import[i].initiative /\ r.application = import[i].application
      /\ r.event = import[i].event /\ r.todo = import[i].todo /\ r.files = import[i].files
      /\ r.count = c /\ r.unsure = import[i].unsure
  BY <1>1 DEF Shape
<1> HIDE DEF r
<1> QED BY <1>1, <1>2, <1>3, BecomesIs DEF KeepsFound, KeepsBatch, KeepsFiles, KeepsCount, c

\* The look at an event.
LEMMA CheckIs ==
    ASSUME Shaped, NEW i \in Imports, Check(i)
    PROVE  \E e \in import[i].todo :
               /\ Moves(i, "ingest", IF e \in seen THEN "ingest" ELSE "mark")
               /\ KeepsFound(i) /\ KeepsFiles(i) /\ KeepsCount(i)
               /\ import'[i].unsure = import[i].unsure
               /\ import'[i].todo = import[i].todo \ {e} /\ e \in Events
               /\ import'[i].event = IF e \in seen THEN import[i].event ELSE e
<1>1. import[i] \in Shape /\ import[i].pc = "ingest"
  BY DEF Check, Shaped
<1>2. PICK e \in import[i].todo :
          import' = IF e \in seen THEN [import EXCEPT ![i].todo = @ \ {e}]
                    ELSE [import EXCEPT ![i].pc = "mark", ![i].event = e, ![i].todo = @ \ {e}]
  BY DEF Check
<1>3. e \in Events /\ import[i].todo \ {e} \in SUBSET Events
  BY <1>1 DEF Shape
<1> DEFINE todo == import[i].todo \ {e}
           p == IF e \in seen THEN "ingest" ELSE "mark"
           v == IF e \in seen THEN import[i].event ELSE e
           r == [import[i] EXCEPT !.pc = p, !.event = v, !.todo = todo]
<1>4. import' = [import EXCEPT ![i] = r]
  <2>1. CASE e \in seen
    <3>1. [import[i] EXCEPT !.todo = todo] = r
      BY <1>1, <2>1 DEF Shape
    <3>2. import' = [import EXCEPT ![i] = [import[i] EXCEPT !.todo = todo]]
      BY <1>2, <2>1 DEF Shaped
    <3> QED BY <3>1, <3>2
  <2>2. CASE e \notin seen
    <3>1. [import[i] EXCEPT !.pc = "mark", !.event = e, !.todo = todo] = r
      BY <2>2
    <3>2. import' = [import EXCEPT ![i] = [import[i] EXCEPT !.pc = "mark", !.event = e, !.todo = todo]]
      BY <1>2, <2>2 DEF Shaped
    <3> QED BY <3>1, <3>2
  <2> QED BY <2>1, <2>2
<1>5. p \in {"ingest", "mark"} /\ v \in Events \cup {None} /\ todo \in SUBSET Events
  BY <1>1, <1>3 DEF Shape
<1> HIDE DEF p, v, todo
<1>6. Becomes(i, r) /\ r.pc = p
  BY <1>1, <1>5 DEF Shape, Becomes
<1>7. /\ r.initiative = import[i].initiative /\ r.application = import[i].application
      /\ r.event = v /\ r.todo = todo /\ r.files = import[i].files
      /\ r.count = import[i].count /\ r.unsure = import[i].unsure
  BY <1>1 DEF Shape
<1> HIDE DEF r
<1>8. /\ Moves(i, "ingest", p) /\ KeepsFound(i) /\ KeepsFiles(i) /\ KeepsCount(i)
      /\ import'[i].unsure = import[i].unsure /\ import'[i].todo = todo /\ import'[i].event = v
  BY <1>1, <1>4, <1>6, <1>7, BecomesIs DEF KeepsFound, KeepsFiles, KeepsCount
<1> QED BY <1>2, <1>3, <1>8 DEF p, v, todo

LEMMA CountAgainIs ==
    ASSUME Shaped, NEW i \in Imports, CountAgain(i), Total \in Int
    PROVE  /\ Moves(i, "ingest", "write") /\ KeepsFound(i) /\ KeepsFiles(i)
           /\ import'[i].count = Total - import[i].count /\ import'[i].unsure = import[i].unsure
           /\ import'[i].todo = {} /\ import'[i].event = import[i].event
           /\ mode # "postgres" => import[i].todo = {}
<1> DEFINE c == Total - import[i].count
           r == [import[i] EXCEPT !.pc = "write", !.count = c, !.todo = {}]
<1>1. import' = [import EXCEPT ![i] = r] /\ import[i] \in Shape /\ import[i].pc = "ingest"
  BY DEF CountAgain, Shaped
<1>2. c \in Int
  <2>1. import[i].count \in Int
    BY <1>1 DEF Shape
  <2> QED BY <2>1
<1> HIDE DEF c
<1>3. Becomes(i, r) /\ r.pc = "write"
  BY <1>1, <1>2 DEF Shape, Becomes
<1>4. /\ r.initiative = import[i].initiative /\ r.application = import[i].application
      /\ r.event = import[i].event /\ r.todo = {} /\ r.files = import[i].files
      /\ r.count = c /\ r.unsure = import[i].unsure
  BY <1>1 DEF Shape
<1>5. mode # "postgres" => import[i].todo = {}
  BY DEF CountAgain
<1> HIDE DEF r
<1> QED BY <1>1, <1>3, <1>4, <1>5, BecomesIs DEF KeepsFound, KeepsFiles, c

LEMMA PutIs ==
    ASSUME Shaped, NEW i \in Imports, NEW d \in Documents, PutArtifact(i, d)
    PROVE  /\ Moves(i, "write", "write") /\ KeepsFound(i) /\ KeepsBatch(i) /\ KeepsCount(i)
           /\ import'[i].files = import[i].files \ {d} /\ import'[i].unsure = import[i].unsure
           /\ documents' = [documents EXCEPT ![d] = i]
<1> DEFINE f == import[i].files \ {d}
           r == [import[i] EXCEPT !.files = f]
<1>1. /\ import' = [import EXCEPT ![i] = r] /\ import[i] \in Shape /\ import[i].pc = "write"
      /\ documents' = [documents EXCEPT ![d] = i]
  BY DEF PutArtifact, Shaped, Put
<1>2. f \in SUBSET Documents
  BY <1>1 DEF Shape
<1> HIDE DEF f
<1>3. Becomes(i, r) /\ r.pc = "write"
  BY <1>1, <1>2 DEF Shape, Becomes
<1>4. /\ r.initiative = import[i].initiative /\ r.application = import[i].application
      /\ r.event = import[i].event /\ r.todo = import[i].todo /\ r.files = f
      /\ r.count = import[i].count /\ r.unsure = import[i].unsure
  BY <1>1 DEF Shape
<1> HIDE DEF r
<1>5. Moves(i, "write", "write") /\ import'[i] = r
  BY <1>1, <1>3, BecomesIs
<1> QED BY <1>1, <1>4, <1>5 DEF KeepsFound, KeepsBatch, KeepsCount, f

LEMMA PayloadsAre ==
    ASSUME NEW p \in Payloads PROVE p.events \in SUBSET Events /\ p.documents \in SUBSET Documents
  BY DEF Payloads, Push, Sent

LEMMA WaitingIs == Waiting \in Shape
<1>1. ASSUME NEW z \in Int, NEW p \in Payloads
      PROVE  [pc |-> "idle", payload |-> p, initiative |-> None, application |-> None, event |-> None,
              todo |-> {}, files |-> {}, count |-> z,
              met |-> {}, past |-> {}, mixed |-> FALSE, unsure |-> FALSE] \in Shape
  BY DEF Shape
<1>2. Push \in Payloads
  BY DEF Payloads
<1>3. 0 \in Int
  OBVIOUS
<1> QED BY <1>1, <1>2, <1>3, Zenon DEF Waiting

LEMMA StartLeaves ==
    ASSUME NEW i, NEW payload, Start(i, payload)
    PROVE  mode' = mode /\ seen' = seen /\ events' = events
<1>1. UNCHANGED <<mode, tables, analytics, documents>>
  BY Zenon DEF Start
<1>2. mode' = mode /\ analytics' = analytics
  BY <1>1
<1> QED BY <1>2 DEF analytics

LEMMA StartIs ==
    ASSUME Shaped, NEW i \in Imports, NEW payload \in Payloads, Start(i, payload)
    PROVE  /\ import' \in [Imports -> Shape]
           /\ \A j \in Imports : j # i => /\ Rests(j) /\ import'[j].mixed = import[j].mixed
                                          /\ j \in Running => i \in import'[j].met
           /\ import[i].pc = "idle" /\ import'[i].pc \in {"look up", "count"}
           /\ import'[i].payload = payload
           /\ import'[i].todo = payload.events /\ import'[i].files = payload.documents
           /\ import'[i].initiative = None /\ import'[i].application = None
           /\ import'[i].event = None /\ import'[i].count = 0
           /\ import'[i].met = Running /\ import'[i].past = {k \in Imports : import[k].pc \in Over}
<1> DEFINE first == IF payload.names # {} /\ mode # "memory" THEN "look up" ELSE "count"
           past  == {k \in Imports : import[k].pc \in Over}
           others   == Running
           new   == [Waiting EXCEPT !.pc = first, !.payload = payload, !.todo = payload.events,
                                    !.files = payload.documents, !.met = others, !.past = past]
<1>1. /\ import[i].pc = "idle"
      /\ import' = [j \in Imports |-> IF j = i THEN new
                        ELSE IF j \in others THEN [import[j] EXCEPT !.met = @ \cup {i}] ELSE import[j]]
  BY DEF Start
<1>2. first \in {"look up", "count"} /\ others \in SUBSET Imports /\ past \in SUBSET Imports
  BY DEF Running
<1>3. payload.events \in SUBSET Events /\ payload.documents \in SUBSET Documents
  BY PayloadsAre
<1> DEFINE evs == payload.events
           docs == payload.documents
           old == [Waiting EXCEPT !.pc = first, !.payload = payload, !.todo = evs,
                                  !.files = docs, !.met = others, !.past = past]
<1>5. new = old
  OBVIOUS
<1>6. evs \in SUBSET Events /\ docs \in SUBSET Documents
  BY <1>3
<1> HIDE DEF first, others, past, evs, docs
<1>7. old \in Shape
  BY <1>2, <1>6, WaitingIs DEF Shape
<1>8. /\ old.pc = first /\ old.payload = payload /\ old.todo = evs /\ old.files = docs
      /\ old.met = others /\ old.past = past /\ old.initiative = None /\ old.application = None
      /\ old.event = None /\ old.count = 0
  BY DEF Waiting
<1> HIDE DEF new, old
<1>9. ASSUME NEW j \in Imports
      PROVE  /\ [import[j] EXCEPT !.met = @ \cup {i}] \in Shape /\ import[j] \in Shape
             /\ LET g == [import[j] EXCEPT !.met = @ \cup {i}] IN
                /\ g.pc = import[j].pc /\ g.payload = import[j].payload
                /\ g.initiative = import[j].initiative /\ g.application = import[j].application
                /\ g.event = import[j].event /\ g.todo = import[j].todo
                /\ g.files = import[j].files /\ g.count = import[j].count
                /\ g.met = import[j].met \cup {i} /\ g.past = import[j].past
                /\ g.mixed = import[j].mixed /\ g.unsure = import[j].unsure
  <2>1. import[j] \in Shape
    BY DEF Shaped
  <2>2. import[j].met \cup {i} \in SUBSET Imports
    BY <2>1 DEF Shape
  <2>3. [import[j] EXCEPT !.met = @ \cup {i}] \in Shape
    BY <2>1, <2>2 DEF Shape
  <2> QED BY <2>1, <2>3 DEF Shape
<1>10. import' \in [Imports -> Shape]
  <2>1. \A j \in Imports : import'[j] \in Shape
    BY <1>1, <1>5, <1>7, <1>9
  <2> QED BY <1>1, <2>1
<1>11. ASSUME NEW j \in Imports, j # i
       PROVE  /\ Rests(j) /\ import'[j].mixed = import[j].mixed
              /\ j \in others => i \in import'[j].met
  <2>1. CASE j \in others
    <3>1. import'[j] = [import[j] EXCEPT !.met = @ \cup {i}]
      BY <1>1, <1>11, <2>1
    <3>2. import[j].pc # "idle"
      BY <2>1 DEF others, Running
    <3> QED BY <1>9, <3>1, <3>2 DEF Rests
  <2>2. CASE j \notin others
    <3>1. import'[j] = import[j]
      BY <1>1, <1>11, <2>2
    <3> QED BY <2>2, <3>1, SameRests
  <2> QED BY <2>1, <2>2
<1>12. import'[i] = old
  BY <1>1, <1>5
<1> QED BY <1>1, <1>2, <1>8, <1>10, <1>11, <1>12 DEF others, past, evs, docs

\* An event is added: who counts at the time knows that his counts are mixed.
Hears(j) ==
    /\ Rests(j)
    /\ IF import[j].pc \in {"ingest", "mark", "append"} THEN import'[j].mixed
       ELSE import'[j].mixed = import[j].mixed

LEMMA MixedIs ==
    ASSUME Shaped, NEW by
    PROVE  /\ Mixed(by) \in [Imports -> Shape]
           /\ \A j \in Imports :
                  /\ Mixed(by)[j].pc = import[j].pc /\ Mixed(by)[j].payload = import[j].payload
                  /\ Mixed(by)[j].initiative = import[j].initiative
                  /\ Mixed(by)[j].application = import[j].application
                  /\ Mixed(by)[j].event = import[j].event /\ Mixed(by)[j].todo = import[j].todo
                  /\ Mixed(by)[j].files = import[j].files /\ Mixed(by)[j].count = import[j].count
                  /\ Mixed(by)[j].met = import[j].met /\ Mixed(by)[j].past = import[j].past
                  /\ Mixed(by)[j].unsure = import[j].unsure
                  /\ import[j].mixed => Mixed(by)[j].mixed
                  /\ IF j # by /\ import[j].pc \in {"ingest", "mark", "append"} THEN Mixed(by)[j].mixed
                     ELSE Mixed(by)[j] = import[j]
<1>1. ASSUME NEW j \in Imports
      PROVE  /\ [import[j] EXCEPT !.mixed = TRUE] \in Shape /\ import[j] \in Shape
             /\ LET g == [import[j] EXCEPT !.mixed = TRUE] IN
                /\ g.pc = import[j].pc /\ g.payload = import[j].payload
                /\ g.initiative = import[j].initiative /\ g.application = import[j].application
                /\ g.event = import[j].event /\ g.todo = import[j].todo
                /\ g.files = import[j].files /\ g.count = import[j].count
                /\ g.met = import[j].met /\ g.past = import[j].past
                /\ g.mixed /\ g.unsure = import[j].unsure
  <2>1. import[j] \in Shape
    BY DEF Shaped
  <2>2. ASSUME NEW b \in BOOLEAN, NEW g, g = [import[j] EXCEPT !.mixed = b]
        PROVE  /\ g \in Shape
               /\ g.pc = import[j].pc /\ g.payload = import[j].payload
               /\ g.initiative = import[j].initiative /\ g.application = import[j].application
               /\ g.event = import[j].event /\ g.todo = import[j].todo
               /\ g.files = import[j].files /\ g.count = import[j].count
               /\ g.met = import[j].met /\ g.past = import[j].past
               /\ g.mixed = b /\ g.unsure = import[j].unsure
    BY <2>1, <2>2 DEF Shape
  <2> QED BY <2>1, <2>2
<1>2. Mixed(by) = [j \in Imports |->
          IF j # by /\ import[j].pc \in {"ingest", "mark", "append"}
          THEN [import[j] EXCEPT !.mixed = TRUE] ELSE import[j]]
  BY DEF Mixed
<1> DEFINE m == Mixed(by)
<1>3. \A j \in Imports : m[j] \in Shape
  BY <1>1, <1>2
<1>4. m \in [Imports -> Shape]
  BY <1>2, <1>3
<1> QED BY <1>1, <1>2, <1>4

LEMMA AppendIs ==
    ASSUME Shaped, NEW i \in Imports, AppendEvent(i)
    PROVE  /\ import' \in [Imports -> Shape]
           /\ \A j \in Imports : j # i => Hears(j)
           /\ import[i].pc = "append" /\ import'[i].pc = "ingest"
           /\ import'[i].payload = import[i].payload /\ KeepsFound(i) /\ KeepsFiles(i)
           /\ import'[i].todo = import[i].todo /\ KeepsCount(i) /\ import'[i].met = import[i].met
           /\ import'[i].past = import[i].past /\ import'[i].mixed = import[i].mixed
           /\ import'[i].unsure = import[i].unsure
           /\ \E x : /\ events' = events \cup {x} /\ x.id = import[i].event /\ x.by = i
                     /\ x.initiative = import[i].initiative /\ x.application = import[i].application
                     /\ x = [id |-> x.id, by |-> x.by, initiative |-> x.initiative,
                             application |-> x.application]
<1> DEFINE m == Mixed(i)
           r == [import[i] EXCEPT !.pc = "ingest", !.event = None]
<1>1. /\ import' = [m EXCEPT ![i] = r] /\ m \in [Imports -> Shape]
      /\ import[i].pc = "append" /\ import[i] \in Shape
  <2>1. m \in [Imports -> Shape] /\ m[i] = import[i]
    BY MixedIs
  <2>2. import' = [m EXCEPT ![i] = [m[i] EXCEPT !.pc = "ingest", !.event = None]]
    BY <2>1 DEF AppendEvent
  <2> QED BY <2>1, <2>2 DEF AppendEvent, Shaped
<1> HIDE DEF m
<1>2. /\ r \in Shape /\ r.pc = "ingest" /\ r.payload = import[i].payload
      /\ r.initiative = import[i].initiative /\ r.application = import[i].application
      /\ r.todo = import[i].todo /\ r.files = import[i].files /\ r.count = import[i].count
      /\ r.met = import[i].met /\ r.past = import[i].past /\ r.mixed = import[i].mixed
      /\ r.unsure = import[i].unsure
  BY <1>1 DEF Shape
<1> HIDE DEF r
<1>3. import' \in [Imports -> Shape] /\ import'[i] = r /\ \A j \in Imports : j # i => import'[j] = m[j]
  BY <1>1, <1>2
<1>4. \A j \in Imports : j # i => Hears(j)
  <2> SUFFICES ASSUME NEW j \in Imports, j # i PROVE Hears(j)
    OBVIOUS
  <2>1. import'[j] = Mixed(i)[j]
    BY <1>3 DEF m
  <2> QED BY <2>1, MixedIs DEF Hears, Rests
<1>5. \E x : /\ events' = events \cup {x} /\ x.id = import[i].event /\ x.by = i
             /\ x.initiative = import[i].initiative /\ x.application = import[i].application
             /\ x = [id |-> x.id, by |-> x.by, initiative |-> x.initiative,
                     application |-> x.application]
  <2> WITNESS [id |-> import[i].event, by |-> i, initiative |-> import[i].initiative,
               application |-> import[i].application]
  <2> QED BY DEF AppendEvent
<1> QED BY <1>1, <1>2, <1>3, <1>4, <1>5 DEF KeepsFound, KeepsFiles, KeepsCount

LEMMA LiveIs ==
    ASSUME Shaped, LiveEvent
    PROVE  import' \in [Imports -> Shape] /\ \A j \in Imports : Hears(j)
<1>1. import' = Mixed(None) /\ \A j \in Imports : j # None
  BY WorkspaceAssumption DEF LiveEvent
<1> QED BY <1>1, MixedIs DEF Hears, Rests

-----------------------------------------------------------------------------
(* All the steps.                                                          *)

\* What an import does before its events, after them, or when it fails.
Aside(i) ==
    \/ \E n \in Names : LookUp(i, n) \/ NoInitiative(i, n)
    \/ Resolve(i) \/ ResolveFails(i) \/ AppendFails(i)
    \/ \E d \in Documents : PutArtifact(i, d)
    \/ WriteFails(i) \/ Answer(i)
Works(i) == Aside(i) \/ Count(i) \/ Check(i) \/ Mark(i) \/ AppendEvent(i) \/ CountAgain(i)
Goes(i) ==
    /\ Moves(i, import[i].pc, import'[i].pc)
    /\ import[i].pc \notin Over \cup {"idle"} /\ import'[i].pc # "idle"

LEMMA LookUpIs ==
    ASSUME Shaped, NEW i \in Imports, NEW n \in Names, LookUp(i, n)
    PROVE  /\ \E a \in Initiatives(i, n), b \in FoundOrNew(n) : Chosen(i, n, a, b) /\ b \in Ids
                  /\ a \in Ids \cup {None} /\ (a # None => rows[a].kind = "initiative")
                  /\ import'[i].initiative = a /\ import'[i].application = b
           /\ Moves(i, "look up", "resolve") /\ KeepsBatch(i) /\ KeepsFiles(i) /\ KeepsCount(i)
           /\ UNCHANGED <<mode, secrets, analytics, documents, requests>>
<1>1. PICK a \in Initiatives(i, n), b \in FoundOrNew(n) : Chosen(i, n, a, b)
  BY DEF LookUp
<1>2. a \in Ids \cup {None} /\ (a # None => rows[a].kind = "initiative")
  BY DEF Initiatives, Hits, Table
<1>3. b \in Ids
  BY DEF FoundOrNew, Hits, Table, New, Unused
<1>4. import[i].pc = "look up"
  BY DEF LookUp
<1>5. /\ Moves(i, "look up", "resolve") /\ KeepsBatch(i) /\ KeepsFiles(i) /\ KeepsCount(i)
      /\ import'[i].initiative = a /\ import'[i].application = b
  BY <1>1, <1>2, <1>3, <1>4, ChosenIs
<1>6. UNCHANGED <<mode, secrets, analytics, documents, requests>>
  BY <1>1 DEF Chosen
<1> QED BY <1>1, <1>2, <1>3, <1>5, <1>6

LEMMA AsideIs ==
    ASSUME Shaped, NEW i \in Imports, Aside(i)
    PROVE  /\ Goes(i) /\ KeepsBatch(i) /\ KeepsCount(i)
           /\ UNCHANGED <<mode, secrets, seen, events, live, requests>>
           /\ <<import[i].pc, import'[i].pc>> \in
                  {<<"look up", "resolve">>, <<"look up", "count">>, <<"resolve", "count">>,
                   <<"append", "failed">>, <<"write", "write">>, <<"write", "failed">>,
                   <<"write", "done">>}
           /\ (\A d \in Documents : ~PutArtifact(i, d)) => KeepsFiles(i) /\ UNCHANGED documents
<1> DEFINE Goal ==
      /\ Goes(i) /\ KeepsBatch(i) /\ KeepsCount(i)
      /\ UNCHANGED <<mode, secrets, seen, events, live, requests>>
      /\ <<import[i].pc, import'[i].pc>> \in
             {<<"look up", "resolve">>, <<"look up", "count">>, <<"resolve", "count">>,
              <<"append", "failed">>, <<"write", "write">>, <<"write", "failed">>,
              <<"write", "done">>}
      /\ (\A d \in Documents : ~PutArtifact(i, d)) => KeepsFiles(i) /\ UNCHANGED documents
<1>1. ASSUME NEW n \in Names, LookUp(i, n) PROVE Goal
  BY <1>1, LookUpIs DEF Goes, Moves, Over, analytics
<1>2. ASSUME NEW n \in Names, NoInitiative(i, n) PROVE Goal
  <2>1. /\ Goto(i, "count") /\ import[i].pc = "look up"
        /\ UNCHANGED <<mode, tables, analytics, documents, requests>>
    BY <1>2 DEF NoInitiative
  <2> QED BY <2>1, GotoIs DEF Goes, Moves, Over, analytics, tables
<1>3. ASSUME Resolve(i) PROVE Goal
  <2>1. /\ Goto(i, "count") /\ import[i].pc = "resolve"
        /\ UNCHANGED <<mode, secrets, analytics, documents, requests>>
    BY <1>3 DEF Resolve
  <2> QED BY <2>1, GotoIs DEF Goes, Moves, Over, analytics
<1>4. ASSUME ResolveFails(i) PROVE Goal
  <2>1. UNCHANGED <<mode, secrets, analytics, documents, requests>>
    BY <1>4 DEF ResolveFails
  <2> QED BY <1>4, <2>1, ResolveFailsIs DEF Goes, Moves, Over, analytics
<1>5. ASSUME AppendFails(i) PROVE Goal
  <2>1. /\ Goto(i, "failed") /\ import[i].pc = "append"
        /\ UNCHANGED <<mode, tables, analytics, documents, requests>>
    BY <1>5 DEF AppendFails
  <2> QED BY <2>1, GotoIs DEF Goes, Moves, Over, analytics, tables
<1>6. ASSUME NEW d \in Documents, PutArtifact(i, d) PROVE Goal
  <2>1. UNCHANGED <<mode, tables, analytics, requests>>
    BY <1>6 DEF PutArtifact
  <2> QED BY <1>6, <2>1, PutIs DEF Goes, Moves, Over, analytics, tables
<1>7. ASSUME WriteFails(i) PROVE Goal
  <2>1. /\ Goto(i, "failed") /\ import[i].pc = "write"
        /\ UNCHANGED <<mode, tables, analytics, documents, requests>>
    BY <1>7 DEF WriteFails
  <2> QED BY <2>1, GotoIs DEF Goes, Moves, Over, analytics, tables
<1>8. ASSUME Answer(i) PROVE Goal
  <2>1. /\ Goto(i, "done") /\ import[i].pc = "write"
        /\ UNCHANGED <<mode, tables, analytics, documents, requests>>
    BY <1>8 DEF Answer
  <2> QED BY <2>1, GotoIs DEF Goes, Moves, Over, analytics, tables
<1> HIDE DEF Goal
<1>9. Goal
  BY <1>1, <1>2, <1>3, <1>4, <1>5, <1>6, <1>7, <1>8 DEF Aside
<1> QED BY <1>9 DEF Goal

LEMMA MarkIs ==
    ASSUME Shaped, NEW i \in Imports, Mark(i)
    PROVE  /\ Moves(i, "mark", "append") /\ KeepsFound(i) /\ KeepsBatch(i) /\ KeepsFiles(i)
           /\ KeepsCount(i) /\ import'[i].unsure = import[i].unsure
           /\ seen' = seen \cup {import[i].event}
           /\ UNCHANGED <<mode, rows, secrets, events, live, documents, requests>>
<1>1. /\ import[i].pc = "mark" /\ seen' = seen \cup {import[i].event} /\ Goto(i, "append")
      /\ UNCHANGED <<mode, tables, events, live, documents, requests>>
  BY DEF Mark
<1> QED BY <1>1, GotoIs DEF tables

\* Counting and looking change nothing but the import.
LEMMA LooksAre ==
    ASSUME NEW i \in Imports, Count(i) \/ Check(i) \/ CountAgain(i)
    PROVE  UNCHANGED <<mode, rows, secrets, seen, events, live, documents, requests>>
BY DEF Count, Check, CountAgain, tables, analytics

LEMMA WorksAre ==
    ASSUME Shaped, Total \in Int, NEW i \in Imports, Works(i)
    PROVE  /\ Goes(i) /\ UNCHANGED <<mode, live, requests, secrets>>
           /\ ~Aside(i) => KeepsFiles(i) /\ UNCHANGED <<rows, documents>>
           /\ ~Mark(i) => UNCHANGED seen
           /\ ~AppendEvent(i) => UNCHANGED events
<1>1. CASE Aside(i)
  BY <1>1, AsideIs
<1>2. CASE Count(i)
  BY <1>2, CountIs, LooksAre DEF Goes, Over, Moves
<1>3. CASE Check(i)
  BY <1>3, CheckIs, LooksAre DEF Goes, Over, Moves
<1>4. CASE Mark(i)
  BY <1>4, MarkIs DEF Goes, Over, Moves
<1>5. CASE AppendEvent(i)
  <2>1. UNCHANGED <<mode, tables, seen, live, documents, requests>>
    BY <1>5 DEF AppendEvent
  <2>2. Moves(i, "append", "ingest") /\ KeepsFiles(i)
    BY <1>5, AppendIs DEF Moves, Hears
  <2> QED BY <2>1, <2>2, <1>5 DEF Goes, Over, tables, Moves
<1>6. CASE CountAgain(i)
  BY <1>6, CountAgainIs, LooksAre DEF Goes, Over, Moves
<1> QED BY <1>1, <1>2, <1>3, <1>4, <1>5, <1>6 DEF Works

LEMMA DoneIs ==
    ASSUME Shaped, Total \in Int, NEW i \in Imports, Works(i), import'[i].pc = "done"
    PROVE  Answer(i)
<1>1. ASSUME NEW n \in Names, LookUp(i, n) \/ NoInitiative(i, n) PROVE FALSE
  BY <1>1, LookUpIs, GotoIs DEF NoInitiative, Moves
<1>2. ASSUME Resolve(i) \/ AppendFails(i) \/ WriteFails(i) PROVE FALSE
  BY <1>2, GotoIs DEF Resolve, AppendFails, WriteFails, Moves
<1>3. ASSUME ResolveFails(i) PROVE FALSE
  BY <1>3, ResolveFailsIs DEF Moves
<1>4. ASSUME NEW d \in Documents, PutArtifact(i, d) PROVE FALSE
  BY <1>4, PutIs DEF Moves
<1>5. ASSUME Count(i) PROVE FALSE
  BY <1>5, CountIs DEF Moves
<1>6. ASSUME Check(i) PROVE FALSE
  BY <1>6, CheckIs DEF Moves
<1>7. ASSUME Mark(i) PROVE FALSE
  BY <1>7, MarkIs DEF Moves
<1>8. ASSUME AppendEvent(i) PROVE FALSE
  BY <1>8, AppendIs
<1>9. ASSUME CountAgain(i) PROVE FALSE
  BY <1>9, CountAgainIs DEF Moves
<1> QED BY <1>1, <1>2, <1>3, <1>4, <1>5, <1>6, <1>7, <1>8, <1>9 DEF Works, Aside

LEMMA EntitiesAre ==
    ASSUME Entities
    PROVE  /\ UNCHANGED <<mode, import, seen, events, live, documents>>
           /\ requests' = requests \/ (requests < MaxRequests /\ requests' = requests + 1)
<1> DEFINE Goal == /\ UNCHANGED <<mode, import, seen, events, live, documents>>
                   /\ requests' = requests \/ (requests < MaxRequests /\ requests' = requests + 1)
<1>1. ASSUME NEW k, NEW row, Create(k, row) PROVE Goal
  BY <1>1 DEF Create, Request, analytics
<1>2. ASSUME NEW k, NEW removed, Delete(k, removed) PROVE Goal
  BY <1>2 DEF Delete, Request, analytics
<1>3. ASSUME NEW k, NEW n, StoreToken(k, n) \/ Rename(k, n) PROVE Goal
  BY <1>3 DEF StoreToken, Rename, Request, analytics
<1>4. ASSUME NEW k, InsertRepository(k) PROVE Goal
  BY <1>4 DEF InsertRepository, analytics
<1> HIDE DEF Goal
<1>5. ASSUME NEW k, NEW n,
             CreateDomain(k, n) \/ CreateSquad(k, n) \/ CreateInitiative(k, n)
             \/ CreateRepository(k, n) \/ CreateProject(k, n)
      PROVE  Goal
  BY <1>1, <1>5 DEF CreateDomain, CreateSquad, CreateInitiative, CreateRepository, CreateProject
<1>6. ASSUME NEW k, DeleteDomain(k) \/ DeleteSquad(k) \/ DeleteInitiative(k)
                    \/ DeleteRepository(k) \/ DeleteProject(k)
      PROVE  Goal
  BY <1>2, <1>6 DEF DeleteDomain, DeleteSquad, DeleteInitiative, DeleteRepository, DeleteProject
<1>7. Goal
  BY <1>3, <1>4, <1>5, <1>6 DEF Entities
<1> QED BY <1>7 DEF Goal

LEMMA StepsAre ==
    ASSUME WorkspaceNext
    PROVE  \/ Entities \/ LiveEvent \/ (\E d \in Documents : TurnWrites(d))
           \/ \E i \in Imports : (\E payload \in Payloads : Start(i, payload)) \/ Works(i)
BY DEF WorkspaceNext, Importing, Works, Aside

-----------------------------------------------------------------------------
(* Who knows of whom, and whose documents stay.                            *)

LEMMA ShapedKeeps ==
    ASSUME Shaped, Total \in Int, WorkspaceNext
    PROVE  Shaped'
<1>1. ASSUME NEW i \in Imports, Works(i) PROVE Shaped'
  BY <1>1, WorksAre DEF Goes, Moves, Shaped
<1>2. ASSUME NEW i \in Imports, NEW payload \in Payloads, Start(i, payload) PROVE Shaped'
  BY <1>2, StartIs DEF Shaped
<1>3. CASE Entities
  BY <1>3, EntitiesAre DEF Shaped
<1>4. CASE LiveEvent
  BY <1>4, LiveIs DEF Shaped
<1>5. ASSUME NEW d \in Documents, TurnWrites(d) PROVE Shaped'
  BY <1>5 DEF TurnWrites, Shaped
<1> QED BY <1>1, <1>2, <1>3, <1>4, <1>5, StepsAre

\* Every import rests, starts or works.
Calm == \A j \in Imports : Rests(j)
GoOn ==
    \/ Calm
    \/ \E i \in Imports : /\ \A j \in Imports : j # i => Rests(j)
                          /\ Goes(i) \/ \E payload \in Payloads : Start(i, payload)

LEMMA AllGoOn ==
    ASSUME Shaped, Total \in Int, WorkspaceNext
    PROVE  GoOn
<1>1. ASSUME NEW i \in Imports, Works(i) PROVE GoOn
  <2>1. Goes(i)
    BY <1>1, WorksAre
  <2> QED BY <2>1 DEF Goes, Moves, GoOn
<1>2. ASSUME NEW i \in Imports, NEW payload \in Payloads, Start(i, payload) PROVE GoOn
  <2>1. \A j \in Imports : j # i => Rests(j)
    BY <1>2, StartIs
  <2> QED BY <1>2, <2>1 DEF GoOn
<1>3. ASSUME UNCHANGED import PROVE GoOn
  BY <1>3, SameRests DEF GoOn, Calm
<1>4. CASE LiveEvent
  BY <1>4, LiveIs DEF GoOn, Calm, Hears
<1>5. ASSUME NEW d \in Documents, TurnWrites(d) PROVE UNCHANGED import
  BY <1>5 DEF TurnWrites
<1> QED BY <1>1, <1>2, <1>3, <1>4, <1>5, StepsAre, EntitiesAre

LEMMA OthersRest ==
    ASSUME Shaped, Total \in Int, WorkspaceNext
    PROVE  /\ \A i \in Imports : (\E payload \in Payloads : Start(i, payload)) \/ Works(i) =>
                  \A j \in Imports : j # i => Rests(j)
           /\ ~(\E i \in Imports : (\E payload \in Payloads : Start(i, payload)) \/ Works(i)) =>
                  \A j \in Imports : Rests(j)
<1>1. ASSUME NEW i \in Imports, Works(i) PROVE \A j \in Imports : j # i => Rests(j)
  BY <1>1, WorksAre DEF Goes, Moves
<1>2. ASSUME NEW i \in Imports, NEW payload \in Payloads, Start(i, payload)
      PROVE  \A j \in Imports : j # i => Rests(j)
  BY <1>2, StartIs
<1>3. ASSUME Entities \/ LiveEvent \/ \E d \in Documents : TurnWrites(d)
      PROVE  \A j \in Imports : Rests(j)
  BY <1>3, EntitiesAre, LiveIs, SameRests DEF Hears, TurnWrites
<1> QED BY <1>1, <1>2, <1>3, StepsAre

LEMMA ModeStays == ASSUME Shaped, Total \in Int, WorkspaceNext PROVE mode' = mode
<1>1. ASSUME NEW i \in Imports, Works(i) PROVE mode' = mode
  BY <1>1, WorksAre
<1>2. ASSUME NEW i \in Imports, NEW payload \in Payloads, Start(i, payload) PROVE mode' = mode
  BY <1>2 DEF Start
<1>3. ASSUME NEW d \in Documents, TurnWrites(d) PROVE mode' = mode
  BY <1>3 DEF TurnWrites
<1>4. CASE LiveEvent
  BY <1>4 DEF LiveEvent
<1> QED BY <1>1, <1>2, <1>3, <1>4, EntitiesAre, StepsAre

\* What nobody forgets.
LEMMA NobodyForgets ==
    ASSUME Shaped, GoOn, NEW j \in Imports
    PROVE  /\ import[j].pc # "idle" =>
                  /\ import'[j].pc # "idle" /\ import'[j].payload = import[j].payload
                  /\ import'[j].past = import[j].past
                  /\ import[j].unsure => import'[j].unsure
                  /\ import[j].met \subseteq import'[j].met
           /\ import[j].pc \in Over => import'[j].pc = import[j].pc
<1> DEFINE Goal == /\ import[j].pc # "idle" =>
                          /\ import'[j].pc # "idle" /\ import'[j].payload = import[j].payload
                          /\ import'[j].past = import[j].past
                          /\ import[j].unsure => import'[j].unsure
                          /\ import[j].met \subseteq import'[j].met
                   /\ import[j].pc \in Over => import'[j].pc = import[j].pc
<1>1. ASSUME Rests(j) PROVE Goal
  BY <1>1 DEF Rests
<1>2. ASSUME Goes(j) PROVE Goal
  BY <1>2 DEF Goes, Moves
<1>3. ASSUME NEW payload \in Payloads, Start(j, payload) PROVE Goal
  BY <1>3 DEF Start, Over
<1> HIDE DEF Goal
<1>4. Goal
  BY <1>1, <1>2, <1>3 DEF GoOn, Calm
<1> QED BY <1>4 DEF Goal

LEMMA MetsGrow ==
    ASSUME Shaped, MeetsHold, GoOn, NEW i \in Imports, NEW j \in Imports, Overlapped(i, j)
    PROVE  Overlapped(i, j)'
<1>1. import[i].met \subseteq import'[i].met /\ import[j].met \subseteq import'[j].met
  <2>1. ASSUME NEW k \in Imports PROVE import[k].met \subseteq import'[k].met
    BY NobodyForgets DEF MeetsHold
  <2> QED BY <2>1
<1> QED BY <1>1 DEF Overlapped

LEMMA MeetsKeep ==
    ASSUME Shaped, MeetsHold, Total \in Int, WorkspaceNext
    PROVE  MeetsHold'
<1>0. GoOn
  BY AllGoOn
<1>1. \A j \in Imports : import[j].pc \in Over => import'[j].pc \in Over
  BY <1>0, NobodyForgets
<1>2. ASSUME NEW j \in Imports, Rests(j) \/ Goes(j)
      PROVE  /\ j \in Running' => j \in Running
             /\ import'[j].pc = "idle" => import'[j].met = {}
             /\ import'[j].past = import[j].past
  <2>1. CASE Goes(j)
    BY <2>1 DEF Goes, Moves, Running
  <2>2. CASE Rests(j)
    BY <2>2 DEF Rests, Running, MeetsHold
  <2> QED BY <1>2, <2>1, <2>2
<1>3. ASSUME \A j \in Imports : Rests(j) \/ Goes(j)
      PROVE  MeetsHold'
  <2>1. \A i, j \in Running' : i # j => Overlapped(i, j)'
    BY <1>0, <1>2, <1>3, MetsGrow DEF MeetsHold, Running
  <2>2. \A j \in Imports : import[j].past \subseteq Imports
    BY DEF Shaped, Shape
  <2> QED BY <1>1, <1>2, <1>3, <2>1, <2>2 DEF MeetsHold
<1>4. ASSUME NEW i \in Imports, NEW payload \in Payloads, Start(i, payload)
      PROVE  MeetsHold'
  <2>1. \A j \in Imports : j # i => Rests(j)
    BY <1>4, StartIs
  <2>2. /\ import[i].pc = "idle" /\ import'[i].pc # "idle"
        /\ import'[i].met = Running /\ import'[i].past = {k \in Imports : import[k].pc \in Over}
    BY <1>4, StartIs
  <2>3. \A j \in Running' : j # i => j \in Running /\ Overlapped(i, j)' /\ Overlapped(j, i)'
    BY <1>2, <2>1, <2>2 DEF Overlapped, Running
  <2>4. \A j, k \in Running' : j # k => Overlapped(j, k)'
    <3> SUFFICES ASSUME NEW j \in Running', NEW k \in Running', j # k PROVE Overlapped(j, k)'
      OBVIOUS
    <3>1. CASE j = i \/ k = i
      BY <2>3, <3>1
    <3>2. CASE j # i /\ k # i
      <4>1. j \in Running /\ k \in Running /\ j \in Imports /\ k \in Imports
        BY <2>3, <3>2 DEF Running
      <4> QED BY <1>0, <4>1, MetsGrow DEF MeetsHold
    <3> QED BY <3>1, <3>2
  <2>5. i \notin import'[i].past /\ \A j \in import'[i].past : import'[j].pc \in Over
    BY <1>1, <2>2 DEF Over
  <2>6. ASSUME NEW j \in Imports, j # i
        PROVE  /\ import'[j].pc = "idle" => import'[j].met = {}
               /\ j \notin import'[j].past /\ \A k \in import'[j].past : import'[k].pc \in Over
    <3>1. /\ import'[j].past = import[j].past
          /\ import'[j].pc = "idle" => import'[j].met = {}
      BY <1>2, <2>1, <2>6
    <3>2. import[j].past \subseteq Imports
      BY DEF Shaped, Shape
    <3> QED BY <1>1, <3>1, <3>2 DEF MeetsHold
  <2> QED BY <2>2, <2>4, <2>5, <2>6 DEF MeetsHold
<1> QED BY <1>0, <1>3, <1>4 DEF GoOn, Calm

LEMMA FilesKeep ==
    ASSUME Shaped, MeetsHold, FilesHold, Total \in Int, WorkspaceNext,
           documents \in [Documents -> Imports \cup {None, "turn"}]
    PROVE  FilesHold' /\ documents' \in [Documents -> Imports \cup {None, "turn"}]
<1> DEFINE Filed(j) ==
      /\ import'[j].pc = "done" => import'[j].files = {}
      /\ import'[j].pc # "idle" =>
             \A d \in import'[j].payload.documents \ import'[j].files :
                 documents'[d] \notin import'[j].past
<1>1. ASSUME NEW j \in Imports, Rests(j), UNCHANGED documents PROVE Filed(j)
  BY <1>1 DEF FilesHold, Rests
<1>2. ASSUME NEW i \in Imports, NEW d \in Documents, PutArtifact(i, d)
      PROVE  documents' = [documents EXCEPT ![d] = i] /\ \A j \in Imports : Filed(j)
  <2>1. /\ Moves(i, "write", "write") /\ import'[i].files = import[i].files \ {d}
        /\ documents' = [documents EXCEPT ![d] = i]
    BY <1>2, PutIs
  <2>2. \A e \in Documents : documents'[e] = IF e = d THEN i ELSE documents[e]
    BY <2>1
  <2>3. \A j \in Imports : i \notin import[j].past
    BY <2>1 DEF MeetsHold, Moves, Over
  <2>4. \A j \in Imports : import[j].payload.documents \subseteq Documents
    BY PayloadsAre DEF Shaped, Shape
  <2>5. ASSUME NEW j \in Imports, j # i PROVE Filed(j)
    <3>1. Rests(j)
      BY <2>1, <2>5 DEF Moves
    <3> QED BY <2>2, <2>3, <2>4, <3>1 DEF FilesHold, Rests
  <2>6. Filed(i)
    <3>1. /\ import'[i].pc = "write" /\ import[i].pc = "write" /\ import'[i].payload = import[i].payload
          /\ import'[i].past = import[i].past
      BY <2>1 DEF Moves
    <3> QED BY <2>1, <2>2, <2>3, <2>4, <3>1 DEF FilesHold
  <2> QED BY <2>1, <2>5, <2>6
<1>3. ASSUME NEW i \in Imports, Works(i), \A d \in Documents : ~PutArtifact(i, d)
      PROVE  UNCHANGED documents /\ \A j \in Imports : Filed(j)
  <2>1. Goes(i) /\ KeepsFiles(i) /\ UNCHANGED documents
    BY <1>3, WorksAre, AsideIs
  <2>2. import'[i].pc = "done" => import[i].files = {}
    BY <1>3, DoneIs DEF Answer
  <2>3. Filed(i)
    BY <2>1, <2>2 DEF Goes, Moves, KeepsFiles, FilesHold
  <2> QED BY <1>1, <2>1, <2>3 DEF Goes, Moves
<1>4. ASSUME NEW i \in Imports, NEW payload \in Payloads, Start(i, payload)
      PROVE  UNCHANGED documents /\ \A j \in Imports : Filed(j)
  <2>1. /\ \A j \in Imports : j # i => Rests(j)
        /\ import'[i].pc \in {"look up", "count"}
        /\ import'[i].payload = payload /\ import'[i].files = payload.documents
    BY <1>4, StartIs
  <2>2. UNCHANGED documents
    BY <1>4 DEF Start
  <2>3. Filed(i)
    BY <2>1
  <2> QED BY <1>1, <2>1, <2>2, <2>3
<1>5. ASSUME NEW d \in Documents, TurnWrites(d)
      PROVE  documents' = [documents EXCEPT ![d] = "turn"] /\ \A j \in Imports : Filed(j)
  <2>1. documents' = [documents EXCEPT ![d] = "turn"] /\ UNCHANGED import
    BY <1>5 DEF TurnWrites, Put
  <2>2. \A j \in Imports : "turn" \notin import[j].past /\ import[j].payload.documents \subseteq Documents
    BY WorkspaceAssumption, PayloadsAre DEF Shaped, Shape
  <2> QED BY <2>1, <2>2 DEF FilesHold
<1>6. ASSUME Entities \/ LiveEvent
      PROVE  UNCHANGED documents /\ \A j \in Imports : Filed(j)
  <2>1. \A j \in Imports : Rests(j)
    BY <1>6, EntitiesAre, LiveIs, SameRests DEF Hears
  <2>2. UNCHANGED documents
    BY <1>6, EntitiesAre DEF LiveEvent
  <2> QED BY <1>1, <2>1, <2>2
<1> HIDE DEF Filed
<1>7. /\ \A j \in Imports : Filed(j)
      /\ documents' \in [Documents -> Imports \cup {None, "turn"}]
  <2>1. ASSUME NEW i \in Imports, Works(i)
        PROVE  /\ \A j \in Imports : Filed(j)
               /\ documents' \in [Documents -> Imports \cup {None, "turn"}]
    BY <1>2, <1>3, <2>1
  <2>2. ASSUME NEW i \in Imports, NEW payload \in Payloads, Start(i, payload)
        PROVE  /\ \A j \in Imports : Filed(j)
               /\ documents' \in [Documents -> Imports \cup {None, "turn"}]
    BY <1>4, <2>2
  <2> QED BY <2>1, <2>2, <1>5, <1>6, StepsAre
<1> QED BY <1>7 DEF Filed, FilesHold

-----------------------------------------------------------------------------
(* Events, and what is counted of them.                                    *)

\* What an import has looked at is marked.
Looked(j, s) ==
    /\ import[j].pc \in {"ingest", "append", "write", "done"} =>
           import[j].payload.events \ import[j].todo \subseteq s
    /\ import[j].pc \in {"look up", "resolve", "count"} =>
           import[j].payload.events \ import[j].todo = {}
    /\ import[j].pc \in {"write", "done"} => import[j].todo = {}
    /\ import[j].pc = "mark" =>
           import[j].payload.events \ (import[j].todo \cup {import[j].event}) \subseteq s
Behind(j) ==
    /\ import[j].pc = "append" => import[j].event \in seen
    /\ mode # "postgres" => Looked(j, seen)
Marked ==
    /\ \A x \in events : x.id \in seen
    /\ \A e \in seen : (\E x \in events : x.id = e) \/ \E j \in Imports : import[j].event = e

LEMMA SeenIs == SeenHolds <=> Marked /\ \A j \in Imports : Behind(j)
BY DEF SeenHolds, Marked, Behind, Looked

LEMMA MarkedKeep ==
    ASSUME Shaped, Marked, EventsHold, seen \subseteq Events, Total \in Int, WorkspaceNext,
           \A j \in Imports : import[j].pc = "append" => import[j].event \in seen
    PROVE  Marked' /\ seen \subseteq seen' /\ seen' \subseteq Events
<1> DEFINE Goal == /\ \A x \in events' : x.id \in seen'
                   /\ \A e \in seen' : (\E x \in events' : x.id = e)
                                       \/ \E j \in Imports : import'[j].event = e
                   /\ seen \subseteq seen' /\ seen' \subseteq Events
<1>1. ASSUME UNCHANGED <<seen, events>>,
             \A j \in Imports : \/ import'[j].event = import[j].event
                                \/ import[j].event = None
      PROVE  Goal
  BY <1>1, WorkspaceAssumption DEF Marked
<1>2. ASSUME NEW i \in Imports, NEW payload \in Payloads, Start(i, payload)
      PROVE  Goal
  <2>1. UNCHANGED <<seen, events>>
    BY <1>2, StartLeaves
  <2>2. \A j \in Imports : j # i => import'[j].event = import[j].event
    <3>1. \A j \in Imports : j # i => Rests(j)
      BY <1>2, StartIs
    <3> QED BY <3>1, Zenon DEF Rests
  <2>3. import[i].event = None
    BY <1>2 DEF EventsHold, Start
  <2> HIDE DEF Goal
  <2> QED BY <1>1, <2>1, <2>2, <2>3
<1>3. ASSUME NEW i \in Imports, Check(i)
      PROVE  Goal
  <2>1. UNCHANGED <<seen, events>>
    BY <1>3, LooksAre
  <2>2. \A j \in Imports : j # i => import'[j].event = import[j].event
    BY <1>3, CheckIs DEF Rests, Moves
  <2>3. import[i].event = None
    BY <1>3 DEF EventsHold, Check
  <2> HIDE DEF Goal
  <2> QED BY <1>1, <2>1, <2>2, <2>3
<1>4. ASSUME NEW i \in Imports, Mark(i)
      PROVE  Goal
  <2>1. /\ import[i].pc = "mark" /\ import'[i].event = import[i].event /\ UNCHANGED events
        /\ seen' = seen \cup {import[i].event} /\ \A j \in Imports : j # i => import'[j].event = import[j].event
    BY <1>4, MarkIs DEF Moves, Rests, KeepsBatch
  <2>2. import[i].event \in Events
    BY <2>1 DEF EventsHold, Adding
  <2> QED BY <2>1, <2>2 DEF Marked
<1>5. ASSUME NEW i \in Imports, AppendEvent(i)
      PROVE  Goal
  <2>1. PICK x : events' = events \cup {x} /\ x.id = import[i].event
    BY <1>5, AppendIs
  <2>2. /\ import[i].pc = "append" /\ \A j \in Imports : j # i => import'[j].event = import[j].event
    BY <1>5, AppendIs DEF Hears, Rests
  <2>3. UNCHANGED seen
    BY <1>5 DEF AppendEvent
  <2> QED BY <2>1, <2>2, <2>3 DEF Marked
<1>6. ASSUME UNCHANGED <<seen, events>>,
             \A j \in Imports : import'[j].event = import[j].event
      PROVE  Goal
  <2> HIDE DEF Goal
  <2> QED BY <1>1, <1>6
<1>7. ASSUME NEW i \in Imports, Aside(i) PROVE Goal
  <2> HIDE DEF Goal
  <2> QED BY <1>6, <1>7, AsideIs DEF Goes, Moves, Rests, KeepsBatch
<1>8. ASSUME NEW i \in Imports, Count(i) PROVE Goal
  <2> HIDE DEF Goal
  <2> QED BY <1>6, <1>8, CountIs, LooksAre DEF Moves, Rests, KeepsBatch
<1>9. ASSUME NEW i \in Imports, CountAgain(i) PROVE Goal
  <2> HIDE DEF Goal
  <2> QED BY <1>6, <1>9, CountAgainIs, LooksAre DEF Moves, Rests
<1>10. ASSUME NEW i \in Imports, Works(i) PROVE Goal
  BY <1>10, <1>3, <1>4, <1>5, <1>7, <1>8, <1>9 DEF Works
<1>11. ASSUME LiveEvent PROVE Goal
  <2>1. UNCHANGED <<seen, events>>
    BY <1>11 DEF LiveEvent
  <2> HIDE DEF Goal
  <2> QED BY <1>6, <1>11, <2>1, LiveIs DEF Hears, Rests
<1>12. ASSUME NEW d \in Documents, TurnWrites(d) PROVE Goal
  <2>1. UNCHANGED <<import, seen, events>>
    BY <1>12 DEF TurnWrites, analytics
  <2> HIDE DEF Goal
  <2> QED BY <1>6, <2>1
<1>13. ASSUME Entities PROVE Goal
  <2> HIDE DEF Goal
  <2> QED BY <1>6, <1>13, EntitiesAre
<1> HIDE DEF Goal
<1>14. Goal
  BY <1>2, <1>10, <1>11, <1>12, <1>13, StepsAre
<1> QED BY <1>14 DEF Goal, Marked

LEMMA LookedKeep ==
    ASSUME Shaped, SeenHolds, seen \subseteq seen', seen' \subseteq Events, Total \in Int, WorkspaceNext, NEW j \in Imports
    PROVE  Behind(j)'
<1> DEFINE Goal == Behind(j)'
<1>1. Behind(j) /\ mode' = mode
  BY SeenIs, ModeStays
<1>2. ASSUME Rests(j) PROVE Goal
  BY <1>1, <1>2 DEF Rests, Behind, Looked
<1>3. ASSUME NEW payload \in Payloads, Start(j, payload) PROVE Goal
  <2>1. /\ import'[j].pc \in {"look up", "count"} /\ import'[j].payload = payload
        /\ import'[j].todo = payload.events
    BY <1>3, StartIs
  <2> QED BY <1>1, <2>1 DEF Behind, Looked
<1>4. ASSUME Aside(j) PROVE Goal
  <2>1. /\ <<import[j].pc, import'[j].pc>> \in
               {<<"look up", "resolve">>, <<"look up", "count">>, <<"resolve", "count">>,
                <<"append", "failed">>, <<"write", "write">>, <<"write", "failed">>,
                <<"write", "done">>}
        /\ import'[j].todo = import[j].todo /\ import'[j].event = import[j].event
        /\ import'[j].payload = import[j].payload
    BY <1>4, AsideIs DEF Goes, Moves, KeepsBatch
  <2> QED BY <1>1, <2>1 DEF Behind, Looked
<1>5. ASSUME Count(j) PROVE Goal
  <2>1. /\ import[j].pc = "count" /\ import'[j].pc = "ingest"
        /\ import'[j].todo = import[j].todo /\ import'[j].payload = import[j].payload
    BY <1>5, CountIs DEF Moves, KeepsBatch
  <2> QED BY <1>1, <2>1 DEF Behind, Looked
<1>6. ASSUME Check(j) PROVE Goal
  <2>1. PICK e \in import[j].todo :
               /\ Moves(j, "ingest", IF e \in seen THEN "ingest" ELSE "mark")
               /\ import'[j].todo = import[j].todo \ {e}
               /\ import'[j].event = IF e \in seen THEN import[j].event ELSE e
    BY <1>6, CheckIs
  <2> QED BY <1>1, <2>1 DEF Behind, Looked, Moves
<1>7. ASSUME Mark(j) PROVE Goal
  <2>1. /\ import[j].pc = "mark" /\ import'[j].pc = "append" /\ import'[j].payload = import[j].payload
        /\ import'[j].todo = import[j].todo /\ import'[j].event = import[j].event
        /\ seen' = seen \cup {import[j].event}
    BY <1>7, MarkIs DEF Moves, KeepsBatch
  <2> QED BY <1>1, <2>1 DEF Behind, Looked
<1>8. ASSUME AppendEvent(j) PROVE Goal
  <2>1. /\ import[j].pc = "append" /\ import'[j].pc = "ingest" /\ import'[j].payload = import[j].payload
        /\ import'[j].todo = import[j].todo
    BY <1>8, AppendIs
  <2> QED BY <1>1, <2>1 DEF Behind, Looked
<1>9. ASSUME CountAgain(j) PROVE Goal
  <2>1. /\ import[j].pc = "ingest" /\ import'[j].pc = "write" /\ import'[j].payload = import[j].payload
        /\ import'[j].todo = {}
        /\ mode # "postgres" => import[j].todo = {}
    BY <1>9, CountAgainIs DEF Moves
  <2> QED BY <1>1, <2>1 DEF Behind, Looked
<1> HIDE DEF Goal
<1>10. ASSUME Works(j) PROVE Goal
  BY <1>4, <1>5, <1>6, <1>7, <1>8, <1>9, <1>10 DEF Works
<1>11. ASSUME NEW i \in Imports, (\E payload \in Payloads : Start(i, payload)) \/ Works(i)
       PROVE  Goal
  <2>1. CASE i = j
    BY <1>3, <1>10, <1>11, <2>1
  <2>2. ASSUME i # j PROVE Rests(j)
    BY <1>11, <2>2, OthersRest
  <2> QED BY <1>2, <2>1, <2>2
<1>12. ASSUME ~ \E i \in Imports : (\E payload \in Payloads : Start(i, payload)) \/ Works(i)
       PROVE  Goal
  BY <1>2, <1>12, OthersRest
<1> QED BY <1>11, <1>12 DEF Goal

LEMMA SeenKeep ==
    ASSUME Shaped, SeenHolds, EventsHold, seen \subseteq Events, Total \in Int, WorkspaceNext
    PROVE  SeenHolds' /\ seen' \subseteq Events
<1>1. Marked /\ \A j \in Imports : import[j].pc = "append" => import[j].event \in seen
  BY SeenIs DEF Behind
<1>2. Marked' /\ seen \subseteq seen' /\ seen' \subseteq Events
  BY <1>1, MarkedKeep
<1>3. \A j \in Imports : Behind(j)'
  BY <1>2, LookedKeep
<1>4. SeenHolds' <=> (Marked /\ \A j \in Imports : Behind(j))'
  BY SeenIs, PTL
<1> QED BY <1>2, <1>3 DEF SeenHolds, Marked, Behind, Looked

\* An import's way with its events: it adds what it was about to, or turns to one
\* of those to come that is not marked.
Early == {"idle", "look up", "resolve", "count"}
Turns(j) ==
    /\ import[j].pc \notin Early => import'[j].pc \notin Early
    /\ import'[j].todo \subseteq import[j].todo
    /\ Adding(j)' => \/ Adding(j) /\ import'[j].event = import[j].event
                     \/ import'[j].event \in import[j].todo \ (import'[j].todo \cup seen)
    /\ import'[j].pc \notin {"mark", "append", "failed"} =>
           /\ import[j].pc \notin {"mark", "append", "failed"}
           /\ import'[j].event = import[j].event

LEMMA TurnsAre ==
    ASSUME Shaped, Total \in Int, NEW j \in Imports,
           Rests(j) \/ (Works(j) /\ ~AppendEvent(j))
    PROVE  Turns(j)
<1> DEFINE Goal == Turns(j)
<1>1. ASSUME Rests(j) PROVE Goal
  BY <1>1 DEF Rests, Turns, Adding
<1>2. ASSUME Aside(j) PROVE Goal
  <2>1. /\ <<import[j].pc, import'[j].pc>> \in
               {<<"look up", "resolve">>, <<"look up", "count">>, <<"resolve", "count">>,
                <<"append", "failed">>, <<"write", "write">>, <<"write", "failed">>,
                <<"write", "done">>}
        /\ import'[j].todo = import[j].todo /\ import'[j].event = import[j].event
    BY <1>2, AsideIs DEF KeepsBatch
  <2> QED BY <2>1 DEF Turns, Adding, Early
<1>3. ASSUME Count(j) PROVE Goal
  <2>1. /\ import[j].pc = "count" /\ import'[j].pc = "ingest"
        /\ import'[j].todo = import[j].todo /\ import'[j].event = import[j].event
    BY <1>3, CountIs DEF Moves, KeepsBatch
  <2> QED BY <2>1 DEF Turns, Adding, Early
<1>4. ASSUME Check(j) PROVE Goal
  <2>1. PICK e \in import[j].todo :
               /\ Moves(j, "ingest", IF e \in seen THEN "ingest" ELSE "mark")
               /\ import'[j].todo = import[j].todo \ {e}
               /\ import'[j].event = IF e \in seen THEN import[j].event ELSE e
    BY <1>4, CheckIs
  <2> QED BY <2>1 DEF Turns, Adding, Early, Moves
<1>5. ASSUME Mark(j) PROVE Goal
  <2>1. /\ import[j].pc = "mark" /\ import'[j].pc = "append"
        /\ import'[j].todo = import[j].todo /\ import'[j].event = import[j].event
    BY <1>5, MarkIs DEF Moves, KeepsBatch
  <2> QED BY <2>1 DEF Turns, Adding, Early
<1>6. ASSUME CountAgain(j) PROVE Goal
  <2>1. /\ import[j].pc = "ingest" /\ import'[j].pc = "write"
        /\ import'[j].todo = {} /\ import'[j].event = import[j].event
    BY <1>6, CountAgainIs DEF Moves
  <2> QED BY <2>1 DEF Turns, Adding, Early
<1> HIDE DEF Goal
<1>7. Goal
  BY <1>1, <1>2, <1>3, <1>4, <1>5, <1>6 DEF Works
<1> QED BY <1>7 DEF Goal

EventsTyped ==
    events \subseteq [id : Events, by : Imports, initiative : Ids \cup {None},
                      application : Ids \cup {None}]

\* Nothing is added.
LEMMA SameEvents ==
    ASSUME EventsHold, LandsOnce, EventsTyped, Marked, UNCHANGED events,
           \A j \in Imports : import[j].todo \subseteq Events,
           \A i, j \in Imports : Overlapped(i, j) => Overlapped(i, j)',
           \A j \in Imports : \/ Turns(j)
                              \/ import[j].pc = "idle" /\ import'[j].pc \notin {"mark", "append"} /\ import'[j].event = None
    PROVE  EventsHold' /\ LandsOnce'
<1>1. \A x \in events : x.by \in Imports /\ x.id \in seen
  BY DEF EventsTyped, Marked
<1>2. \A x, y \in events' : x.id = y.id /\ x.by = y.by => x = y
  BY DEF EventsHold
<1>3. LandsOnce'
  BY <1>1 DEF LandsOnce
<1>4. ASSUME NEW i \in Imports
      PROVE  /\ Adding(i)' => import'[i].event \in Events \ import'[i].todo
             /\ import'[i].pc \notin {"mark", "append", "failed"} => import'[i].event = None
  <2>1. CASE Turns(i)
    <3>1. /\ Adding(i) => import[i].event \in Events \ import[i].todo
          /\ import[i].pc \notin {"mark", "append", "failed"} => import[i].event = None
      BY DEF EventsHold
    <3>2. import[i].todo \subseteq Events
      OBVIOUS
    <3> QED BY <2>1, <3>1, <3>2 DEF Turns
  <2>2. CASE import[i].pc = "idle" /\ import'[i].pc \notin {"mark", "append"} /\ import'[i].event = None
    BY <2>2 DEF Adding
  <2> QED BY <2>1, <2>2
<1>5. ASSUME NEW x \in events
      PROVE  /\ import'[x.by].pc \notin Early
             /\ x.id \notin import'[x.by].todo
             /\ Adding(x.by)' => x.id # import'[x.by].event
  <2>1. Turns(x.by) /\ x.by \in Imports
    BY <1>1 DEF EventsHold
  <2> QED BY <1>1, <2>1 DEF EventsHold, Turns, Early
<1>6. ASSUME NEW i \in Imports, NEW x \in events,
             Adding(i)', x.id = import'[i].event, x.by # i
      PROVE  Overlapped(x.by, i)'
  <2>1. Turns(i) /\ x.id \in seen
    BY <1>1, <1>6 DEF Adding
  <2>2. Adding(i) /\ import'[i].event = import[i].event
    BY <1>6, <2>1 DEF Turns
  <2> QED BY <1>1, <1>6, <2>2 DEF EventsHold
<1> QED BY <1>2, <1>3, <1>4, <1>5, <1>6 DEF EventsHold, Early

\* One is added.
LEMMA MoreEvents ==
    ASSUME Shaped, EventsHold, LandsOnce, EventsTyped, MeetsHold, GoOn, NEW i \in Imports, AppendEvent(i)
    PROVE  EventsHold' /\ LandsOnce' /\ EventsTyped'
<1>1. PICK x : /\ events' = events \cup {x} /\ x.id = import[i].event /\ x.by = i
               /\ x.initiative = import[i].initiative /\ x.application = import[i].application
               /\ x = [id |-> x.id, by |-> x.by, initiative |-> x.initiative,
                       application |-> x.application]
  BY AppendIs
<1>2. /\ import[i].pc = "append" /\ import'[i].pc = "ingest" /\ import'[i].todo = import[i].todo
      /\ import'[i].event = None
  <2>1. /\ import[i].pc = "append" /\ import'[i].pc = "ingest" /\ import'[i].todo = import[i].todo
    BY AppendIs
  <2>2. import'[i].event = None
    <3>1. /\ Mixed(i) \in [Imports -> Shape]
          /\ import' = [Mixed(i) EXCEPT ![i].pc = "ingest", ![i].event = None]
      BY MixedIs DEF AppendEvent
    <3> QED BY <3>1 DEF Shape
  <2> QED BY <2>1, <2>2
<1>3. \A j \in Imports : j # i =>
          /\ import'[j].pc = import[j].pc /\ import'[j].todo = import[j].todo
          /\ import'[j].event = import[j].event
  BY AppendIs DEF Hears, Rests
<1>4. import[i].event \in Events \ import[i].todo /\ Adding(i)
  BY <1>2 DEF EventsHold, Adding
<1>5. x \in [id : Events, by : Imports, initiative : Ids \cup {None}, application : Ids \cup {None}]
  <2>1. import[i].initiative \in Ids \cup {None} /\ import[i].application \in Ids \cup {None}
    BY DEF Shaped, Shape
  <2> QED BY <1>1, <1>4, <2>1
<1>6. EventsTyped' /\ \A y \in events : y.by \in Imports
  BY <1>1, <1>5 DEF EventsTyped
<1>7. \A a, b \in Imports : Overlapped(a, b) => Overlapped(a, b)'
  BY MetsGrow
<1>8. \A y, z \in events' : y.id = z.id /\ y.by = z.by => y = z
  <2>1. \A y \in events : ~(y.id = x.id /\ y.by = x.by)
    BY <1>1, <1>4 DEF EventsHold
  <2>2. \A y, z \in events : y.id = z.id /\ y.by = z.by => y = z
    BY DEF EventsHold
  <2> QED BY <1>1, <2>1, <2>2
<1>9. \A y \in events : y.id = x.id /\ y.by # x.by => Overlapped(y.by, x.by) /\ Overlapped(x.by, y.by)
  BY <1>1, <1>4 DEF EventsHold, Overlapped
<1>10. LandsOnce'
  <2> SUFFICES ASSUME NEW y \in events', NEW z \in events', y.id = z.id, y.by # z.by
               PROVE  Overlapped(y.by, z.by)'
    BY DEF LandsOnce
  <2>1. Overlapped(y.by, z.by)
    BY <1>1, <1>9 DEF LandsOnce
  <2>2. y.by \in Imports /\ z.by \in Imports
    BY <1>1, <1>6
  <2> QED BY <1>7, <2>1, <2>2
<1>11. ASSUME NEW j \in Imports
       PROVE  /\ Adding(j)' => import'[j].event \in Events \ import'[j].todo
              /\ import'[j].pc \notin {"mark", "append", "failed"} => import'[j].event = None
  BY <1>2, <1>3 DEF EventsHold, Adding
<1>12. ASSUME NEW y \in events'
       PROVE  /\ import'[y.by].pc \notin Early
              /\ y.id \notin import'[y.by].todo
              /\ Adding(y.by)' => y.id # import'[y.by].event
  <2>1. CASE y = x
    BY <1>1, <1>2, <1>4, <2>1 DEF Adding, Early
  <2>2. ASSUME y \in events, y.by = i
        PROVE  /\ import'[y.by].pc \notin Early
               /\ y.id \notin import'[y.by].todo
               /\ Adding(y.by)' => y.id # import'[y.by].event
    BY <1>2, <2>2 DEF EventsHold, Adding, Early
  <2>3. ASSUME y \in events, y.by # i
        PROVE  /\ import'[y.by].pc \notin Early
               /\ y.id \notin import'[y.by].todo
               /\ Adding(y.by)' => y.id # import'[y.by].event
    BY <1>3, <1>6, <2>3 DEF EventsHold, Adding, Early
  <2> QED BY <1>1, <2>1, <2>2, <2>3
<1>13. ASSUME NEW j \in Imports, NEW y \in events',
              Adding(j)', y.id = import'[j].event, y.by # j
       PROVE  Overlapped(y.by, j)'
  <2>1. j # i /\ Adding(j) /\ import'[j].event = import[j].event
    BY <1>2, <1>3, <1>13 DEF Adding
  <2>2. Overlapped(y.by, j)
    <3>1. CASE y \in events
      BY <1>13, <2>1, <3>1 DEF EventsHold
    <3>2. CASE y = x
      <4>1. i \in Running /\ j \in Running
        BY <1>4, <2>1 DEF Running, Adding, Over
      <4> QED BY <1>1, <2>1, <3>2, <4>1 DEF MeetsHold
    <3> QED BY <1>1, <3>1, <3>2
  <2>3. y.by \in Imports
    BY <1>1, <1>6
  <2> QED BY <1>7, <2>2, <2>3
<1> QED BY <1>6, <1>8, <1>10, <1>11, <1>12, <1>13 DEF EventsHold, Early

LEMMA EventsKeep ==
    ASSUME Shaped, EventsHold, LandsOnce, EventsTyped, Marked, MeetsHold, Total \in Int, WorkspaceNext
    PROVE  EventsHold' /\ LandsOnce' /\ EventsTyped'
<1>0. GoOn
  BY AllGoOn
<1>1. /\ \A j \in Imports : import[j].todo \subseteq Events
      /\ \A i, j \in Imports : Overlapped(i, j) => Overlapped(i, j)'
  BY <1>0, MetsGrow DEF Shaped, Shape
<1> DEFINE Way(j) ==
      \/ Turns(j)
      \/ import[j].pc = "idle" /\ import'[j].pc \notin {"mark", "append"} /\ import'[j].event = None
<1>2. ASSUME UNCHANGED events, \A j \in Imports : Way(j)
      PROVE  EventsHold' /\ LandsOnce' /\ EventsTyped'
  BY <1>1, <1>2, SameEvents DEF EventsTyped
<1>3. ASSUME NEW i \in Imports, AppendEvent(i)
      PROVE  EventsHold' /\ LandsOnce' /\ EventsTyped'
  BY <1>0, <1>3, MoreEvents
<1>4. ASSUME NEW i \in Imports, Works(i), ~AppendEvent(i)
      PROVE  EventsHold' /\ LandsOnce' /\ EventsTyped'
  <2>1. UNCHANGED events /\ \A j \in Imports : j # i => Rests(j)
    BY <1>4, WorksAre, OthersRest
  <2>2. \A j \in Imports : Way(j)
    BY <1>4, <2>1, TurnsAre
  <2> HIDE DEF Way
  <2> QED BY <1>2, <2>1, <2>2
<1>5. ASSUME NEW i \in Imports, NEW payload \in Payloads, Start(i, payload)
      PROVE  EventsHold' /\ LandsOnce' /\ EventsTyped'
  <2>1. UNCHANGED events
    BY <1>5 DEF Start, analytics
  <2>2. \A j \in Imports : j # i => Turns(j)
    BY <1>5, StartIs, TurnsAre
  <2>3. import[i].pc = "idle" /\ import'[i].pc \notin {"mark", "append"} /\ import'[i].event = None
    BY <1>5, StartIs DEF Adding
  <2>4. \A j \in Imports : Way(j)
    BY <2>2, <2>3
  <2> HIDE DEF Way
  <2> QED BY <1>2, <2>1, <2>4
<1>6. ASSUME Entities \/ LiveEvent \/ \E d \in Documents : TurnWrites(d)
      PROVE  EventsHold' /\ LandsOnce' /\ EventsTyped'
  <2>1. UNCHANGED events
    BY <1>6, EntitiesAre DEF LiveEvent, TurnWrites, analytics
  <2>2. \A j \in Imports : Rests(j)
    BY <1>6, EntitiesAre, LiveIs, SameRests DEF Hears, TurnWrites
  <2>3. \A j \in Imports : Way(j)
    BY <2>2, TurnsAre
  <2> HIDE DEF Way
  <2> QED BY <1>2, <2>1, <2>3
<1> QED BY <1>3, <1>4, <1>5, <1>6, StepsAre

Counting == {"ingest", "mark", "append"}
Counts(j) ==
    /\ import[j].count \in Nat /\ import[j].count <= Total
    /\ import[j].pc \in Counting /\ ~import[j].mixed =>
           import[j].count + Cardinality(By(j)) = Total
    /\ import[j].pc \in {"write", "done"} /\ ~import[j].mixed =>
           import[j].count = Cardinality(By(j))
Bounds == /\ live \in Nat /\ requests \in Nat /\ live <= requests /\ requests <= MaxRequests
          /\ IsFiniteSet(events)

CountsHold == \A j \in Imports : Counts(j)

LEMMA NumbersAre == NumbersHold /\ CountsAreTrue <=> Bounds /\ CountsHold
BY DEF NumbersHold, CountsAreTrue, Bounds, CountsHold, Counts, Counting, By

LEMMA TotalIs ==
    ASSUME Bounds
    PROVE  /\ Total \in Nat /\ Total = Cardinality(events) + live /\ Cardinality(events) \in Nat
           /\ \A j : Cardinality(By(j)) \in Nat /\ IsFiniteSet(By(j))
<1>1. ASSUME NEW j PROVE Cardinality(By(j)) \in Nat /\ IsFiniteSet(By(j))
  <2>1. By(j) \subseteq events
    BY DEF By
  <2> QED BY <2>1, FS_Subset, FS_CardinalityType DEF Bounds
<1>2. Cardinality(events) \in Nat
  BY FS_CardinalityType DEF Bounds
<1> QED BY <1>1, <1>2 DEF Total, Bounds

\* The store is as it was.
LEMMA SameCounts ==
    ASSUME NEW j, Counts(j), Bounds, UNCHANGED <<events, live>>, import'[j].count = import[j].count,
           import'[j].pc \in Counting => import[j].pc \in Counting,
           import'[j].pc \in {"write", "done"} => import[j].pc \in {"write", "done"},
           import[j].mixed => import'[j].mixed
    PROVE  Counts(j)'
<1>1. Total' = Total /\ By(j)' = By(j)
  BY DEF Total, By
<1> QED BY <1>1 DEF Counts

\* Another adds to it.
LEMMA OtherCounts ==
    ASSUME NEW j, Counts(j), Bounds, Hears(j), By(j)' = By(j), Total' \in Nat, Total <= Total'
    PROVE  Counts(j)'
<1>1. Total \in Nat
  BY TotalIs
<1>2. /\ import'[j].count = import[j].count /\ import'[j].pc = import[j].pc
      /\ IF import[j].pc \in Counting THEN import'[j].mixed
         ELSE import'[j].mixed = import[j].mixed
  BY DEF Hears, Rests, Counting
<1> QED BY <1>1, <1>2 DEF Counts, Counting

\* It adds to it.
LEMMA AppendCounts ==
    ASSUME Shaped, Bounds, EventsHold, NEW i \in Imports, AppendEvent(i), \A j \in Imports : Counts(j)
    PROVE  Bounds' /\ \A j \in Imports : Counts(j)'
<1>1. PICK x : events' = events \cup {x} /\ x.id = import[i].event /\ x.by = i
  BY AppendIs
<1>2. /\ import[i].pc = "append" /\ import'[i].pc = "ingest"
      /\ import'[i].count = import[i].count /\ import'[i].mixed = import[i].mixed
      /\ \A j \in Imports : j # i => Hears(j)
  BY AppendIs DEF KeepsCount
<1>3. UNCHANGED <<live, requests>>
  BY DEF AppendEvent
<1>4. x \notin events
  BY <1>1, <1>2 DEF EventsHold, Adding
<1>5. IsFiniteSet(events') /\ Cardinality(events') = Cardinality(events) + 1
  BY <1>1, <1>4, FS_AddElement DEF Bounds
<1>6. Bounds'
  BY <1>3, <1>5 DEF Bounds
<1>7. Total \in Nat /\ Total' = Total + 1
  BY <1>3, <1>5, TotalIs DEF Total, Bounds
<1>8. By(i)' = By(i) \cup {x} /\ x \notin By(i) /\ \A j : j # i => By(j)' = By(j)
  BY <1>1, <1>4 DEF By
<1>9. Cardinality(By(i)') = Cardinality(By(i)) + 1 /\ Cardinality(By(i)) \in Nat
  BY <1>8, TotalIs, FS_AddElement
<1>10. Counts(i)'
  <2>1. Counts(i)
    OBVIOUS
  <2> QED BY <1>2, <1>7, <1>9, <2>1 DEF Counts, Counting
<1>11. ASSUME NEW j \in Imports, j # i PROVE Counts(j)'
  BY <1>2, <1>7, <1>8, <1>11, OtherCounts
<1> QED BY <1>6, <1>10, <1>11

LEMMA NumbersKeep ==
    ASSUME Shaped, Bounds, EventsHold, EventsTyped, \A j \in Imports : Counts(j), WorkspaceNext
    PROVE  Bounds' /\ \A j \in Imports : Counts(j)'
<1> DEFINE Goal == Bounds' /\ \A j \in Imports : Counts(j)'
<1>0. Total \in Int
  BY TotalIs
<1>1. ASSUME UNCHANGED <<events, live>>,
             requests' = requests \/ (requests < MaxRequests /\ requests' = requests + 1)
      PROVE  Bounds'
  BY <1>1, WorkspaceAssumption DEF Bounds
<1>2. ASSUME NEW j \in Imports, UNCHANGED <<events, live>>, Rests(j) PROVE Counts(j)'
  BY <1>2, SameCounts DEF Rests
<1>3. ASSUME NEW i \in Imports, Aside(i) PROVE Goal
  <2>1. /\ UNCHANGED <<events, live, requests>> /\ import'[i].count = import[i].count
        /\ import'[i].mixed = import[i].mixed /\ \A j \in Imports : j # i => Rests(j)
        /\ <<import[i].pc, import'[i].pc>> \in
               {<<"look up", "resolve">>, <<"look up", "count">>, <<"resolve", "count">>,
                <<"append", "failed">>, <<"write", "write">>, <<"write", "failed">>,
                <<"write", "done">>}
    BY <1>3, AsideIs DEF KeepsCount, Goes, Moves
  <2>2. /\ import'[i].pc \in Counting => import[i].pc \in Counting
        /\ import'[i].pc \in {"write", "done"} => import[i].pc \in {"write", "done"}
    BY <2>1 DEF Counting
  <2>3. Counts(i)'
    BY <2>1, <2>2, SameCounts
  <2> QED BY <1>1, <1>2, <2>1, <2>3
<1>4. ASSUME NEW i \in Imports, Check(i) PROVE Goal
  <2>1. /\ UNCHANGED <<events, live, requests>> /\ import'[i].count = import[i].count
        /\ import'[i].mixed = import[i].mixed /\ \A j \in Imports : j # i => Rests(j)
        /\ import[i].pc = "ingest" /\ import'[i].pc \in {"ingest", "mark"}
    BY <1>4, CheckIs, LooksAre DEF KeepsCount, Moves
  <2>2. /\ import'[i].pc \in Counting => import[i].pc \in Counting
        /\ import'[i].pc \in {"write", "done"} => import[i].pc \in {"write", "done"}
    BY <2>1 DEF Counting
  <2>3. Counts(i)'
    BY <2>1, <2>2, SameCounts
  <2> QED BY <1>1, <1>2, <2>1, <2>3
<1>5. ASSUME NEW i \in Imports, Mark(i) PROVE Goal
  <2>1. /\ UNCHANGED <<events, live, requests>> /\ import'[i].count = import[i].count
        /\ import'[i].mixed = import[i].mixed /\ \A j \in Imports : j # i => Rests(j)
        /\ import[i].pc = "mark" /\ import'[i].pc = "append"
    BY <1>5, MarkIs DEF KeepsCount, Moves
  <2>2. /\ import'[i].pc \in Counting => import[i].pc \in Counting
        /\ import'[i].pc \in {"write", "done"} => import[i].pc \in {"write", "done"}
    BY <2>1 DEF Counting
  <2>3. Counts(i)'
    BY <2>1, <2>2, SameCounts
  <2> QED BY <1>1, <1>2, <2>1, <2>3
<1>6. ASSUME NEW i \in Imports, Count(i) PROVE Goal
  <2>1. /\ UNCHANGED <<events, live, requests>> /\ import'[i].count = Total
        /\ \A j \in Imports : j # i => Rests(j)
        /\ import[i].pc = "count" /\ import'[i].pc = "ingest"
    BY <1>0, <1>6, CountIs, LooksAre DEF Moves
  <2>2. By(i) = {}
    BY <2>1 DEF By, EventsHold
  <2>3. Total' = Total /\ Cardinality(By(i)') = 0 /\ Total \in Nat
    BY <2>1, <2>2, TotalIs, FS_EmptySet DEF Total, By
  <2>4. Counts(i)'
    BY <2>1, <2>3 DEF Counts
  <2> QED BY <1>1, <1>2, <2>1, <2>4
<1>7. ASSUME NEW i \in Imports, CountAgain(i) PROVE Goal
  <2>1. /\ UNCHANGED <<events, live, requests>> /\ import'[i].count = Total - import[i].count
        /\ \A j \in Imports : j # i => Rests(j) 
        /\ import'[i].mixed = import[i].mixed
        /\ import[i].pc = "ingest" /\ import'[i].pc = "write"
    BY <1>0, <1>7, CountAgainIs, LooksAre DEF Moves
  <2>2. /\ Total' = Total /\ By(i)' = By(i) /\ Total \in Nat /\ Cardinality(By(i)) \in Nat
    BY <2>1, TotalIs DEF Total, By
  <2>3. Counts(i)
    OBVIOUS
  <2>4. Counts(i)'
    BY <2>1, <2>2, <2>3 DEF Counts, Counting
  <2> QED BY <1>1, <1>2, <2>1, <2>4
<1>8. ASSUME NEW i \in Imports, AppendEvent(i) PROVE Goal
  BY <1>8, AppendCounts
<1>9. ASSUME NEW i \in Imports, NEW payload \in Payloads, Start(i, payload) PROVE Goal
  <2>1. /\ UNCHANGED <<events, live>> /\ requests < MaxRequests /\ requests' = requests + 1
    BY <1>9 DEF Start, analytics, Request
  <2>2. /\ import'[i].pc \in {"look up", "count"} /\ import'[i].count = 0
        /\ \A j \in Imports : j # i => Rests(j)
    BY <1>9, StartIs
  <2>3. Counts(i)'
    <3>1. Total' \in Nat
      BY <2>1, TotalIs DEF Total
    <3>2. ASSUME NEW n \in Nat PROVE 0 <= n
      BY <3>2
    <3>0. import'[i].count = 0
      BY <2>2, Zenon
    <3>3. import'[i].count \in Nat
      BY <3>0
    <3>4. import'[i].count <= Total'
      BY <2>2, <3>1, <3>2, Zenon
    <3>5. import'[i].pc \notin Counting /\ import'[i].pc \notin {"write", "done"}
      BY <2>2 DEF Counting
    <3> QED BY <3>3, <3>4, <3>5 DEF Counts
  <2> QED BY <1>1, <1>2, <2>1, <2>2, <2>3
<1>10. ASSUME LiveEvent PROVE Goal
  <2>1. UNCHANGED events /\ live' = live + 1 /\ requests < MaxRequests /\ requests' = requests + 1
    BY <1>10 DEF LiveEvent, Request
  <2>2. Bounds'
    BY <2>1, WorkspaceAssumption DEF Bounds
  <2>3. Total \in Nat /\ Total' \in Nat /\ Total <= Total' /\ \A j : By(j)' = By(j)
    BY <2>1, TotalIs DEF Total, By, Bounds
  <2>4. ASSUME NEW j \in Imports PROVE Counts(j)'
    BY <1>10, <2>3, LiveIs, OtherCounts
  <2> QED BY <2>2, <2>4
<1>11. ASSUME NEW d \in Documents, TurnWrites(d) PROVE Goal
  <2>1. /\ UNCHANGED <<import, events, live>> /\ requests < MaxRequests /\ requests' = requests + 1
    BY <1>11 DEF TurnWrites, analytics, Request
  <2> QED BY <1>1, <1>2, <2>1, SameRests
<1>12. ASSUME Entities PROVE Goal
  <2>1. /\ UNCHANGED <<import, events, live>>
        /\ requests' = requests \/ (requests < MaxRequests /\ requests' = requests + 1)
    BY <1>12, EntitiesAre
  <2> QED BY <1>1, <1>2, <2>1, SameRests
<1> HIDE DEF Goal
<1>13. ASSUME NEW i \in Imports, Works(i) PROVE Goal
  BY <1>13, <1>3, <1>4, <1>5, <1>6, <1>7, <1>8 DEF Works
<1>14. Goal
  BY <1>9, <1>10, <1>11, <1>12, <1>13, StepsAre
<1> QED BY <1>14 DEF Goal

\* No import adds an event twice, so their number is bounded.
LEMMA EventsAreFew ==
    ASSUME EventsHold, EventsTyped, IsFiniteSet(events)
    PROVE  Cardinality(events) <= Cardinality(Events) * Cardinality(Imports)
<1> DEFINE S == Events \X Imports
           f == [x \in events |-> <<x.id, x.by>>]
<1>1. IsFiniteSet(S) /\ Cardinality(S) = Cardinality(Events) * Cardinality(Imports)
  BY WorkspaceAssumption, FS_Product
<1>2. f \in [events -> S]
  BY DEF EventsTyped
<1>3. \A x, y \in events : f[x] = f[y] => x = y
  BY DEF EventsHold
<1>4. f \in Injection(events, S)
  BY <1>2, <1>3, Zenon DEF Injection, IsInjective
<1> HIDE DEF S, f
<1>5. Cardinality(events) <= Cardinality(S)
  BY <1>1, <1>4, FS_Injection, Zenon
<1> QED BY <1>1, <1>5

-----------------------------------------------------------------------------
(* The rows.                                                               *)

\* What a step of the entities does to the rows: one that is there stays or goes
\* for good, and it leaves the applications and what imports have drawn alone.
Mine(k) == rows[k].kind = "drawn" /\ rows[k].by \in Imports
Firm ==
    /\ \A k \in Ids : rows[k].kind \in Kinds \cup {"gone"} => rows'[k].kind \in Kinds \cup {"gone"}
    /\ \A k \in Ids : Mine(k) => rows'[k] = rows[k]
    /\ \A k \in Ids : rows'[k].kind = "application" \/ (rows'[k].kind = "drawn" /\ rows'[k].by \in Imports) =>
           Applying(k) /\ rows'[k].name = rows[k].name /\ rows'[k].by = rows[k].by

LEMMA RowIs ==
    ASSUME NEW kind \in Kinds \cup {"drawn"}, NEW n \in Names, NEW up \in Ids \cup {None}
    PROVE  /\ Row(kind, n, up) \in RowType
           /\ Row(kind, n, up).kind = kind /\ Row(kind, n, up).name = n /\ Row(kind, n, up).up = up
           /\ Row(kind, n, up).repo = None /\ Row(kind, n, up).by = None
           /\ Row(kind, n, up).token = "none"
BY DEF Row, Blank, RowType

LEMMA GoneIs ==
    /\ Gone \in RowType /\ Gone.kind = "gone" /\ Gone.repo = None /\ Gone.by = None
    /\ Gone.token = "none"
BY DEF Gone, Blank, RowType

LEMMA KindsAre ==
    /\ "unused" \notin Kinds /\ "drawn" \notin Kinds /\ "gone" \notin Kinds
    /\ "domain" \in Kinds /\ "squad" \in Kinds /\ "initiative" \in Kinds
    /\ "application" \in Kinds /\ "repository" \in Kinds /\ "project" \in Kinds
BY DEF Kinds

\* One row changes.
LEMMA OneRow ==
    ASSUME RowsHold, NEW k \in Ids, NEW r \in RowType, rows' = [rows EXCEPT ![k] = r],
           UNCHANGED import, secrets' = secrets \/ secrets' = secrets \cup {k}, ~Mine(k),
           r.kind # "unused",
           rows[k].kind \in Kinds => r.kind \in Kinds \ {"application"},
           rows[k].kind = "gone" => r.kind = "gone",
           r.kind # "application", r.kind = "drawn" => r.by = None /\ r.repo = None,
           r.kind \in Kinds => {r.up, r.repo} \subseteq Alive \cup {None},
           r.kind \in {"drawn", "repository"} /\ r.token # "none" =>
               (k \in secrets' <=> r.token = "stored")
    PROVE  RowsHold' /\ Firm
<1>1. rows \in [Ids -> RowType] /\ rows' \in [Ids -> RowType]
  BY DEF RowsHold
<1>2. rows'[k] = r /\ \A j \in Ids : j # k => rows'[j] = rows[j]
  BY <1>1
<1>3. Alive \subseteq Alive'
  BY <1>2 DEF Alive
<1>4. ReferencesHold'
  <2> SUFFICES ASSUME NEW j \in Alive'
               PROVE  {rows'[j].up, rows'[j].repo} \subseteq Alive' \cup {None}
    BY DEF ReferencesHold
  <2>1. CASE j = k
    BY <1>2, <1>3, <2>1 DEF Alive
  <2>2. CASE j # k
    <3>1. j \in Alive /\ rows'[j] = rows[j]
      BY <1>2, <2>2 DEF Alive
    <3>2. {rows[j].up, rows[j].repo} \subseteq Alive \cup {None}
      BY <3>1 DEF RowsHold, ReferencesHold
    <3> QED BY <1>3, <3>1, <3>2
  <2> QED BY <2>1, <2>2
<1>5. TokensKept' /\ secrets' \subseteq Ids
  <2>1. ASSUME NEW j \in Ids
        PROVE  /\ rows'[j].kind \in {"drawn", "repository"} /\ rows'[j].token # "none" =>
                      (j \in secrets' <=> rows'[j].token = "stored")
               /\ j \in secrets' => rows'[j].kind # "unused"
    <3>1. CASE j = k
      BY <1>2, <3>1
    <3>2. CASE j # k
      BY <1>2, <3>2 DEF RowsHold, TokensKept
    <3> QED BY <3>1, <3>2
  <2> QED BY <2>1 DEF TokensKept, RowsHold
<1>6. ASSUME NEW j \in Ids, rows'[j].kind = "drawn"
      PROVE  /\ rows'[j].repo = None
             /\ rows'[j].by \in Imports => import'[rows'[j].by].pc = "resolve" /\ rows'[j].token = "none"
  <2>1. CASE j = k
    BY <1>2, <1>6, <2>1, WorkspaceAssumption
  <2>2. CASE j # k
    BY <1>2, <1>6, <2>2 DEF RowsHold
  <2> QED BY <2>1, <2>2
<1>7. RowsHold'
  BY <1>1, <1>4, <1>5, <1>6 DEF RowsHold
<1>8. Firm
  BY <1>2, KindsAre, WorkspaceAssumption DEF Firm, Mine, Applying
<1> QED BY <1>7, <1>8

LEMMA CreateKeeps ==
    ASSUME RowsHold, NEW k \in Ids, NEW row \in RowType, Create(k, row),
           row.kind \in Kinds \ {"application"}, row.token = "none"
    PROVE  RowsHold' /\ Firm
<1>1. /\ rows[k].kind = "unused" /\ {row.up, row.repo} \subseteq Alive \cup {None}
      /\ rows' = [rows EXCEPT ![k] = row] /\ UNCHANGED <<secrets, import>>
  BY DEF Create, New, Unused, Table, Insertable
<1> QED BY <1>1, OneRow, KindsAre DEF Mine

LEMMA CreateRowKeeps ==
    ASSUME RowsHold, NEW k \in Ids, NEW kind \in Kinds \ {"application"}, NEW n \in Names,
           NEW up \in Ids \cup {None}, Create(k, Row(kind, n, up))
    PROVE  RowsHold' /\ Firm
<1> DEFINE row == Row(kind, n, up)
<1>1. row \in RowType /\ row.kind = kind
  BY RowIs
<1>2. row.token = "none"
  BY DEF Row, Blank
<1>3. Create(k, row)
  OBVIOUS
<1> HIDE DEF row
<1> QED BY <1>1, <1>2, <1>3, CreateKeeps

LEMMA StoreTokenKeeps ==
    ASSUME RowsHold, NEW k \in Ids, NEW n \in Names, StoreToken(k, n)
    PROVE  RowsHold' /\ Firm
<1>1. PICK s \in Table("squad"), ref \in {"stored", "env"} :
          /\ rows' = [rows EXCEPT ![k] = [Row("drawn", n, s) EXCEPT !.token = ref]]
          /\ secrets' = IF ref = "stored" THEN secrets \cup {k} ELSE secrets
  BY DEF StoreToken
<1> DEFINE row == Row("drawn", n, s)
           r == [row EXCEPT !.token = ref]
<1>2. s \in Ids \cup {None} /\ "drawn" \in Kinds \cup {"drawn"}
  BY DEF Table
<1>3. row \in RowType /\ row.kind = "drawn" /\ row.repo = None /\ row.by = None
  <2>1. Row("drawn", n, s) \in RowType
    BY <1>2, RowIs
  <2>2. Row("drawn", n, s).kind = "drawn"
    BY <1>2, RowIs
  <2>3. Row("drawn", n, s).repo = None /\ Row("drawn", n, s).by = None
    BY DEF Row, Blank
  <2> QED BY <2>1, <2>2, <2>3
<1> HIDE DEF row
<1>4. r \in RowType /\ r.kind = "drawn" /\ r.repo = None /\ r.by = None /\ r.token = ref
  BY <1>3 DEF RowType
<1>5. /\ rows[k].kind = "unused" /\ UNCHANGED import
      /\ rows' = [rows EXCEPT ![k] = r]
  BY <1>1 DEF StoreToken, New, Unused, Table, row
<1>6. /\ secrets' = secrets \/ secrets' = secrets \cup {k}
      /\ k \in secrets' <=> ref = "stored"
  BY <1>1, <1>5 DEF RowsHold, TokensKept
<1> HIDE DEF r
<1> QED BY <1>4, <1>5, <1>6, OneRow, KindsAre DEF Mine

LEMMA InsertKeeps ==
    ASSUME RowsHold, NEW k \in Ids, InsertRepository(k)
    PROVE  RowsHold' /\ Firm
<1> DEFINE row == [rows[k] EXCEPT !.kind = "repository"]
<1>1. /\ rows[k].kind = "drawn" /\ rows[k].token # "none" /\ UNCHANGED <<secrets, import>>
      /\ \/ Insertable(row) /\ rows' = [rows EXCEPT ![k] = row]
         \/ rows' = [rows EXCEPT ![k] = Gone]
  BY DEF InsertRepository
<1>2. /\ rows[k] \in RowType /\ secrets \subseteq Ids /\ rows[k].by \notin Imports
      /\ k \in secrets <=> rows[k].token = "stored"
  BY <1>1 DEF RowsHold, TokensKept
<1>3. /\ row \in RowType /\ row.kind = "repository" /\ row.token = rows[k].token
      /\ row.up = rows[k].up /\ row.repo = rows[k].repo
  BY <1>2, KindsAre DEF RowType
<1> HIDE DEF row
<1>4. CASE Insertable(row) /\ rows' = [rows EXCEPT ![k] = row]
  <2>1. {row.up, row.repo} \subseteq Alive \cup {None}
    BY <1>4 DEF Insertable
  <2> QED BY <1>1, <1>2, <1>3, <1>4, <2>1, OneRow, KindsAre DEF Mine
<1>5. CASE rows' = [rows EXCEPT ![k] = Gone]
  BY <1>1, <1>2, <1>5, OneRow, KindsAre, GoneIs DEF Mine
<1> QED BY <1>1, <1>4, <1>5

LEMMA RenameKeeps ==
    ASSUME RowsHold, NEW k \in Ids, NEW n \in Names, Rename(k, n)
    PROVE  RowsHold' /\ Firm
<1> DEFINE row == [rows[k] EXCEPT !.name = n]
<1>1. /\ rows[k].kind \in Kinds \ {"repository", "application"} /\ UNCHANGED <<secrets, import>>
      /\ Insertable(row) /\ rows' = [rows EXCEPT ![k].name = n]
  BY DEF Rename
<1>2. rows \in [Ids -> RowType] /\ rows[k] \in RowType /\ secrets \subseteq Ids
  BY <1>1 DEF RowsHold
<1>3. /\ row \in RowType /\ row.kind = rows[k].kind /\ row.up = rows[k].up /\ row.repo = rows[k].repo
      /\ rows' = [rows EXCEPT ![k] = row]
  BY <1>1, <1>2 DEF RowType
<1> HIDE DEF row
<1>4. {row.up, row.repo} \subseteq Alive \cup {None}
  BY <1>1 DEF Insertable
<1> QED BY <1>1, <1>2, <1>3, <1>4, OneRow, KindsAre DEF Mine

LEMMA DeleteKeeps ==
    ASSUME RowsHold, NEW k, NEW removed, Delete(k, removed),
           \A j \in {k} \cup removed : j \in Alive /\ rows[j].kind # "application"
    PROVE  RowsHold' /\ Firm
<1> DEFINE dead == {k} \cup removed
           Cleared(j) == [rows[j] EXCEPT !.up   = IF @ \in dead THEN None ELSE @,
                                         !.repo = IF @ \in dead THEN None ELSE @]
<1>1. /\ rows' = [j \in Ids |-> IF j \in dead THEN Gone ELSE IF j \notin Alive THEN rows[j] ELSE Cleared(j)]
      /\ UNCHANGED <<secrets, import>>
  BY DEF Delete, Without
<1>2. rows \in [Ids -> RowType] /\ secrets \subseteq Ids
  BY DEF RowsHold
<1>3. ASSUME NEW j \in Ids
      PROVE  /\ Cleared(j) \in RowType /\ Cleared(j).kind = rows[j].kind
             /\ Cleared(j).name = rows[j].name /\ Cleared(j).by = rows[j].by
             /\ Cleared(j).token = rows[j].token
             /\ Cleared(j).up = IF rows[j].up \in dead THEN None ELSE rows[j].up
             /\ Cleared(j).repo = IF rows[j].repo \in dead THEN None ELSE rows[j].repo
  <2> DEFINE u == IF rows[j].up \in dead THEN None ELSE rows[j].up
             p == IF rows[j].repo \in dead THEN None ELSE rows[j].repo
             c == [rows[j] EXCEPT !.up = u, !.repo = p]
  <2>1. rows[j] \in RowType
    BY <1>2
  <2>2. u \in Ids \cup {None} /\ p \in Ids \cup {None}
    BY <2>1 DEF RowType
  <2>3. Cleared(j) = c
    OBVIOUS
  <2> HIDE DEF u, p
  <2>4. c \in RowType /\ c.kind = rows[j].kind /\ c.name = rows[j].name /\ c.by = rows[j].by
        /\ c.token = rows[j].token /\ c.up = u /\ c.repo = p
    BY <2>1, <2>2 DEF RowType
  <2> QED BY <2>3, <2>4 DEF u, p
<1> HIDE DEF Cleared
<1>4. \A j \in Ids : /\ j \in dead => rows'[j] = Gone
                     /\ j \notin dead /\ j \notin Alive => rows'[j] = rows[j]
                     /\ j \notin dead /\ j \in Alive => rows'[j] = Cleared(j)
  BY <1>1
<1>5. rows' \in [Ids -> RowType]
  <2>1. \A j \in Ids : rows'[j] \in RowType
    BY <1>2, <1>3, <1>4, GoneIs
  <2> QED BY <1>1, <2>1
<1>6. \A j \in Ids : j \in Alive' <=> j \in Alive /\ j \notin dead
  BY <1>3, <1>4, GoneIs, KindsAre DEF Alive
<1>7. ReferencesHold'
  <2> SUFFICES ASSUME NEW j \in Alive'
               PROVE  {rows'[j].up, rows'[j].repo} \subseteq Alive' \cup {None}
    BY DEF ReferencesHold
  <2>1. j \in Ids /\ j \in Alive /\ j \notin dead
    BY <1>6 DEF Alive
  <2>2. {rows[j].up, rows[j].repo} \subseteq Alive \cup {None}
    BY <2>1 DEF RowsHold, ReferencesHold
  <2>3. /\ rows'[j].up = IF rows[j].up \in dead THEN None ELSE rows[j].up
        /\ rows'[j].repo = IF rows[j].repo \in dead THEN None ELSE rows[j].repo
    BY <1>3, <1>4, <2>1
  <2>4. Alive \subseteq Ids
    BY DEF Alive
  <2> QED BY <1>6, <2>2, <2>3, <2>4
<1>8. \A j \in Ids : rows'[j].kind # "gone" =>
          /\ rows'[j].kind = rows[j].kind /\ rows'[j].name = rows[j].name
          /\ rows'[j].by = rows[j].by /\ rows'[j].token = rows[j].token
  BY <1>3, <1>4, GoneIs
<1>9. \A j \in Ids : rows[j].kind = "drawn" => rows'[j] = rows[j]
  BY <1>4, KindsAre DEF Alive
<1>10. ASSUME NEW j \in Ids, rows'[j].kind = "drawn"
       PROVE  /\ rows'[j].repo = None
              /\ rows'[j].by \in Imports => import'[rows'[j].by].pc = "resolve" /\ rows'[j].token = "none"
  BY <1>1, <1>8, <1>9, <1>10 DEF RowsHold
<1>11. RowsHold'
  <2>1. TokensKept'
    BY <1>1, <1>3, <1>4, <1>8 DEF RowsHold, TokensKept
  <2> QED BY <1>1, <1>2, <1>5, <1>7, <1>10, <2>1 DEF RowsHold
<1>12. Firm
  <2>1. \A j \in Ids : rows[j].kind \in Kinds \cup {"gone"} => rows'[j].kind \in Kinds \cup {"gone"}
    BY <1>3, <1>4, GoneIs
  <2> QED BY <1>8, <1>9, <2>1 DEF Firm, Mine, Applying
<1> QED BY <1>11, <1>12

LEMMA EntitiesKeep ==
    ASSUME RowsHold, Entities
    PROVE  RowsHold' /\ Firm
<1>1. ASSUME NEW k \in Ids, NEW n \in Names, CreateDomain(k, n) PROVE RowsHold' /\ Firm
  BY <1>1, CreateRowKeeps, KindsAre DEF CreateDomain
<1>2. ASSUME NEW k \in Ids, NEW n \in Names, CreateInitiative(k, n) PROVE RowsHold' /\ Firm
  BY <1>2, CreateRowKeeps, KindsAre DEF CreateInitiative
<1>3. ASSUME NEW k \in Ids, NEW n \in Names, CreateSquad(k, n) PROVE RowsHold' /\ Firm
  <2>1. PICK d \in Table("domain") \cup {None} : Create(k, Row("squad", n, d))
    BY <1>3 DEF CreateSquad
  <2>2. d \in Ids \cup {None}
    BY DEF Table
  <2> QED BY <2>1, <2>2, CreateRowKeeps, KindsAre
<1>4. ASSUME NEW k \in Ids, NEW n \in Names, CreateRepository(k, n) PROVE RowsHold' /\ Firm
  <2>1. PICK s \in Table("squad") : Create(k, Row("repository", n, s))
    BY <1>4 DEF CreateRepository
  <2>2. s \in Ids \cup {None}
    BY DEF Table
  <2> QED BY <2>1, <2>2, CreateRowKeeps, KindsAre
<1>5. ASSUME NEW k \in Ids, NEW n \in Names, CreateProject(k, n) PROVE RowsHold' /\ Firm
  <2>1. PICK s \in Table("squad"), p \in Table("repository") \cup {None} :
            Create(k, [Row("project", n, s) EXCEPT !.repo = p])
    BY <1>5 DEF CreateProject
  <2>2. s \in Ids \cup {None} /\ p \in Ids \cup {None}
    BY DEF Table
  <2> DEFINE row == Row("project", n, s)
             r == [row EXCEPT !.repo = p]
  <2>6. "project" \in Kinds \cup {"drawn"}
    BY KindsAre
  <2>3. row \in RowType /\ row.kind = "project" /\ row.token = "none"
    <3>1. Row("project", n, s) \in RowType
      BY <2>2, <2>6, RowIs
    <3>2. Row("project", n, s).kind = "project"
      BY <2>2, <2>6, RowIs
    <3>3. Row("project", n, s).token = "none"
      BY DEF Row, Blank
    <3> QED BY <3>1, <3>2, <3>3
  <2> HIDE DEF row
  <2>4. r \in RowType /\ r.kind = "project" /\ r.token = "none"
    BY <2>2, <2>3 DEF RowType
  <2>5. Create(k, r)
    BY <2>1 DEF row
  <2> HIDE DEF r
  <2> QED BY <2>4, <2>5, CreateKeeps, KindsAre
<1>6. ASSUME NEW k \in Ids, DeleteDomain(k) \/ DeleteInitiative(k) \/ DeleteRepository(k) \/ DeleteProject(k)
      PROVE  RowsHold' /\ Firm
  <2>1. Delete(k, {}) /\ rows[k].kind \in Kinds /\ rows[k].kind # "application"
    BY <1>6, KindsAre DEF DeleteDomain, DeleteInitiative, DeleteRepository, DeleteProject, Table
  <2> QED BY <2>1, DeleteKeeps DEF Alive
<1>7. ASSUME NEW k \in Ids, DeleteSquad(k) PROVE RowsHold' /\ Firm
  <2> DEFINE dead == {j \in Table("repository") \cup Table("project") : rows[j].up = k}
  <2>1. Delete(k, dead) /\ rows[k].kind = "squad"
    BY <1>7 DEF DeleteSquad, Table
  <2>2. \A j \in {k} \cup dead : j \in Alive /\ rows[j].kind # "application"
    BY <2>1, KindsAre DEF Alive, Table
  <2> HIDE DEF dead
  <2> QED BY <2>1, <2>2, DeleteKeeps
<1> QED BY <1>1, <1>2, <1>3, <1>4, <1>5, <1>6, <1>7, StoreTokenKeeps, InsertKeeps, RenameKeeps DEF Entities

\* What a step of an import does to the rows.
Stable == \A k \in Ids : rows[k].kind \in Kinds \cup {"gone"} => rows'[k].kind \in Kinds \cup {"gone"}
Others(i) == \A k \in Ids : Mine(k) /\ rows[k].by # i => rows'[k] = rows[k]

\* It looks its application up, or draws a row where there is none.
Finds(i, n, a, b) ==
    /\ import'[i].initiative = a /\ import'[i].application = b /\ b \in Ids
    /\ a = None \/ (a \in Ids /\ rows[a].kind = "initiative")
    /\ \/ rows' = rows /\ rows[b].kind = "application"
       \/ /\ \A k \in Ids : rows[k].kind = "application" => rows[k].name # n
          /\ rows[b].kind = "unused"
          /\ \E r \in RowType :
                 /\ rows' = [rows EXCEPT ![b] = r]
                 /\ r.kind = "drawn" /\ r.name = n /\ r.repo = None
                 /\ r.token = "none" /\ r.by = i

LEMMA LookUpRows ==
    ASSUME Shaped, RowsHold, NEW i \in Imports, NEW n \in Names, LookUp(i, n)
    PROVE  \E a, b : Finds(i, n, a, b)
<1>1. PICK a \in Initiatives(i, n), b \in FoundOrNew(n) :
          /\ Chosen(i, n, a, b) /\ b \in Ids
          /\ a \in Ids \cup {None} /\ (a # None => rows[a].kind = "initiative")
          /\ import'[i].initiative = a /\ import'[i].application = b
  BY LookUpIs
<1> DEFINE row == Row("drawn", n, a)
           r == [row EXCEPT !.by = i]
<1>2. r \in RowType /\ r.kind = "drawn" /\ r.name = n /\ r.repo = None /\ r.token = "none" /\ r.by = i
  <2>1. "drawn" \in Kinds \cup {"drawn"}
    OBVIOUS
  <2>2. row \in RowType
    BY <1>1, <2>1, RowIs
  <2>3. row.kind = "drawn" /\ row.name = n /\ row.repo = None /\ row.token = "none"
    BY DEF Row, Blank
  <2> HIDE DEF row
  <2> QED BY <2>2, <2>3 DEF RowType
<1>3. rows' = IF b \in Unused THEN [rows EXCEPT ![b] = r] ELSE rows
  BY <1>1 DEF Chosen
<1> HIDE DEF r
<1>4. CASE b \in Unused
  <2>1. rows[b].kind = "unused"
    BY <1>4 DEF Unused, Table
  <2>2. Hits("application", n) = {}
    BY <1>1, <2>1 DEF FoundOrNew, Hits, Table
  <2>3. \A k \in Ids : rows[k].kind = "application" => rows[k].name # n
    BY <2>2 DEF Hits, Table
  <2>4. Finds(i, n, a, b)
    BY <1>1, <1>2, <1>3, <1>4, <2>1, <2>3 DEF Finds
  <2> QED BY <2>4
<1>5. CASE b \notin Unused
  <2>1. rows[b].kind = "application"
    BY <1>1, <1>5 DEF FoundOrNew, Hits, Table, New
  <2>2. Finds(i, n, a, b)
    BY <1>1, <1>3, <1>5, <2>1 DEF Finds
  <2> QED BY <2>2
<1> QED BY <1>4, <1>5

LEMMA LookUpKeeps ==
    ASSUME Shaped, RowsHold, NEW i \in Imports, NEW n \in Names, LookUp(i, n)
    PROVE  RowsHold' /\ Stable /\ Others(i)
<1>1. /\ import[i].pc = "look up" /\ import'[i].pc = "resolve" /\ UNCHANGED secrets
      /\ \A j \in Imports : j # i => import'[j].pc = import[j].pc
  BY LookUpIs DEF Moves, Rests
<1>2. rows \in [Ids -> RowType] /\ secrets \subseteq Ids
  BY DEF RowsHold
<1>3. PICK a, b : Finds(i, n, a, b)
  BY LookUpRows
<1>7. b \in Ids
  BY <1>3 DEF Finds
<1>4. \A k \in Ids : Mine(k) => rows[k].by # i
  BY <1>1 DEF Mine, RowsHold
<1>5. CASE rows' = rows
  <2>1. \A k \in Ids : rows'[k].kind = "drawn" =>
            /\ rows'[k].repo = None
            /\ rows'[k].by \in Imports => import'[rows'[k].by].pc = "resolve" /\ rows'[k].token = "none"
    BY <1>1, <1>4, <1>5 DEF RowsHold, Mine
  <2>2. ReferencesHold' /\ Alive' = Alive
    BY <1>5 DEF RowsHold, ReferencesHold, Alive
  <2>3. TokensKept'
    BY <1>1, <1>5 DEF RowsHold, TokensKept
  <2> QED BY <1>1, <1>2, <1>5, <2>1, <2>2, <2>3 DEF RowsHold, Stable, Others
<1>6. ASSUME NEW r \in RowType, rows' = [rows EXCEPT ![b] = r], rows[b].kind = "unused",
             r.kind = "drawn", r.repo = None, r.token = "none", r.by = i
      PROVE  RowsHold' /\ Stable /\ Others(i)
  <2>1. rows' \in [Ids -> RowType] /\ rows'[b] = r /\ \A j \in Ids : j # b => rows'[j] = rows[j]
    BY <1>2, <1>7, <1>6
  <2>2. Alive' = Alive /\ b \notin Alive
    BY <1>6, <2>1, KindsAre DEF Alive
  <2>3. ReferencesHold'
    <3> SUFFICES ASSUME NEW k \in Alive PROVE {rows'[k].up, rows'[k].repo} \subseteq Alive \cup {None}
      BY <2>2 DEF ReferencesHold
    <3>1. rows'[k] = rows[k]
      BY <2>1, <2>2 DEF Alive
    <3> QED BY <3>1 DEF RowsHold, ReferencesHold
  <2>4. \A k \in Ids : rows'[k].kind = "drawn" =>
            /\ rows'[k].repo = None
            /\ rows'[k].by \in Imports => import'[rows'[k].by].pc = "resolve" /\ rows'[k].token = "none"
    BY <1>1, <1>4, <1>6, <2>1 DEF RowsHold, Mine
  <2>5. TokensKept'
    BY <1>1, <1>6, <2>1 DEF RowsHold, TokensKept
  <2>6. RowsHold'
    BY <1>1, <1>2, <2>1, <2>3, <2>4, <2>5 DEF RowsHold
  <2>7. Stable /\ Others(i)
    BY <1>6, <2>1, KindsAre DEF Stable, Others, Mine
  <2> QED BY <2>6, <2>7
<1> QED BY <1>3, <1>5, <1>6 DEF Finds

\* Its transaction commits.
LEMMA ResolveRows ==
    ASSUME RowsHold, NEW i \in Imports, Resolve(i)
    PROVE  /\ rows' \in [Ids -> RowType]
           /\ \A k \in Ids : /\ k \notin Drawn(i) => rows'[k] = rows[k]
                             /\ k \in Drawn(i) =>
                                    /\ rows'[k].kind = "application" /\ rows'[k].name = rows[k].name
                                    /\ rows'[k].up = rows[k].up /\ rows'[k].repo = rows[k].repo
                                    /\ rows'[k].by = rows[k].by /\ rows'[k].token = rows[k].token
<1>1. rows' = [k \in Ids |-> IF k \in Drawn(i) THEN [rows[k] EXCEPT !.kind = "application"] ELSE rows[k]]
  BY DEF Resolve
<1>2. rows \in [Ids -> RowType]
  BY DEF RowsHold
<1>3. ASSUME NEW k \in Ids, NEW r, r = [rows[k] EXCEPT !.kind = "application"]
      PROVE  /\ r \in RowType
             /\ r.kind = "application" /\ r.name = rows[k].name /\ r.up = rows[k].up
             /\ r.repo = rows[k].repo /\ r.by = rows[k].by /\ r.token = rows[k].token
  <2>1. rows[k] \in RowType
    BY <1>2
  <2> QED BY <1>3, <2>1, KindsAre DEF RowType
<1>4. \A k \in Ids : rows'[k] \in RowType
  BY <1>1, <1>2, <1>3
<1> QED BY <1>1, <1>3, <1>4

LEMMA ResolveKeeps ==
    ASSUME Shaped, RowsHold, NEW i \in Imports, Resolve(i)
    PROVE  RowsHold' /\ Stable /\ Others(i)
<1>1. UNCHANGED secrets /\ \A j \in Imports : j # i => import'[j].pc = import[j].pc
  BY GotoIs DEF Resolve, Moves, Rests
<1>2. /\ rows' \in [Ids -> RowType]
      /\ \A k \in Ids : /\ k \notin Drawn(i) => rows'[k] = rows[k]
                        /\ k \in Drawn(i) =>
                               /\ rows'[k].kind = "application" /\ rows'[k].token = rows[k].token
                               /\ rows'[k].up = rows[k].up /\ rows'[k].repo = rows[k].repo
  BY ResolveRows
<1>3. \A k \in Drawn(i) : rows[k].kind = "drawn" /\ rows[k].repo = None /\ rows[k].up \in Alive \cup {None}
  BY DEF Resolve, Drawn, RowsHold
<1>4. Alive \subseteq Alive' /\ \A k \in Alive' : k \in Alive \/ k \in Drawn(i)
  BY <1>2, <1>3, KindsAre DEF Alive
<1>5. ReferencesHold'
  <2> SUFFICES ASSUME NEW k \in Alive' PROVE {rows'[k].up, rows'[k].repo} \subseteq Alive \cup {None}
    BY <1>4 DEF ReferencesHold
  <2>1. k \in Ids
    BY DEF Alive
  <2>2. CASE k \in Drawn(i)
    BY <1>2, <1>3, <2>1, <2>2
  <2>3. CASE k \notin Drawn(i)
    BY <1>2, <1>4, <2>1, <2>3 DEF RowsHold, ReferencesHold
  <2> QED BY <2>2, <2>3
<1>6. \A k \in Ids : rows'[k].kind = "drawn" =>
            /\ rows'[k].repo = None
            /\ rows'[k].by \in Imports => import'[rows'[k].by].pc = "resolve" /\ rows'[k].token = "none"
  BY <1>1, <1>2 DEF RowsHold, Drawn
<1>7. TokensKept'
  BY <1>1, <1>2 DEF RowsHold, TokensKept, Drawn
<1>8. RowsHold'
  BY <1>1, <1>2, <1>5, <1>6, <1>7 DEF RowsHold
<1>9. Stable /\ Others(i)
  BY <1>2, KindsAre DEF Stable, Others, Mine, Drawn
<1> QED BY <1>8, <1>9

\* Or fails.
LEMMA ResolveFailsRows ==
    ASSUME RowsHold, NEW i \in Imports, ResolveFails(i)
    PROVE  /\ rows' \in [Ids -> RowType]
           /\ \A k \in Ids : /\ k \notin Drawn(i) => rows'[k] = rows[k]
                             /\ k \in Drawn(i) => /\ rows'[k].kind = "drawn" /\ rows'[k].repo = None
                                                  /\ rows'[k].by = None /\ rows'[k].token = "none"
<1> DEFINE r == [Gone EXCEPT !.kind = "drawn"]
<1>1. rows' = [k \in Ids |-> IF k \in Drawn(i) THEN r ELSE rows[k]]
  BY DEF ResolveFails
<1>2. r \in RowType /\ r.kind = "drawn" /\ r.repo = None /\ r.by = None /\ r.token = "none"
  BY GoneIs DEF RowType
<1> HIDE DEF r
<1>3. rows \in [Ids -> RowType]
  BY DEF RowsHold
<1> QED BY <1>1, <1>2, <1>3

LEMMA ResolveFailsKeeps ==
    ASSUME Shaped, RowsHold, NEW i \in Imports, ResolveFails(i)
    PROVE  RowsHold' /\ Stable /\ Others(i)
<1>1. UNCHANGED secrets /\ \A j \in Imports : j # i => import'[j].pc = import[j].pc
  BY ResolveFailsIs DEF ResolveFails, Moves, Rests
<1>2. /\ rows' \in [Ids -> RowType]
      /\ \A k \in Ids : /\ k \notin Drawn(i) => rows'[k] = rows[k]
                        /\ k \in Drawn(i) => /\ rows'[k].kind = "drawn" /\ rows'[k].repo = None
                                             /\ rows'[k].by = None /\ rows'[k].token = "none"
  BY ResolveFailsRows
<1>3. Alive' = Alive /\ \A k \in Alive : rows'[k] = rows[k]
  BY <1>2, KindsAre DEF Alive, Drawn
<1>4. ReferencesHold'
  BY <1>3 DEF ReferencesHold, RowsHold
<1>5. \A k \in Ids : rows'[k].kind = "drawn" =>
            /\ rows'[k].repo = None
            /\ rows'[k].by \in Imports => import'[rows'[k].by].pc = "resolve" /\ rows'[k].token = "none"
  BY <1>1, <1>2, WorkspaceAssumption DEF RowsHold, Drawn
<1>6. TokensKept'
  BY <1>1, <1>2 DEF RowsHold, TokensKept, Drawn
<1>7. RowsHold'
  BY <1>1, <1>2, <1>4, <1>5, <1>6 DEF RowsHold
<1>8. Stable /\ Others(i)
  BY <1>2, KindsAre DEF Stable, Others, Mine, Drawn
<1> QED BY <1>7, <1>8

\* The other steps leave the rows alone, and no resolution ends.
LEMMA SameRows ==
    ASSUME RowsHold, UNCHANGED <<rows, secrets>>,
           \A j \in Imports : import[j].pc = "resolve" => import'[j].pc = "resolve"
    PROVE  RowsHold' /\ Stable
<1>1. ReferencesHold' /\ Alive' = Alive /\ TokensKept'
  BY DEF RowsHold, ReferencesHold, Alive, TokensKept
<1> QED BY <1>1 DEF RowsHold, Stable

\* A step that is not of the rows.
Elsewhere(i) ==
    /\ Works(i) /\ ~Resolve(i) /\ ~ResolveFails(i)
    /\ \A n \in Names : ~LookUp(i, n)

LEMMA ElsewhereIs ==
    ASSUME Shaped, Total \in Int, NEW i \in Imports, Elsewhere(i)
    PROVE  /\ UNCHANGED <<rows, secrets>> /\ import[i].pc # "resolve" /\ import'[i].pc # "resolve"
           /\ KeepsFound(i) /\ import'[i].unsure = import[i].unsure
           /\ <<import[i].pc, import'[i].pc>> \in
                  {<<"look up", "count">>, <<"count", "ingest">>, <<"ingest", "ingest">>,
                   <<"ingest", "mark">>, <<"mark", "append">>, <<"append", "ingest">>,
                   <<"append", "failed">>, <<"ingest", "write">>, <<"write", "write">>,
                   <<"write", "failed">>, <<"write", "done">>}
<1> DEFINE Goal ==
           /\ UNCHANGED <<rows, secrets>> /\ import[i].pc # "resolve" /\ import'[i].pc # "resolve"
           /\ KeepsFound(i) /\ import'[i].unsure = import[i].unsure
           /\ <<import[i].pc, import'[i].pc>> \in
                  {<<"look up", "count">>, <<"count", "ingest">>, <<"ingest", "ingest">>,
                   <<"ingest", "mark">>, <<"mark", "append">>, <<"append", "ingest">>,
                   <<"append", "failed">>, <<"ingest", "write">>, <<"write", "write">>,
                   <<"write", "failed">>, <<"write", "done">>}
<1>1. ASSUME NEW n \in Names, NoInitiative(i, n) PROVE Goal
  <2>1. Goto(i, "count") /\ import[i].pc = "look up" /\ UNCHANGED <<rows, secrets>>
    BY <1>1 DEF NoInitiative, tables
  <2> QED BY <2>1, GotoIs DEF Moves
<1>2. ASSUME AppendFails(i) PROVE Goal
  <2>1. Goto(i, "failed") /\ import[i].pc = "append" /\ UNCHANGED <<rows, secrets>>
    BY <1>2 DEF AppendFails, tables
  <2> QED BY <2>1, GotoIs DEF Moves
<1>3. ASSUME WriteFails(i) PROVE Goal
  <2>1. Goto(i, "failed") /\ import[i].pc = "write" /\ UNCHANGED <<rows, secrets>>
    BY <1>3 DEF WriteFails, tables
  <2> QED BY <2>1, GotoIs DEF Moves
<1>4. ASSUME Answer(i) PROVE Goal
  <2>1. Goto(i, "done") /\ import[i].pc = "write" /\ UNCHANGED <<rows, secrets>>
    BY <1>4 DEF Answer, tables
  <2> QED BY <2>1, GotoIs DEF Moves
<1>5. ASSUME NEW d \in Documents, PutArtifact(i, d) PROVE Goal
  <2>1. UNCHANGED <<rows, secrets>>
    BY <1>5 DEF PutArtifact, tables
  <2> QED BY <1>5, <2>1, PutIs DEF Moves
<1>6. ASSUME Count(i) PROVE Goal
  BY <1>6, CountIs, LooksAre DEF Moves
<1>7. ASSUME Check(i) PROVE Goal
  <2>1. /\ import[i].pc = "ingest" /\ import'[i].pc \in {"ingest", "mark"}
        /\ KeepsFound(i) /\ import'[i].unsure = import[i].unsure
    BY <1>7, CheckIs DEF Moves
  <2> QED BY <1>7, <2>1, LooksAre
<1>8. ASSUME Mark(i) PROVE Goal
  BY <1>8, MarkIs DEF Moves
<1>9. ASSUME AppendEvent(i) PROVE Goal
  <2>1. UNCHANGED <<rows, secrets>>
    BY <1>9 DEF AppendEvent, tables
  <2> QED BY <1>9, <2>1, AppendIs
<1>10. ASSUME CountAgain(i) PROVE Goal
  BY <1>10, CountAgainIs, LooksAre DEF Moves
<1> HIDE DEF Goal
<1>11. Goal
  BY <1>1, <1>2, <1>3, <1>4, <1>5, <1>6, <1>7, <1>8, <1>9, <1>10 DEF Elsewhere, Works, Aside
<1> QED BY <1>11 DEF Goal

\* The steps, as the rows see them.
LEMMA RowStepsAre ==
    ASSUME Shaped, Total \in Int, WorkspaceNext
    PROVE  \/ Entities
           \/ UNCHANGED <<rows, secrets>> /\ \A j \in Imports : Rests(j)
           \/ \E i \in Imports : UNCHANGED <<rows, secrets>> /\ \E payload \in Payloads : Start(i, payload)
           \/ \E i \in Imports : UNCHANGED <<rows, secrets>> /\ Elsewhere(i)
           \/ \E i \in Imports : (\E n \in Names : LookUp(i, n)) \/ Resolve(i) \/ ResolveFails(i)
<1>1. ASSUME NEW i \in Imports, Elsewhere(i) PROVE UNCHANGED <<rows, secrets>>
  BY <1>1, ElsewhereIs
<1>2. ASSUME NEW i \in Imports, NEW payload \in Payloads, Start(i, payload) PROVE UNCHANGED <<rows, secrets>>
  BY <1>2 DEF Start, tables
<1>3. ASSUME LiveEvent \/ \E d \in Documents : TurnWrites(d)
      PROVE  UNCHANGED <<rows, secrets>> /\ \A j \in Imports : Rests(j)
  <2>1. CASE LiveEvent
    BY <2>1, LiveIs DEF LiveEvent, Hears, tables
  <2>2. CASE \E d \in Documents : TurnWrites(d)
    BY <2>2, SameRests DEF TurnWrites, tables
  <2> QED BY <1>3, <2>1, <2>2
<1>4. \A i \in Imports : Works(i) => \/ Elsewhere(i) \/ Resolve(i) \/ ResolveFails(i)
                                     \/ \E n \in Names : LookUp(i, n)
  BY DEF Elsewhere
<1> QED BY <1>1, <1>2, <1>3, <1>4, StepsAre

LEMMA RowsKeep ==
    ASSUME Shaped, RowsHold, Total \in Int, WorkspaceNext
    PROVE  RowsHold' /\ Stable
<1>1. ASSUME Entities PROVE RowsHold' /\ Stable
  BY <1>1, EntitiesKeep DEF Firm, Stable
<1>2. ASSUME UNCHANGED <<rows, secrets>>, \A j \in Imports : Rests(j) PROVE RowsHold' /\ Stable
  <2>1. \A j \in Imports : import[j].pc = "resolve" => import'[j].pc = "resolve"
    BY <1>2 DEF Rests
  <2> QED BY <1>2, <2>1, SameRows
<1>3. ASSUME NEW i \in Imports, UNCHANGED <<rows, secrets>>, NEW payload \in Payloads, Start(i, payload)
      PROVE  RowsHold' /\ Stable
  <2>1. \A j \in Imports : import[j].pc = "resolve" => import'[j].pc = "resolve"
    BY <1>3, StartIs DEF Rests
  <2> QED BY <1>3, <2>1, SameRows
<1>4. ASSUME NEW i \in Imports, UNCHANGED <<rows, secrets>>, Elsewhere(i)
      PROVE  RowsHold' /\ Stable
  <2>1. import[i].pc # "resolve" /\ \A j \in Imports : j # i => Rests(j)
    BY <1>4, ElsewhereIs, OthersRest DEF Elsewhere
  <2>2. \A j \in Imports : import[j].pc = "resolve" => import'[j].pc = "resolve"
    BY <2>1 DEF Rests
  <2> QED BY <1>4, <2>2, SameRows
<1>5. ASSUME NEW i \in Imports, (\E n \in Names : LookUp(i, n)) \/ Resolve(i) \/ ResolveFails(i)
      PROVE  RowsHold' /\ Stable
  BY <1>5, LookUpKeeps, ResolveKeeps, ResolveFailsKeeps
<1> QED BY <1>1, <1>2, <1>3, <1>4, <1>5, RowStepsAre

\* Nobody becomes an applicant.
LEMMA TwinsStay ==
    ASSUME TwinsHold,
           \A i, j \in Imports : Overlapped(i, j) => i \in import'[j].met \/ j \in import'[i].met,
           \A k \in Ids : rows'[k].kind = "application" \/ (rows'[k].kind = "drawn" /\ rows'[k].by \in Imports) =>
               Applying(k) /\ rows'[k].name = rows[k].name /\ rows'[k].by = rows[k].by
    PROVE  TwinsHold'
<1> SUFFICES ASSUME NEW j \in Ids, NEW k \in Ids, j # k, Applying(j)', Applying(k)',
                    rows'[j].name = rows'[k].name
             PROVE  ({rows[j].by, rows[k].by} \subseteq Imports /\ Overlapped(rows[j].by, rows[k].by))'
  BY DEF TwinsHold
<1>1. /\ Applying(j) /\ rows'[j].name = rows[j].name /\ rows'[j].by = rows[j].by
      /\ Applying(k) /\ rows'[k].name = rows[k].name /\ rows'[k].by = rows[k].by
  BY DEF Applying
<1>2. {rows[j].by, rows[k].by} \subseteq Imports /\ Overlapped(rows[j].by, rows[k].by)
  BY <1>1 DEF TwinsHold
<1> QED BY <1>1, <1>2 DEF Overlapped

LEMMA TwinsKeep ==
    ASSUME Shaped, RowsHold, TwinsHold, MeetsHold, Total \in Int, WorkspaceNext
    PROVE  TwinsHold'
<1>0. GoOn
  BY AllGoOn
<1>1. \A i, j \in Imports : Overlapped(i, j) => i \in import'[j].met \/ j \in import'[i].met
  BY <1>0, MetsGrow DEF Overlapped
<1>2. ASSUME Entities PROVE TwinsHold'
  BY <1>1, <1>2, EntitiesKeep, TwinsStay DEF Firm
<1>3. ASSUME UNCHANGED rows PROVE TwinsHold'
  BY <1>1, <1>3, TwinsStay DEF Applying
<1>4. ASSUME NEW i \in Imports, Resolve(i) PROVE TwinsHold'
  <2>1. \A k \in Ids : /\ k \notin Drawn(i) => rows'[k] = rows[k]
                       /\ k \in Drawn(i) =>
                              /\ rows'[k].kind = "application" /\ rows'[k].name = rows[k].name
                              /\ rows'[k].by = rows[k].by
    BY <1>4, ResolveRows
  <2> QED BY <1>1, <2>1, TwinsStay DEF Applying, Drawn
<1>5. ASSUME NEW i \in Imports, ResolveFails(i) PROVE TwinsHold'
  <2>1. \A k \in Ids : /\ k \notin Drawn(i) => rows'[k] = rows[k]
                       /\ k \in Drawn(i) => rows'[k].kind = "drawn" /\ rows'[k].by = None
    BY <1>5, ResolveFailsRows
  <2> QED BY <1>1, <2>1, TwinsStay, WorkspaceAssumption DEF Applying, Drawn
<1>6. ASSUME NEW i \in Imports, NEW n \in Names, LookUp(i, n) PROVE TwinsHold'
  <2>1. PICK a, b : Finds(i, n, a, b)
    BY <1>6, LookUpRows
  <2>2. CASE rows' = rows
    BY <1>3, <2>2
  <2>3. ASSUME NEW r \in RowType, rows' = [rows EXCEPT ![b] = r], r.kind = "drawn", r.name = n, r.by = i,
               \A k \in Ids : rows[k].kind = "application" => rows[k].name # n
        PROVE  TwinsHold'
    <3>1. rows'[b] = r /\ \A k \in Ids : k # b => rows'[k] = rows[k]
      BY <2>1, <2>3 DEF RowsHold, Finds
    <3>2. import[i].pc = "look up" /\ i \in Running
      BY <1>6 DEF LookUp, Running, Over
    <3>3. ASSUME NEW k \in Ids, k # b, Applying(k), rows[k].name = n
          PROVE  rows[k].by \in Imports /\ Overlapped(rows[k].by, i) /\ Overlapped(i, rows[k].by)
      <4>1. rows[k].kind = "drawn" /\ rows[k].by \in Imports
        BY <2>3, <3>3 DEF Applying
      <4>2. import[rows[k].by].pc = "resolve"
        BY <4>1 DEF RowsHold
      <4>3. rows[k].by \in Running /\ rows[k].by # i
        BY <3>2, <4>1, <4>2 DEF Running, Over
      <4> QED BY <3>2, <4>1, <4>3 DEF MeetsHold
    <3> SUFFICES ASSUME NEW j \in Ids, NEW k \in Ids, j # k, Applying(j)', Applying(k)',
                        rows'[j].name = rows'[k].name
                 PROVE  ({rows[j].by, rows[k].by} \subseteq Imports /\ Overlapped(rows[j].by, rows[k].by))'
      BY DEF TwinsHold
    <3>4. CASE j = b
      <4>1. Applying(k) /\ rows[k].name = n /\ rows'[k].by = rows[k].by /\ rows'[j].by = i
        BY <2>3, <3>1, <3>4 DEF Applying
      <4>2. rows[k].by \in Imports /\ Overlapped(i, rows[k].by)
        BY <3>3, <3>4, <4>1
      <4> QED BY <1>1, <4>1, <4>2 DEF Overlapped
    <3>5. CASE k = b
      <4>1. Applying(j) /\ rows[j].name = n /\ rows'[j].by = rows[j].by /\ rows'[k].by = i
        BY <2>3, <3>1, <3>5 DEF Applying
      <4>2. rows[j].by \in Imports /\ Overlapped(rows[j].by, i)
        BY <3>3, <3>5, <4>1
      <4> QED BY <1>1, <4>1, <4>2 DEF Overlapped
    <3>6. CASE j # b /\ k # b
      <4>1. rows'[j] = rows[j] /\ rows'[k] = rows[k] /\ Applying(j) /\ Applying(k)
        BY <3>1, <3>6 DEF Applying
      <4>2. {rows[j].by, rows[k].by} \subseteq Imports /\ Overlapped(rows[j].by, rows[k].by)
        BY <4>1 DEF TwinsHold
      <4> QED BY <1>1, <4>1, <4>2 DEF Overlapped
    <3> QED BY <3>4, <3>5, <3>6
  <2> QED BY <2>1, <2>2, <2>3 DEF Finds
<1> QED BY <1>2, <1>3, <1>4, <1>5, <1>6, RowStepsAre

-----------------------------------------------------------------------------
(* What an import has found stays known.                                   *)

Found(j) ==
    /\ import[j].pc \in {"idle", "look up"} =>
           import[j].initiative = None /\ import[j].application = None
    /\ import[j].pc = "resolve" =>
           /\ Known(import[j].initiative)
           /\ Known(import[j].application) \/ import[j].application \in Drawn(j)
    /\ import[j].pc \in {"count", "ingest", "mark", "append"} =>
           (Known(import[j].initiative) /\ Known(import[j].application)) \/ import[j].unsure

LEMMA FoundIs == FoundHolds <=> \A j \in Imports : Found(j)
BY DEF FoundHolds, Found

\* It stays where it is: what it has found is still known, or still drawn.
LEMMA FoundStays ==
    ASSUME Shaped, Stable, NEW j \in Imports, Found(j),
           import'[j].initiative = import[j].initiative,
           import'[j].application = import[j].application,
           import'[j].unsure = import[j].unsure,
           \/ import'[j].pc = import[j].pc
           \/ <<import[j].pc, import'[j].pc>> \in
                  {<<"look up", "count">>, <<"count", "ingest">>, <<"ingest", "ingest">>,
                   <<"ingest", "mark">>, <<"mark", "append">>, <<"append", "ingest">>,
                   <<"append", "failed">>, <<"ingest", "write">>, <<"write", "write">>,
                   <<"write", "failed">>, <<"write", "done">>},
           import[j].pc = "resolve" => \A k \in Drawn(j) : rows'[k] = rows[k]
    PROVE  Found(j)'
<1>1. import[j].initiative \in Ids \cup {None} /\ import[j].application \in Ids \cup {None}
  BY DEF Shaped, Shape
<1>2. /\ Known(import[j].initiative) => Known(import[j].initiative)'
      /\ Known(import[j].application) => Known(import[j].application)'
  BY <1>1 DEF Known, Stable
<1>3. import[j].pc = "resolve" /\ import[j].application \in Drawn(j) => (import[j].application \in Drawn(j))'
  BY DEF Drawn
<1>4. CASE import'[j].pc = import[j].pc
  BY <1>2, <1>3, <1>4 DEF Found
<1>5. CASE import'[j].pc # import[j].pc
  <2>1. Known(None)'
    BY DEF Known
  <2>2. import[j].pc = "look up" => import'[j].initiative = None /\ import'[j].application = None
    BY DEF Found
  <2>3. import'[j].pc \notin {"idle", "look up", "resolve"} /\ import[j].pc # "resolve"
    BY <1>5
  <2>4. import'[j].pc \in {"count", "ingest", "mark", "append"} =>
            import[j].pc \in {"look up", "count", "ingest", "mark", "append"}
    BY <1>5
  <2>5. import'[j].pc \in {"count", "ingest", "mark", "append"} =>
            (Known(import[j].initiative)' /\ Known(import[j].application)') \/ import'[j].unsure
    <3>1. CASE import[j].pc = "look up"
      BY <2>2, <3>1 DEF Known
    <3>2. CASE import[j].pc \in {"count", "ingest", "mark", "append"}
      BY <1>2, <3>2 DEF Found
    <3> QED BY <2>4, <3>1, <3>2
  <2> QED BY <2>3, <2>5 DEF Found
<1> QED BY <1>4, <1>5

LEMMA FoundKeeps ==
    ASSUME Shaped, RowsHold, FoundHolds, Total \in Int, WorkspaceNext
    PROVE  FoundHolds'
<1>1. Stable /\ \A j \in Imports : Found(j)
  BY RowsKeep, FoundIs
<1>2. ASSUME NEW j \in Imports, Rests(j), \A k \in Drawn(j) : rows'[k] = rows[k]
      PROVE  Found(j)'
  BY <1>1, <1>2, FoundStays DEF Rests
<1>3. ASSUME Entities PROVE \A j \in Imports : Found(j)'
  <2>1. Firm /\ UNCHANGED import
    BY <1>3, EntitiesKeep, EntitiesAre
  <2>2. \A j \in Imports : \A k \in Drawn(j) : rows'[k] = rows[k]
    BY <2>1 DEF Firm, Mine, Drawn
  <2>3. \A j \in Imports : Rests(j)
    BY <2>1, SameRests
  <2> QED BY <1>2, <2>2, <2>3
<1>4. ASSUME UNCHANGED rows, \A j \in Imports : Rests(j) PROVE \A j \in Imports : Found(j)'
  BY <1>2, <1>4
<1>5. ASSUME NEW i \in Imports, UNCHANGED rows, NEW payload \in Payloads, Start(i, payload)
      PROVE  \A j \in Imports : Found(j)'
  <2>1. \A j \in Imports : j # i => Found(j)'
    BY <1>2, <1>5, StartIs
  <2>2. /\ import'[i].pc \in {"look up", "count"}
        /\ import'[i].initiative = None /\ import'[i].application = None
    BY <1>5, StartIs
  <2>3. Found(i)'
    BY <2>2 DEF Found, Known
  <2> QED BY <2>1, <2>3
<1>6. ASSUME NEW i \in Imports, UNCHANGED rows, Elsewhere(i)
      PROVE  \A j \in Imports : Found(j)'
  <2>1. \A j \in Imports : j # i => Rests(j)
    BY <1>6, OthersRest DEF Elsewhere
  <2>2. Found(i)'
    BY <1>1, <1>6, ElsewhereIs, FoundStays DEF KeepsFound
  <2> QED BY <1>2, <1>6, <2>1, <2>2
<1>7. ASSUME NEW i \in Imports, Others(i), \A j \in Imports : j # i => Rests(j)
      PROVE  \A j \in Imports : j # i => Found(j)'
  <2>1. \A j \in Imports : j # i => \A k \in Drawn(j) : rows'[k] = rows[k]
    BY <1>7 DEF Others, Mine, Drawn
  <2> QED BY <1>2, <1>7, <2>1
<1>8. ASSUME NEW i \in Imports, NEW n \in Names, LookUp(i, n)
      PROVE  \A j \in Imports : Found(j)'
  <2>1. Others(i) /\ import'[i].pc = "resolve" /\ \A j \in Imports : j # i => Rests(j)
    BY <1>8, LookUpKeeps, LookUpIs DEF Moves
  <2>2. PICK a, b : Finds(i, n, a, b)
    BY <1>8, LookUpRows
  <2>3. import'[i].initiative = a /\ import'[i].application = b /\ b \in Ids
    BY <2>2 DEF Finds
  <2>4. Known(a)'
    BY <1>1, <2>2, KindsAre DEF Finds, Known, Stable
  <2>5. Known(b)' \/ (rows'[b].kind = "drawn" /\ rows'[b].by = i)
    <3>1. CASE rows' = rows /\ rows[b].kind = "application"
      BY <3>1, KindsAre DEF Known
    <3>2. ASSUME NEW r \in RowType, rows' = [rows EXCEPT ![b] = r], r.kind = "drawn", r.by = i
          PROVE  rows'[b].kind = "drawn" /\ rows'[b].by = i
      BY <2>3, <3>2 DEF RowsHold
    <3> QED BY <2>2, <3>1, <3>2 DEF Finds
  <2>6. Found(i)'
    BY <2>1, <2>3, <2>4, <2>5 DEF Found, Drawn, Known
  <2> QED BY <1>7, <2>1, <2>6
<1>9. ASSUME NEW i \in Imports, Resolve(i)
      PROVE  \A j \in Imports : Found(j)'
  <2>1. /\ Others(i) /\ import[i].pc = "resolve" /\ import'[i].pc = "count" /\ KeepsFound(i)
        /\ \A j \in Imports : j # i => Rests(j)
    BY <1>9, ResolveKeeps, GotoIs DEF Resolve, Moves
  <2>2. \A k \in Drawn(i) : rows'[k].kind = "application"
    BY <1>9, ResolveRows DEF Drawn
  <2>3. import[i].initiative \in Ids \cup {None} /\ import[i].application \in Ids \cup {None}
    BY DEF Shaped, Shape
  <2>4. Known(import[i].initiative)' /\ Known(import[i].application)'
    <3>1. Known(import[i].initiative) /\ (Known(import[i].application) \/ import[i].application \in Drawn(i))
      BY <1>1, <2>1 DEF Found
    <3> QED BY <1>1, <2>1, <2>2, <2>3, <3>1, KindsAre DEF Known, Stable, KeepsFound
  <2>5. Found(i)'
    BY <2>1, <2>4 DEF Found
  <2> QED BY <1>7, <2>1, <2>5
<1>10. ASSUME NEW i \in Imports, ResolveFails(i)
       PROVE  \A j \in Imports : Found(j)'
  <2>1. /\ Others(i) /\ import'[i].pc = "count" /\ import'[i].unsure
        /\ \A j \in Imports : j # i => Rests(j)
    BY <1>10, ResolveFailsKeeps, ResolveFailsIs DEF Moves
  <2>2. Found(i)'
    BY <2>1 DEF Found
  <2> QED BY <1>7, <2>1, <2>2
<1>11. \A j \in Imports : Found(j)'
  BY <1>3, <1>4, <1>5, <1>6, <1>8, <1>9, <1>10, RowStepsAre
<1> QED BY <1>11 DEF FoundHolds, Found

LEMMA DimensionsKeep ==
    ASSUME Shaped, RowsHold, FoundHolds, EventsHold, EventsTyped, DimensionsExist, Total \in Int,
           WorkspaceNext
    PROVE  DimensionsExist'
<1>1. Stable /\ GoOn
  BY RowsKeep, AllGoOn
<1>2. ASSUME NEW e \in events, NEW k \in {e.initiative, e.application} \ {None}
      PROVE  rows'[k].kind \in Kinds \cup {"gone"} \/ import'[e.by].unsure
  <2>1. k \in Ids /\ e.by \in Imports
    BY DEF EventsTyped
  <2>2. import[e.by].pc # "idle"
    BY DEF EventsHold
  <2>3. rows[k].kind \in Kinds \cup {"gone"} \/ import[e.by].unsure
    BY DEF DimensionsExist
  <2> QED BY <1>1, <2>1, <2>2, <2>3, NobodyForgets DEF Stable
<1>3. ASSUME NEW i \in Imports, AppendEvent(i) PROVE DimensionsExist'
  <2>1. PICK x : /\ events' = events \cup {x} /\ x.id = import[i].event /\ x.by = i
                 /\ x.initiative = import[i].initiative /\ x.application = import[i].application
                 /\ x = [id |-> x.id, by |-> x.by, initiative |-> x.initiative,
                         application |-> x.application]
    BY <1>3, AppendIs
  <2>2. import[i].pc = "append" /\ import'[i].unsure = import[i].unsure
    BY <1>3, AppendIs
  <2>3. (Known(x.initiative) /\ Known(x.application)) \/ import[i].unsure
    BY <2>1, <2>2 DEF FoundHolds
  <2>4. x.initiative \in Ids \cup {None} /\ x.application \in Ids \cup {None}
    BY <2>1 DEF Shaped, Shape
  <2>5. \A k \in {x.initiative, x.application} \ {None} :
            rows'[k].kind \in Kinds \cup {"gone"} \/ import'[x.by].unsure
    BY <1>1, <2>1, <2>2, <2>3, <2>4 DEF Known, Stable
  <2> QED BY <1>2, <2>1, <2>5 DEF DimensionsExist
<1>4. ASSUME UNCHANGED events PROVE DimensionsExist'
  BY <1>2, <1>4 DEF DimensionsExist
<1>5. ASSUME NEW i \in Imports, Works(i), ~AppendEvent(i) PROVE UNCHANGED events
  BY <1>5, WorksAre
<1>6. ASSUME NEW i \in Imports, NEW payload \in Payloads, Start(i, payload) PROVE UNCHANGED events
  BY <1>6 DEF Start, analytics
<1>7. ASSUME Entities \/ LiveEvent \/ \E d \in Documents : TurnWrites(d) PROVE UNCHANGED events
  BY <1>7, EntitiesAre DEF LiveEvent, TurnWrites, analytics
<1> QED BY <1>3, <1>4, <1>5, <1>6, <1>7, StepsAre

-----------------------------------------------------------------------------
(* The invariant.                                                          *)

MostEvents == Cardinality(Events) * Cardinality(Imports)

LEMMA MostEventsIs == MostEvents \in Nat
  BY WorkspaceAssumption, FS_Product, FS_CardinalityType DEF MostEvents

LEMMA ShapeIs ==
    ASSUME NEW imp \in [Imports -> Shape],
           \A j \in Imports : imp[j].count \in 0 .. MostEvents + MaxRequests
    PROVE  imp \in [Imports -> ImportType]
<1>1. ASSUME NEW j \in Imports PROVE imp[j] \in ImportType
  <2> DEFINE r == imp[j]
  <2>1. r \in Shape /\ r.count \in 0 .. MostEvents + MaxRequests
    OBVIOUS
  <2> HIDE DEF r
  <2>2. r \in ImportType
    BY <2>1 DEF Shape, ImportType, MostEvents
  <2> QED BY <2>2 DEF r
<1> QED BY <1>1

OtherTypes == /\ mode \in Modes /\ seen \subseteq Events
              /\ documents \in [Documents -> Imports \cup {None, "turn"}]

LEMMA TypeIs ==
    Shaped /\ Bounds /\ CountsHold /\ EventsHold /\ EventsTyped /\ RowsHold /\ OtherTypes => WorkspaceTypeOK
<1> SUFFICES ASSUME Shaped, Bounds, CountsHold, EventsHold, EventsTyped, RowsHold, OtherTypes
             PROVE  WorkspaceTypeOK
  OBVIOUS
<1>1. Cardinality(events) <= MostEvents
  BY EventsAreFew DEF Bounds, MostEvents
<1>2. Total \in Nat /\ Total <= MostEvents + MaxRequests
  BY <1>1, TotalIs, MostEventsIs, WorkspaceAssumption DEF Bounds
<1>3. \A j \in Imports : import[j].count \in 0 .. MostEvents + MaxRequests
  BY <1>2, MostEventsIs, WorkspaceAssumption DEF Counts, CountsHold
<1>4. import \in [Imports -> ImportType]
  BY <1>3, ShapeIs DEF Shaped
<1>5. live \in 0 .. MaxRequests /\ requests \in 0 .. MaxRequests
  BY WorkspaceAssumption DEF Bounds
<1> QED BY <1>4, <1>5 DEF WorkspaceTypeOK, RowsHold, EventsTyped, OtherTypes

LEMMA InvIs ==
    ASSUME WorkspaceInv
    PROVE  /\ Shaped /\ Bounds /\ \A j \in Imports : Counts(j)
           /\ EventsTyped /\ Marked /\ Total \in Int
<1>1. Shaped
  <2>1. ASSUME NEW j \in Imports PROVE import[j] \in Shape
    <3> DEFINE r == import[j]
    <3>1. r \in ImportType
      BY DEF WorkspaceInv, WorkspaceTypeOK
    <3> HIDE DEF r
    <3>2. \A n \in 0 .. MostEvents + MaxRequests : n \in Int
      OBVIOUS
    <3>3. r \in Shape
      BY <3>1, <3>2 DEF Shape, ImportType, MostEvents
    <3> QED BY <3>3 DEF r
  <2> QED BY <2>1 DEF Shaped, WorkspaceInv, WorkspaceTypeOK
<1>2. Bounds /\ \A j \in Imports : Counts(j)
  BY NumbersAre DEF WorkspaceInv, CountsHold
<1>3. EventsTyped
  BY DEF WorkspaceInv, WorkspaceTypeOK, EventsTyped
<1>4. Marked
  BY SeenIs DEF WorkspaceInv
<1> QED BY <1>1, <1>2, <1>3, <1>4, TotalIs

LEMMA NoneLandKeeps ==
    ASSUME Shaped, Total \in Int, NoneLand, WorkspaceNext
    PROVE  NoneLand'
<1>1. SUFFICES ASSUME mode = "postgres" PROVE events' = {} /\ ~Batching'
  BY ModeStays DEF NoneLand
<1>2. events = {} /\ \A j \in Imports : import[j].pc \notin {"mark", "append"}
  BY <1>1 DEF NoneLand, Batching
<1>3. ASSUME NEW i \in Imports, Works(i)
      PROVE  events' = {} /\ import'[i].pc \notin {"mark", "append"}
  <2>1. ~Check(i) /\ ~Mark(i) /\ ~AppendEvent(i) /\ ~AppendFails(i)
    BY <1>1, <1>2 DEF Check, Mark, AppendEvent, AppendFails
  <2>2. UNCHANGED events
    BY <1>3, <2>1, WorksAre
  <2>3. CASE Aside(i)
    BY <1>2, <2>2, <2>3, AsideIs
  <2>4. CASE Count(i)
    BY <1>2, <2>2, <2>4, CountIs DEF Moves
  <2>5. CASE CountAgain(i)
    BY <1>2, <2>2, <2>5, CountAgainIs DEF Moves
  <2> QED BY <1>3, <2>1, <2>3, <2>4, <2>5 DEF Works
<1>4. ASSUME NEW i \in Imports, NEW payload \in Payloads, Start(i, payload)
      PROVE  events' = {} /\ import'[i].pc \notin {"mark", "append"}
  BY <1>2, <1>4, StartIs, StartLeaves
<1>5. ASSUME NEW i \in Imports, (\E payload \in Payloads : Start(i, payload)) \/ Works(i)
      PROVE  events' = {} /\ ~Batching'
  <2>1. events' = {} /\ import'[i].pc \notin {"mark", "append"}
    BY <1>3, <1>4, <1>5
  <2>2. \A j \in Imports : j # i => import'[j].pc = import[j].pc
    BY <1>5, OthersRest DEF Rests
  <2> QED BY <1>2, <2>1, <2>2 DEF Batching
<1>6. ASSUME Entities \/ LiveEvent \/ \E d \in Documents : TurnWrites(d)
      PROVE  events' = {} /\ ~Batching'
  <2>1. UNCHANGED events
    BY <1>6, EntitiesAre DEF LiveEvent, TurnWrites, analytics
  <2>2. \A j \in Imports : import'[j].pc = import[j].pc
    BY <1>6, EntitiesAre, LiveIs DEF Hears, Rests, TurnWrites
  <2> QED BY <1>2, <2>1, <2>2 DEF Batching
<1> QED BY <1>5, <1>6, StepsAre

LEMMA InvStep ==
    ASSUME WorkspaceInv, WorkspaceNext
    PROVE  WorkspaceInv'
<1>1. /\ Shaped /\ Bounds /\ \A j \in Imports : Counts(j)
      /\ EventsTyped /\ Marked /\ Total \in Int
  BY InvIs
<1>2. /\ WorkspaceTypeOK /\ RowsHold /\ TwinsHold
      /\ MeetsHold /\ FilesHold /\ SeenHolds /\ EventsHold /\ NumbersHold /\ FoundHolds
      /\ LandsOnce /\ CountsAreTrue /\ DimensionsExist /\ NoneLand
  BY DEF WorkspaceInv
<1>3. /\ seen \subseteq Events /\ documents \in [Documents -> Imports \cup {None, "turn"}]
      /\ mode \in Modes
  BY <1>2 DEF WorkspaceTypeOK
<1>4. Shaped' /\ mode' = mode
  BY <1>1, ShapedKeeps, ModeStays
<1>5. MeetsHold' /\ TwinsHold' /\ RowsHold' /\ FoundHolds' /\ DimensionsExist'
  BY <1>1, <1>2, MeetsKeep, TwinsKeep, RowsKeep, FoundKeeps, DimensionsKeep
<1>6. FilesHold' /\ documents' \in [Documents -> Imports \cup {None, "turn"}]
  BY <1>1, <1>2, <1>3, FilesKeep
<1>7. SeenHolds' /\ seen' \subseteq Events
  BY <1>1, <1>2, <1>3, SeenKeep
<1>8. EventsHold' /\ LandsOnce' /\ EventsTyped'
  BY <1>1, <1>2, EventsKeep
<1>9. Bounds' /\ \A j \in Imports : Counts(j)'
  BY <1>1, <1>2, NumbersKeep
<1>10. NumbersHold' /\ CountsAreTrue'
  <2>1. Bounds' /\ CountsHold'
    BY <1>9 DEF CountsHold
  <2> QED BY <2>1, NumbersAre, PTL
<1>11. WorkspaceTypeOK'
  <2>1. OtherTypes' /\ CountsHold'
    BY <1>3, <1>4, <1>6, <1>7, <1>9 DEF OtherTypes, CountsHold
  <2> QED BY <1>4, <1>5, <1>8, <1>9, <2>1, TypeIs, PTL
<1>12. NoneLand'
  BY <1>1, <1>2, NoneLandKeeps
<1> QED BY <1>5, <1>6, <1>7, <1>8, <1>10, <1>11, <1>12 DEF WorkspaceInv

LEMMA InvStutter == ASSUME WorkspaceInv, UNCHANGED workspaceVars PROVE WorkspaceInv'
<1> USE DEF workspaceVars
<1>1. WorkspaceTypeOK' /\ RowsHold' /\ TwinsHold'
  <2>1. WorkspaceTypeOK'
    BY DEF WorkspaceInv, WorkspaceTypeOK
  <2>2. RowsHold'
    BY DEF WorkspaceInv, RowsHold, ReferencesHold, Alive, TokensKept
  <2>3. TwinsHold'
    BY DEF WorkspaceInv, TwinsHold, Applying, Overlapped
  <2> QED BY <2>1, <2>2, <2>3
<1>2. MeetsHold' /\ FilesHold' /\ SeenHolds'
  <2>1. MeetsHold'
    BY DEF WorkspaceInv, MeetsHold, Running, Overlapped
  <2>2. FilesHold'
    BY DEF WorkspaceInv, FilesHold
  <2>3. SeenHolds'
    BY DEF WorkspaceInv, SeenHolds
  <2> QED BY <2>1, <2>2, <2>3
<1>3. EventsHold' /\ LandsOnce' /\ DimensionsExist' /\ NoneLand'
  <2>3. NoneLand'
    BY DEF WorkspaceInv, NoneLand, Batching
  <2>1. EventsHold'
    BY DEF WorkspaceInv, EventsHold, Adding, Overlapped
  <2>2. LandsOnce' /\ DimensionsExist'
    BY DEF WorkspaceInv, LandsOnce, DimensionsExist, Overlapped
  <2> QED BY <2>1, <2>2, <2>3
<1>4. NumbersHold' /\ CountsAreTrue'
  BY DEF WorkspaceInv, NumbersHold, CountsAreTrue, Total, By
<1>5. FoundHolds'
  BY DEF WorkspaceInv, FoundHolds, Known, Drawn
<1> QED BY <1>1, <1>2, <1>3, <1>4, <1>5 DEF WorkspaceInv

LEMMA InvInit == ASSUME WorkspaceInit PROVE WorkspaceInv
<1>1. /\ mode \in Modes /\ rows \in Starts /\ secrets = {}
      /\ import = [i \in Imports |-> Waiting]
      /\ seen = {} /\ events = {} /\ live = 0
      /\ documents = [d \in Documents |-> None]
      /\ requests = 0
  BY DEF WorkspaceInit
<1>2. Shaped
  BY <1>1, WaitingIs DEF Shaped
<1>3. /\ Waiting.pc = "idle" /\ Waiting.payload = Push /\ Waiting.initiative = None
      /\ Waiting.application = None /\ Waiting.event = None /\ Waiting.todo = {}
      /\ Waiting.files = {} /\ Waiting.count = 0 /\ Waiting.met = {} /\ Waiting.past = {}
  BY DEF Waiting
<1>4. \A i \in Imports : import[i] = Waiting
  BY <1>1
<1>5. IsFiniteSet(events) /\ Cardinality(events) = 0
  BY <1>1, FS_EmptySet
<1>6. Total = 0
  BY <1>1, <1>5 DEF Total
<1>7. Bounds
  BY <1>1, <1>5, WorkspaceAssumption DEF Bounds
<1>8. \A j \in Imports : Counts(j)
  <2>1. \A j \in Imports : import[j].count = 0 /\ import[j].pc = "idle"
    BY <1>3, <1>4
  <2> QED BY <1>6, <2>1 DEF Counts, Counting
<1>9. NumbersHold /\ CountsAreTrue
  BY <1>7, <1>8, NumbersAre DEF CountsHold
<1>10. rows \in [Ids -> RowType]
  BY <1>1, StartsAssumption
<1>11. \A k \in Ids : rows[k].kind \in Kinds \cup {"unused"} /\ rows[k].token = "none"
  BY <1>1, StartsAssumption
<1>12. RowsHold
  <2>1. ASSUME NEW k \in Alive PROVE {rows[k].up, rows[k].repo} \subseteq Alive \cup {None}
    <3>1. rows[k] \in RowType /\ rows[k].kind \in Kinds
      BY <1>10 DEF Alive
    <3>2. rows[k].up \in Ids \cup {None} /\ rows[k].repo \in Ids \cup {None}
      BY <3>1 DEF RowType
    <3>3. \A u \in {rows[k].up, rows[k].repo} \ {None} : rows[u].kind \in Kinds
      BY <1>1, <3>1, StartsAssumption DEF Alive
    <3> QED BY <3>2, <3>3 DEF Alive
  <2> QED BY <1>1, <1>10, <1>11, <2>1, KindsAre DEF RowsHold, ReferencesHold, TokensKept
<1>13. TwinsHold
  <2>1. \A j, k \in Ids : /\ rows[j].kind = "application" /\ rows[k].kind = "application"
                          /\ rows[j].name = rows[k].name
                          => j = k
    BY <1>1, StartsAssumption
  <2>2. \A k \in Ids : rows[k].kind # "drawn"
    BY <1>11, KindsAre
  <2> QED BY <2>1, <2>2 DEF TwinsHold, Applying
<1>14. MeetsHold
  BY <1>3, <1>4 DEF MeetsHold, Running
<1>15. FilesHold
  BY <1>3, <1>4 DEF FilesHold
<1>16. SeenHolds
  BY <1>1, <1>3, <1>4 DEF SeenHolds
<1>17. EventsHold /\ LandsOnce /\ DimensionsExist /\ EventsTyped
  BY <1>1, <1>3, <1>4 DEF EventsHold, LandsOnce, DimensionsExist, EventsTyped, Adding
<1>18. FoundHolds
  BY <1>3, <1>4 DEF FoundHolds, Known
<1>19. WorkspaceTypeOK
  <2>1. OtherTypes
    BY <1>1 DEF OtherTypes
  <2> QED BY <1>2, <1>7, <1>8, <1>12, <1>17, <2>1, TypeIs DEF CountsHold
<1>20. NoneLand
  BY <1>1, <1>3, <1>4 DEF NoneLand, Batching
<1> QED BY <1>9, <1>12, <1>13, <1>14, <1>15, <1>16, <1>17, <1>18, <1>19, <1>20 DEF WorkspaceInv

\* The rows, the imports, the events and the counts stay as they must for the two
\* theorems that follow, whatever the requests, the imports and their failures.
THEOREM WorkspaceHolds == WorkspaceSpec => []WorkspaceInv
<1>1. WorkspaceInit => WorkspaceInv
  BY InvInit
<1>2. WorkspaceInv /\ [WorkspaceNext]_workspaceVars => WorkspaceInv'
  BY InvStep, InvStutter
<1> QED BY <1>1, <1>2, PTL DEF WorkspaceSpec

\* Whatever is created, renamed or deleted, and whatever imports do meanwhile, no
\* row refers to one that is gone, a repository that claims a token has it in the
\* secret store but under the "env" backend, and two applications of one name are the work of imports that
\* overlapped.
THEOREM EntitiesHoldAlways == WorkspaceSpec => []EntitiesHold
<1>1. WorkspaceInv => EntitiesHold
  <2> SUFFICES ASSUME WorkspaceInv PROVE EntitiesHold
    OBVIOUS
  <2>1. WorkspaceTypeOK /\ RowsHold /\ TwinsHold
    BY DEF WorkspaceInv
  <2>2. TokensResolve
    BY <2>1 DEF TokensResolve, Table, RowsHold, TokensKept
  <2>3. TwinsNeedARace
    BY <2>1 DEF TwinsNeedARace, TwinsHold, Table, Applying
  <2> QED BY <2>1, <2>2, <2>3 DEF EntitiesHold, RowsHold
<1> QED BY <1>1, WorkspaceHolds, PTL

\* However imports overlap, fail and run again, an import that answers has its events
\* in the store or marked by a run that failed on them, and with analytics in Postgres
\* has none of them there and says so; an event is there twice only
\* if imports overlapped, and under entities that are or were there unless the
\* transaction that resolved them failed; the number it reports is the number it
\* added unless others added between its counts; and no document it wrote is an
\* earlier import's.
THEOREM ImportsAreKeptAlways == WorkspaceSpec => []ImportsAreKept
<1>1. WorkspaceInv => ImportsAreKept
  <2> SUFFICES ASSUME WorkspaceInv PROVE ImportsAreKept
    OBVIOUS
  <2>1. /\ SeenHolds /\ FilesHold /\ DimensionsExist /\ LandsOnce /\ CountsAreTrue /\ NoneLand
    BY DEF WorkspaceInv
  <2>2. AnsweredIsStored
    BY <2>1 DEF AnsweredIsStored, SeenHolds, NoneLand
  <2>3. NewestImportShows
    BY <2>1 DEF NewestImportShows, FilesHold
  <2> QED BY <2>1, <2>2, <2>3 DEF ImportsAreKept
<1> QED BY <1>1, WorkspaceHolds, PTL
=============================================================================

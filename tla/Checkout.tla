------------------------------- MODULE Checkout -------------------------------
(***************************************************************************)
(* Real execution: turns of one project test, scan, merge and deploy its   *)
(* repository in clones on the engine's host, one directory per feature    *)
(* branch, while developers push to the repository.  A git command is a    *)
(* step; nothing locks a directory, and the turns of several conversations *)
(* run in the engine's thread pool.  A branch or HEAD is the set of the    *)
(* commits it contains, so that "is an ancestor of" is inclusion; a commit *)
(* is a number and the branch it was made on, or "merge".                  *)
(***************************************************************************)
EXTENDS Naturals, FiniteSets

CONSTANTS
    Turns,
    Branches,    \* feature branches
    Deployers,   \* subset of {"command", "other"}: a command, or a webhook or nothing
    MaxCommits,  \* bound on commits, merges included
    MaxRequests, \* bound on the backend calls of turns
    MaxKills,    \* bound on the directories in which git is killed
    Main, None

Places == Branches \cup {Main}

ASSUME CheckoutAssumption ==
    /\ Deployers \subseteq {"command", "other"}
    /\ {MaxCommits, MaxRequests, MaxKills} \subseteq Nat
    /\ Main \notin Branches /\ {"merge", None} \cap Places = {}

VARIABLES
    deployer,
    remote,    \* the branches of the repository, Main its default one
    dirs,      \* the clones
    turn,
    commits, requests,
    register,  \* deployments ever recorded, with the turn that did
    asked,     \* ghost: features whose merge was asked for
    killed     \* ghost: clones in which a git command was killed

vars == <<deployer, remote, dirs, turn, commits, requests, register, asked, killed>>
ghosts == <<asked, killed>>
world  == <<deployer, commits, requests, register, ghosts>>

-----------------------------------------------------------------------------
Histories == SUBSET ((0 .. MaxCommits) \X (Places \cup {"merge"}))
Refs      == [Places -> Histories \cup {None}]

\* A clone: what HEAD is, the two local branches, what it last fetched, and
\* whether a conflict or an abandoned lock is in the way of git.
Clone == [head : {"main", "branch"}, main : Histories, branch : Histories,
          origin : Refs, index : {"clean", "merging", "locked"}]
Half  == [head |-> "main", main |-> {}, branch |-> {},
          origin |-> [b \in Places |-> None], index |-> "clean"]
Head(d) == IF d.head = "main" THEN d.main ELSE d.branch

\* None is neither a clone nor a history.
ASSUME NoneIsNothing == None \notin Clone /\ \A h \in Histories : h # None

\* has: ls-remote found the branch; sha: the merge; tree: what the operator's
\* command ran on.  Ghosts: seen, the remote's branch when the turn came, and the
\* worst that befell the turn.
Idle == [pc |-> "idle", job |-> None, branch |-> None, has |-> FALSE, sha |-> {},
         tree |-> None, seen |-> {}, woe |-> 0]
Moved == 1  \* the branch was pushed to since the merge fetched it,
Blind == 2  \* git did not reach the repository and nobody looked,
Clash == 3  \* another turn was in the directory
Worse(w, x) == IF w < x THEN x ELSE w

Over == {"idle", "done"}
At(t, step)   == turn[t].pc = step
Goto(t, step) == turn' = [turn EXCEPT ![t].pc = step]
Raise(t)      == turn' = [turn EXCEPT ![t] = Idle]  \* the request fails

\* Mutant: one directory for the project.
Place_Shared(b) == Main

\* dest: the directory of a branch.
Place(b) == b

Working(b)   == {t \in Turns : turn[t].pc \notin Over /\ Place(turn[t].branch) = Place(b)}
Dir(t)       == dirs[Place(turn[t].branch)]
SetDir(t, d) == dirs' = [dirs EXCEPT ![Place(turn[t].branch)] = d]

Init ==
    /\ deployer \in Deployers
    /\ remote = [b \in Places |-> IF b = Main THEN {<<0, Main>>} ELSE None]
    /\ dirs = [b \in Places |-> None]
    /\ turn = [t \in Turns |-> Idle]
    /\ commits = 0 /\ requests = 0
    /\ register = {} /\ asked = {} /\ killed = {}

-----------------------------------------------------------------------------
(* A backend is called, and acquires the workspace of its branch.          *)

\* Before a turn has a feature its tests and scans take the default branch, as
\* it was cloned.
Ask(t, job, b) ==
    /\ turn[t].pc \in Over /\ requests < MaxRequests
    /\ b = Main => job = "check"
    /\ requests' = requests + 1
    /\ asked' = IF job = "merge" THEN asked \cup {b} ELSE asked
    /\ turn' = [u \in Turns |->
           IF u = t THEN [Idle EXCEPT !.pc = "acquire", !.job = job, !.branch = b,
                              !.seen = IF b = Main \/ remote[b] = None THEN {} ELSE remote[b],
                              !.woe = IF Working(b) = {} THEN 0 ELSE Clash]
           ELSE [turn[u] EXCEPT !.woe = IF u \in Working(b) THEN Clash ELSE @]]
    /\ UNCHANGED <<deployer, remote, dirs, commits, register, killed>>

Acquire(t) ==
    /\ At(t, "acquire")
    /\ IF Dir(t) = None THEN SetDir(t, Half) /\ Goto(t, "clone")
                        ELSE Goto(t, "fetch") /\ UNCHANGED dirs
    /\ UNCHANGED <<remote, world>>

CloneEnds(t) ==
    /\ At(t, "clone") /\ Dir(t) # None
    /\ SetDir(t, [Dir(t) EXCEPT !.head = "main", !.main = remote[Main], !.origin = remote])
    /\ Goto(t, "fetch")
    /\ UNCHANGED <<remote, world>>

Refreshed(t) ==
    IF turn[t].job = "merge" /\ turn[t].woe = Moved THEN 0 ELSE turn[t].woe

\* acquire does not look whether fetch and ls-remote have failed (check=False).
Fetch(t) ==
    /\ At(t, "fetch") /\ Dir(t) # None
    /\ \E reached \in BOOLEAN :
           /\ IF reached THEN SetDir(t, [Dir(t) EXCEPT !.origin = remote]) ELSE UNCHANGED dirs
           /\ turn' = [turn EXCEPT ![t].woe = IF reached THEN Refreshed(t) ELSE Worse(@, Blind),
                                   ![t].pc = IF turn[t].branch = Main THEN "run" ELSE "heads"]
    /\ UNCHANGED <<remote, world>>

Heads(t) ==
    /\ At(t, "heads")
    /\ \E reached \in BOOLEAN :
           turn' = [turn EXCEPT ![t].woe = IF reached THEN @ ELSE Worse(@, Blind),
                                ![t].pc = "checkout",
                                ![t].has = reached /\ remote[turn[t].branch] # None]
    /\ UNCHANGED <<remote, dirs, world>>

\* Mutant: the local branch is kept when there is one.
Branched_Kept(d, has, b) ==
    IF d.branch # {} THEN d.branch ELSE IF has THEN d.origin[b] ELSE Head(d)

\* checkout -B: the remote's branch if it has one, else one from where HEAD is.
Branched(d, has, b) == IF has THEN d.origin[b] ELSE Head(d)

Checkout(t) ==
    /\ At(t, "checkout") /\ Dir(t) # None /\ Dir(t).index = "clean"
    /\ LET from == Branched(Dir(t), turn[t].has, turn[t].branch) IN
       /\ from # None
       /\ SetDir(t, [Dir(t) EXCEPT !.branch = from, !.head = "branch"])
    /\ turn' = [turn EXCEPT ![t].has = FALSE,
                            ![t].pc = IF turn[t].job = "merge" THEN "main" ELSE "run"]
    /\ UNCHANGED <<remote, world>>

\* What becomes of a turn when acquire raises: the runner reports a failure and
\* the scanner a skip, a deploy goes on in the engine's own directory, and a
\* merge fails the request.
GiveUp(t) == IF turn[t].job = "deploy"
             THEN turn' = [turn EXCEPT ![t].has = FALSE, ![t].pc = "deploy"] ELSE Raise(t)

\* No repository is connected, the clone fails and git removes it, the tracking
\* branch is missing, HEAD cannot be changed, or the directory has gone.
AcquireFails(t) ==
    /\ turn[t].pc \in {"acquire", "clone", "fetch", "heads", "checkout"}
    /\ At(t, "heads") => Dir(t) = None
    /\ IF At(t, "clone") THEN SetDir(t, None) ELSE UNCHANGED dirs
    /\ GiveUp(t)
    /\ UNCHANGED <<remote, world>>

\* run_layer and scan: whatever the command says, it ran on what HEAD was.
Check(t) ==
    /\ At(t, "run") /\ turn[t].job = "check"
    /\ turn' = [turn EXCEPT ![t].pc = "done",
                            ![t].tree = IF Dir(t) = None THEN None ELSE Head(Dir(t))]
    /\ UNCHANGED <<remote, dirs, world>>

-----------------------------------------------------------------------------
(* merge_to_main.                                                          *)

CheckoutMain(t) ==
    /\ At(t, "main")
    /\ \/ /\ Dir(t) # None /\ Dir(t).index = "clean" /\ Dir(t).origin[Main] # None
          /\ SetDir(t, [Dir(t) EXCEPT !.main = Dir(t).origin[Main], !.head = "main"])
          /\ Goto(t, "merge")
       \/ Raise(t) /\ UNCHANGED dirs
    /\ UNCHANGED <<remote, world>>

Merged(d, new) == IF d.head = "main" THEN [d EXCEPT !.main = new] ELSE [d EXCEPT !.branch = new]

\* A branch that HEAD contains is "already up to date", which is a success.
Merge(t) ==
    /\ At(t, "merge") /\ Dir(t) # None
    /\ LET d == Dir(t) IN
       \/ /\ d.index = "clean" /\ d.branch # {} /\ d.branch \subseteq Head(d)
          /\ Goto(t, "push")
          /\ UNCHANGED <<dirs, commits>>
       \/ /\ d.index = "clean" /\ ~(d.branch \subseteq Head(d)) /\ commits < MaxCommits
          /\ commits' = commits + 1
          /\ SetDir(t, Merged(d, Head(d) \cup d.branch \cup {<<commits + 1, "merge">>}))
          /\ Goto(t, "push")
       \/ /\ d.index = "clean" /\ ~(d.branch \subseteq Head(d))
          /\ SetDir(t, [d EXCEPT !.index = "merging"])
          /\ Goto(t, "abort")
          /\ UNCHANGED commits
       \/ /\ d.index # "clean" \/ d.branch = {}
          /\ Goto(t, "abort")
          /\ UNCHANGED <<dirs, commits>>
    /\ UNCHANGED <<deployer, remote, requests, register, ghosts>>

\* Mutant: a conflict is left as it is.
Aborted_Not(index) == index

\* merge --abort, which cannot take a lock away.
Aborted(index) == IF index = "merging" THEN "clean" ELSE index

Abort(t) ==
    /\ At(t, "abort") /\ Dir(t) # None
    /\ SetDir(t, [Dir(t) EXCEPT !.index = Aborted(@)])
    /\ Raise(t)
    /\ UNCHANGED <<remote, world>>

\* Mutant: the merge returns the tag for the SHA.
Shipping_Tag(t, sha) ==
    [turn[t] EXCEPT !.job = "deploy", !.sha = {<<0, "tag">>},
                    !.pc = IF deployer = "command" THEN "acquire" ELSE "deploy"]

\* Mutant: the SHA returned is of what was fetched, not of the merge.
Shipping_Fetched(t, sha) ==
    [turn[t] EXCEPT !.job = "deploy", !.sha = Dir(t).origin[Main],
                    !.pc = IF deployer = "command" THEN "acquire" ELSE "deploy"]

\* A deploy command gets the workspace again; a webhook needs none.
Shipping(t, sha) ==
    [turn[t] EXCEPT !.job = "deploy", !.sha = sha,
                    !.pc = IF deployer = "command" THEN "acquire" ELSE "deploy"]

\* Mutant: a push that failed is no matter.
AfterPush_Any(t, pushed) == Shipping(t, Head(Dir(t)))

\* What the push says is looked at.
AfterPush(t, pushed) == IF pushed THEN Shipping(t, Head(Dir(t))) ELSE Idle

\* rev-parse HEAD, a tag that is not an annotated one and so stays in the clone,
\* and the push: rejected if it is not a fast-forward; and one that succeeds may
\* still be killed before it says so.
Push(t) ==
    /\ At(t, "push") /\ Dir(t) # None
    /\ \E lands, heard \in BOOLEAN :
           /\ heard => lands
           /\ lands => remote[Main] \subseteq Dir(t).main
           /\ IF lands
              THEN /\ remote' = [remote EXCEPT ![Main] = Dir(t).main]
                   /\ SetDir(t, [Dir(t) EXCEPT !.origin[Main] = Dir(t).main])
              ELSE UNCHANGED <<remote, dirs>>
           /\ turn' = [turn EXCEPT ![t] = AfterPush(t, heard)]
    /\ UNCHANGED world

\* The directory has gone: another turn's clone failed in it.
Vanished(t) ==
    /\ turn[t].pc \in {"merge", "abort", "push"} /\ Dir(t) = None
    /\ Raise(t)
    /\ UNCHANGED <<remote, dirs, world>>

-----------------------------------------------------------------------------
(* deploy, which acquires the workspace again, and the register.           *)

\* The command, in the workspace or where the engine runs, or the webhook; then
\* the deployment is recorded.
Deploy(t) ==
    /\ turn[t].job = "deploy" /\ turn[t].pc \in {"run", "deploy"}
    /\ LET ran == IF At(t, "deploy") \/ Dir(t) = None THEN None ELSE Head(Dir(t)) IN
       \/ register' = register \cup {[turn[t] EXCEPT !.pc = "done", !.tree = ran]}
       \/ UNCHANGED register
    /\ Raise(t)
    /\ UNCHANGED <<deployer, remote, dirs, commits, requests, ghosts>>

-----------------------------------------------------------------------------
(* What else happens.                                                      *)

\* A git command is killed at its time limit: its lock stays, or half a clone.
Kill(t) ==
    /\ turn[t].pc \in {"clone", "checkout", "main", "merge"} /\ Dir(t) # None
    /\ Cardinality(killed) < MaxKills
    /\ killed' = killed \cup {Place(turn[t].branch)}
    /\ IF At(t, "clone") THEN UNCHANGED dirs ELSE SetDir(t, [Dir(t) EXCEPT !.index = "locked"])
    /\ IF turn[t].pc \in {"clone", "checkout"} THEN GiveUp(t) ELSE Raise(t)
    /\ UNCHANGED <<deployer, remote, commits, requests, register, asked>>

\* The engine dies with everything it runs.
Restart ==
    /\ turn' = [t \in Turns |-> Idle]
    /\ \E b \in Places :
           /\ dirs[b] # None /\ Working(b) # {}
           /\ Cardinality(killed) < MaxKills
           /\ killed' = killed \cup {b}
           /\ \E d \in {dirs[b], [dirs[b] EXCEPT !.index = "locked"]} : dirs' = [dirs EXCEPT ![b] = d]
    /\ \A t \in Turns : turn[t].pc \notin Over => Place(turn[t].branch) \in killed'
    /\ UNCHANGED <<deployer, remote, commits, requests, register, asked>>

Develop(b) ==
    /\ commits < MaxCommits
    /\ commits' = commits + 1
    /\ LET before == IF remote[b] = None THEN remote[Main] ELSE remote[b] IN
       remote' = [remote EXCEPT ![b] = before \cup {<<commits + 1, b>>}]
    /\ turn' = [t \in Turns |->
           [turn[t] EXCEPT !.woe = IF turn[t].branch = b /\ turn[t].job # "check"
                                   THEN Worse(@, Moved) ELSE @]]
    /\ UNCHANGED <<deployer, dirs, requests, register, ghosts>>

Run(t) ==
    \/ \E job \in {"check", "merge"}, b \in Places : Ask(t, job, b)
    \/ Acquire(t) \/ CloneEnds(t) \/ Fetch(t) \/ Heads(t) \/ Checkout(t) \/ AcquireFails(t)
    \/ Check(t)
    \/ CheckoutMain(t) \/ Merge(t) \/ Abort(t) \/ Push(t) \/ Vanished(t)
    \/ Deploy(t)
    \/ Kill(t)

Next == Restart \/ \E t \in Turns : Run(t) \/ \E b \in Places : Develop(b)

Spec == Init /\ [][Next]_vars

-----------------------------------------------------------------------------
TurnType ==
    [pc : Over \cup {"acquire", "clone", "fetch", "heads", "checkout", "run", "main", "merge",
                     "abort", "push", "deploy"},
     job : {"check", "merge", "deploy", None}, branch : Places \cup {None}, has : BOOLEAN,
     sha : Histories, tree : Histories \cup {None}, seen : Histories, woe : 0 .. Clash]

TypeOK ==
    /\ deployer \in Deployers /\ remote \in Refs
    /\ \A b \in Places : dirs[b] \in Clone \cup {None}
    /\ \A t \in Turns : turn[t] \in TurnType
    /\ commits \in 0 .. MaxCommits /\ requests \in 0 .. MaxRequests
    /\ \A r \in register : r \in TurnType
    /\ asked \subseteq Branches /\ killed \subseteq Places

\* A deployment is recorded under a merge that is in the repository's default
\* branch, unless another turn was at work in the same directory.
RecordedIsMerged ==
    \A r \in register : r.woe < Clash => r.sha # {} /\ r.sha \subseteq remote[Main]

\* What was on the feature branch when a check or a merge was asked for is in what
\* was checked or merged, unless git could not reach the repository (which
\* nobody looks at) or another turn was at work in the directory.
WorkIsSeen ==
    /\ \A r \in register : r.woe < Blind => r.seen \subseteq r.sha
    /\ \A t \in Turns :
           At(t, "done") /\ turn[t].tree # None /\ turn[t].woe < Blind =>
               turn[t].seen \subseteq turn[t].tree

\* The command deploys nothing that was not merged, unless the branch was pushed
\* to after the merge, or one of the excuses above holds.
DeployedIsMerged ==
    \A r \in register :
        r.tree # None /\ r.woe < Moved => r.tree \subseteq r.sha

\* What is recorded and deployed is what was merged, which is what was pushed.
MergesAreTrue == TypeOK /\ RecordedIsMerged /\ WorkIsSeen /\ DeployedIsMerged

\* No feature gets into the default branch whose merge nobody asked for, however
\* turns on several features interleave and fail.
OnlyAskedFeaturesShip ==
    \A c \in remote[Main] : c[2] \in Branches => c[2] \in asked

\* However a turn ends, the clone is as good as before, unless git was killed.
ClonesStayUsable ==
    \A b \in Places :
        dirs[b] # None /\ Working(b) = {} /\ b \notin killed => dirs[b].index = "clean"

\* A clone brings no turn the work or the wreckage of another one.
ClonesKeepApart == OnlyAskedFeaturesShip /\ ClonesStayUsable
=============================================================================

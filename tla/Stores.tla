-------------------------------- MODULE Stores --------------------------------
(***************************************************************************)
(* What a project keeps in the database or in memory: its tasks, the       *)
(* transcript of its conversation.  Turns run in threads of the engine:    *)
(* one that plans creates its tasks and declares their dependencies, then  *)
(* every turn records what the user and the agent said.  Migration imports *)
(* of one task, deletions and other turns come between any two             *)
(* transactions.  One organization, one squad, and one conversation for    *)
(* each project.                                                           *)
(***************************************************************************)
EXTENDS Integers, Sequences, FiniteSets, FiniteSetsExt, Functions, Nothing

CONSTANTS
    Projects,    \* the projects of the squad
    Turns,       \* turns, each run once
    Imports,     \* migration imports of the same task
    Target,      \* the project they import into
    ImportedId,  \* the number of the imported task, bd-N
    Branches,
    PlanSize,    \* bound: tasks of a plan; the first blocks the second
    Kinds        \* the stores a deployment may choose

ASSUME StoresAssumption ==
    /\ Target \in Projects /\ ImportedId \in Nat \ {0}
    /\ PlanSize \in Nat \ {0}
    /\ Turns \cap Imports = {}
    /\ Kinds \subseteq {"memory", "postgres"}

VARIABLES
    store,        \* task_store; the transcripts follow it
    project,      \* "alive", "cascaded" with its squad, "dropped" by a request
    tasks,        \* the tasks table, or the dict: the rows by their place in the order
    counter,      \* InMemoryTaskStore._counter
    turn,
    transcript,   \* thread_transcript
    imported      \* imports that have written their tasks

storesVars == <<store, project, tasks, counter, turn, transcript, imported>>

-----------------------------------------------------------------------------
Postgres == store = "postgres"

TurnType ==
    [pc : {"idle", "plan", "mint", "edges", "say", "write", "done", "failed"},
     project : Projects \cup {None}, made : Seq(Nat), no : Nat,
     role : {"user", "agent"}, met : SUBSET Turns, cut : BOOLEAN]
Fresh    == [pc |-> "idle", project |-> None, made |-> <<>>, no |-> 0,
             role |-> "user", met |-> {}, cut |-> FALSE]
Over     == {"idle", "done", "failed"}
RunningIn(p) == {t \in Turns : turn[t].project = p /\ turn[t].pc \notin Over}

\* Rows are kept by their place in the order in which they came; a new one comes
\* after all there are.
Empty == [k \in {} |-> None]
After(rows) == Max(DOMAIN rows \cup {0}) + 1
Extended(rows, row) ==
    [k \in DOMAIN rows \cup {After(rows)} |-> IF k \in DOMAIN rows THEN rows[k] ELSE row]

StoresInit ==
    /\ store \in Kinds
    /\ project = [p \in Projects |-> "alive"]
    /\ tasks = Empty /\ counter = 0
    /\ turn = [t \in Turns |-> Fresh]
    /\ transcript = Empty
    /\ imported = {}

-----------------------------------------------------------------------------
(* The task store.                                                         *)

Task(p, n, who) == [project |-> p, id |-> n, by |-> who, deps |-> {}, branch |-> None]
Rows(p)    == {k \in DOMAIN tasks : tasks[k].project = p}
Named(p, n) == {k \in Rows(p) : tasks[k].id = n}

\* Mutant: only the tasks nobody has claimed are counted.
NextId_Open(p) ==
    IF Postgres THEN Cardinality({k \in Rows(p) : tasks[k].branch = None}) + 1 ELSE counter + 1

\* count(*) + 1 of the project, or the counter of the process.
NextId(p) == IF Postgres THEN Cardinality(Rows(p)) + 1 ELSE counter + 1

\* No constraint speaks of external_id: the table takes a second row, the
\* dict, whose key it is whatever the project, replaces the first.
Added(task) ==
    LET same == {k \in DOMAIN tasks : tasks[k].id = task.id} IN
    IF Postgres \/ same = {} THEN Extended(tasks, task)
                            ELSE [tasks EXCEPT ![CHOOSE k \in same : TRUE] = task]

\* Mutant: blocker and blocked are swapped.
Blocked_Swapped(p, blocker, n) ==
    LET hit == IF Postgres THEN Named(p, blocker) ELSE {k \in DOMAIN tasks : tasks[k].id = blocker}
    IN [k \in DOMAIN tasks |->
           IF k \in hit THEN [tasks[k] EXCEPT !.deps = @ \cup {n}] ELSE tasks[k]]

\* Mutant: the update does not look at the project.
Blocked_Anywhere(p, blocker, n) ==
    [k \in DOMAIN tasks |->
        IF tasks[k].id = n THEN [tasks[k] EXCEPT !.deps = @ \cup {blocker}] ELSE tasks[k]]

\* The update of add_dependency reaches every row of the id.
Blocked(p, blocker, n) ==
    LET hit == IF Postgres THEN Named(p, n) ELSE {k \in DOMAIN tasks : tasks[k].id = n}
    IN [k \in DOMAIN tasks |->
           IF k \in hit THEN [tasks[k] EXCEPT !.deps = @ \cup {blocker}] ELSE tasks[k]]

\* Mutant: nobody looks whether the branch is taken.
Claim_Twice(p, n, b) ==
    /\ \E k \in DOMAIN tasks :
        /\ {k} = {j \in Named(p, n) : tasks[j].branch = None}
        /\ tasks' = [tasks EXCEPT ![k].branch = b]
    /\ UNCHANGED <<store, project, counter, turn, transcript, imported>>

\* claim (the stores offer it; no route or node calls it yet).  Two rows of
\* one id would both take the branch, which the unique index refuses.
Claim(p, n, b) ==
    /\ \A k \in Rows(p) : tasks[k].branch # b
    /\ \E k \in DOMAIN tasks :
        /\ {k} = {j \in Named(p, n) : tasks[j].branch = None}
        /\ tasks' = [tasks EXCEPT ![k].branch = b]
    /\ UNCHANGED <<store, project, counter, turn, transcript, imported>>

-----------------------------------------------------------------------------
(* A turn: invoke or resolve (which may run the Plan phase), or continue.  *)

\* Nothing asks whether the project is still there.
Begin(t, p, first) ==
    /\ turn[t].pc = "idle"
    /\ turn' = [s \in Turns |->
           IF s = t THEN [Fresh EXCEPT !.pc = first, !.project = p, !.met = RunningIn(p),
                                       !.cut = Postgres /\ project[p] # "alive"]
           ELSE IF s \in RunningIn(p) THEN [turn[s] EXCEPT !.met = @ \cup {t}] ELSE turn[s]]
    /\ UNCHANGED <<store, project, tasks, counter, transcript, imported>>

Plan(t, p)     == Begin(t, p, "plan")
Converse(t, p) == Begin(t, p, "say")

\* create: the id is drawn (the interpreter changes threads at calls and loops, and
\* there is none between the counter's increment and its reading),
Draw(t) ==
    /\ turn[t].pc = "plan"
    /\ turn' = [turn EXCEPT ![t].pc = "mint", ![t].no = NextId(turn[t].project)]
    /\ counter' = IF Postgres THEN counter ELSE counter + 1
    /\ UNCHANGED <<store, project, tasks, transcript, imported>>

\* and the row inserted.  The foreign key refuses it once the project is gone.
Insert(t) ==
    /\ turn[t].pc = "mint"
    /\ LET p    == turn[t].project
           made == Append(turn[t].made, turn[t].no)
       IN IF Postgres /\ project[p] # "alive"
          THEN turn' = [turn EXCEPT ![t].pc = "failed", ![t].no = 0, ![t].made = <<>>]
               /\ UNCHANGED tasks
          ELSE /\ tasks' = Added(Task(p, turn[t].no, t))
               /\ turn' = [turn EXCEPT ![t].made = made, ![t].no = 0,
                               ![t].pc = IF Len(made) < PlanSize THEN "plan" ELSE "edges"]
    /\ UNCHANGED <<store, project, counter, transcript, imported>>

\* declare_deps: the plan's first task blocks its second.
AddDependencies(t) ==
    /\ turn[t].pc = "edges"
    /\ LET made == turn[t].made IN
       tasks' = IF Len(made) < 2 THEN tasks ELSE Blocked(turn[t].project, made[1], made[2])
    /\ turn' = [turn EXCEPT ![t].pc = "say"]
    /\ UNCHANGED <<store, project, counter, transcript, imported>>

\* The database refuses a statement of the plan: the request fails, the
\* tasks it created stay.
PlanFails(t) ==
    /\ turn[t].pc \in {"mint", "edges"} /\ Postgres
    /\ turn' = [turn EXCEPT ![t].pc = "failed", ![t].no = 0, ![t].made = <<>>]
    /\ UNCHANGED <<store, project, tasks, counter, transcript, imported>>

-----------------------------------------------------------------------------
(* The transcript.  append reads the highest number of the thread (memory: *)
(* the length of the whole list) and then writes its row.                  *)

Entries(p) == {k \in DOMAIN transcript : transcript[k].project = p}

\* Mutant: an empty thread starts below zero.
NextSeq_Bare(p) ==
    IF Postgres THEN Max({transcript[k].seq : k \in Entries(p)} \cup {-1}) ELSE Cardinality(DOMAIN transcript)

\* Mutant: the highest number itself.
NextSeq_Same(p) ==
    IF Postgres THEN Max({transcript[k].seq : k \in Entries(p)} \cup {0}) ELSE Cardinality(DOMAIN transcript)

NextSeq(p) ==
    IF Postgres THEN Max({transcript[k].seq : k \in Entries(p)} \cup {-1}) + 1 ELSE Cardinality(DOMAIN transcript)

Say(t) ==
    /\ turn[t].pc = "say"
    /\ turn' = [turn EXCEPT ![t].pc = "write", ![t].no = NextSeq(turn[t].project)]
    /\ UNCHANGED <<store, project, tasks, counter, transcript, imported>>

WriteEntry(t) ==
    /\ turn[t].pc = "write"
    /\ transcript' = Extended(transcript, [project |-> turn[t].project, by |-> t,
                                           role |-> turn[t].role, seq |-> turn[t].no])
    /\ turn' = [turn EXCEPT ![t].role = "agent", ![t].no = 0,
                    ![t].pc = IF turn[t].role = "user" THEN "say" ELSE "done"]
    /\ UNCHANGED <<store, project, tasks, counter, imported>>

\* A failed append ends the recording, not the request.
EntryFails(t) ==
    /\ turn[t].pc = "write" /\ Postgres
    /\ turn' = [turn EXCEPT ![t].pc = "done", ![t].no = 0]
    /\ UNCHANGED <<store, project, tasks, counter, transcript, imported>>

-----------------------------------------------------------------------------
(* Deletions.                                                              *)

\* The rows of the database go with the foreign keys, what is in memory stays.
Outside(rows, P) == {k \in DOMAIN rows : rows[k].project \notin P}
Gone(P)  == tasks' = IF Postgres THEN Restrict(tasks, Outside(tasks, P)) ELSE tasks
\* A ghost: the project goes, or went, before the turn is over.
Cut(P)   == turn' = [t \in Turns |->
                IF Postgres /\ turn[t].project \in P /\ turn[t].pc \notin Over
                THEN [turn[t] EXCEPT !.cut = TRUE] ELSE turn[t]]

\* Mutant: the transcript is forgotten.
DeleteProject_Quietly(p) ==
    /\ project' = [project EXCEPT ![p] = "dropped"]
    /\ Gone({p}) /\ Cut({p})
    /\ UNCHANGED <<store, counter, transcript, imported>>

\* Of a project that is gone as well: it answers 404 and takes what was said since.
DeleteProject(p) ==
    /\ project' = [project EXCEPT ![p] = "dropped"]
    /\ transcript' = IF Postgres THEN Restrict(transcript, Outside(transcript, {p})) ELSE transcript
    /\ Gone({p}) /\ Cut({p})
    /\ UNCHANGED <<store, counter, imported>>

\* Deleting the squad cascades to its projects; no key ties a transcript.
DeleteSquad ==
    /\ \E p \in Projects : project[p] = "alive"
    /\ LET P == {p \in Projects : project[p] = "alive"} IN
       /\ project' = [p \in Projects |-> IF p \in P THEN "cascaded" ELSE project[p]]
       /\ Gone(P) /\ Cut(P)
    /\ UNCHANGED <<store, counter, transcript, imported>>

-----------------------------------------------------------------------------
\* _persist_tasks of a migration import: a create that raises is skipped.
ImportTask(i) ==
    /\ i \notin imported
    /\ imported' = imported \cup {i}
    /\ tasks' = IF Postgres /\ project[Target] # "alive" THEN tasks
                ELSE Added(Task(Target, ImportedId, i))
    /\ UNCHANGED <<store, project, counter, turn, transcript>>

-----------------------------------------------------------------------------
StoresNext ==
    \/ \E t \in Turns :
        \/ \E p \in Projects : Plan(t, p) \/ Converse(t, p)
        \/ Draw(t) \/ Insert(t) \/ AddDependencies(t) \/ PlanFails(t)
        \/ Say(t) \/ WriteEntry(t) \/ EntryFails(t)
    \/ \E p \in Projects : DeleteProject(p)
    \/ \E p \in Projects, b \in Branches : \E k \in Rows(p) : Claim(p, tasks[k].id, b)
    \/ DeleteSquad
    \/ \E i \in Imports : ImportTask(i)

StoresSpec == StoresInit /\ [][StoresNext]_storesVars

-----------------------------------------------------------------------------
TaskRow == [project : Projects, id : Nat, by : Turns \cup Imports,
            deps : SUBSET Nat, branch : Branches \cup {None}]
Entry   == [project : Projects, by : Turns, role : {"user", "agent"}, seq : Nat]

StoresTypeOK ==
    /\ store \in Kinds
    /\ project \in [Projects -> {"alive", "dropped", "cascaded"}]
    /\ DOMAIN tasks \cup DOMAIN transcript \subseteq Nat
    /\ tasks \in [DOMAIN tasks -> TaskRow]
    /\ counter \in Nat
    /\ turn \in [Turns -> TurnType]
    /\ transcript \in [DOMAIN transcript -> Entry]
    /\ imported \subseteq Imports

Overlapped(x, y) == x \in Turns /\ y \in Turns /\ x \in turn[y].met

\* Two tasks of a project carry one id only if the turns that created them
\* overlapped, or an import brought the id (tasks.py:37 counts and inserts).
MintedIdsDiffer ==
    \A j, k \in DOMAIN tasks :
        j < k /\ tasks[j].project = tasks[k].project /\ tasks[j].id = tasks[k].id =>
            \/ {tasks[j].by, tasks[k].by} \cap Imports # {}
            \/ Overlapped(tasks[j].by, tasks[k].by)

Declared(t) == turn[t].pc \in {"say", "write", "done"} /\ Len(turn[t].made) > 1

\* Once a plan has declared its dependencies they are there for as long as the
\* project is, on tasks the plan created (an import into the dict replaces them).
PlansAreWhole ==
    \A t \in Turns :
        /\ Declared(t) /\ project[turn[t].project] = "alive"
        /\ Postgres \/ imported = {}
        => \E j, k \in DOMAIN tasks :
               /\ tasks[j].by = t /\ tasks[j].id = turn[t].made[1]
               /\ tasks[k].by = t /\ tasks[k].id = turn[t].made[2]
               /\ tasks[j].id \in tasks[k].deps

\* A task waits for another only if the plan that created it said so, or if a
\* second task of its project carries its id (in the dict an imported one may
\* have taken the place of the first).
EdgesAreDeclared ==
    \A k \in DOMAIN tasks :
        tasks[k].deps # {} =>
            \/ tasks[k].by \in Turns /\ Declared(tasks[k].by)
            \/ Cardinality(Named(tasks[k].project, tasks[k].id)) > 1
            \/ ~Postgres /\ tasks[k].by \in Imports

\* One branch is held by one task of a project.
BranchHeldOnce ==
    \A j, k \in DOMAIN tasks :
        /\ tasks[j].branch # None /\ tasks[j].branch = tasks[k].branch
        /\ tasks[j].project = tasks[k].project
        => j = k

\* The tasks of a project are what its plans, claims and imports made them, whoever
\* writes in between.
PlansHold ==
    /\ StoresTypeOK
    /\ MintedIdsDiffer
    /\ PlansAreWhole
    /\ EdgesAreDeclared
    /\ BranchHeldOnce

\* In a transcript ordered by number the answer of a turn comes after what the
\* user said, and after everything said by turns that were over when it began.
TalkInOrder ==
    \A j, k \in DOMAIN transcript :
        LET a == transcript[j]
            b == transcript[k]
        IN j < k /\ a.project = b.project =>
               \/ a.seq < b.seq
               \/ Overlapped(a.by, b.by)

\* A transcript survives the deletion of its project only where a turn was still
\* running, or began afterwards (no key and no check ties a thread to a project).
OrphansAreExplained ==
    \A k \in DOMAIN transcript :
        Postgres /\ project[transcript[k].project] = "dropped" => turn[transcript[k].by].cut

\* A transcript is in order, and what was said before its project was deleted goes
\* with it.
TalkIsKept == TalkInOrder /\ OrphansAreExplained
=============================================================================

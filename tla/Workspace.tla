------------------------------- MODULE Workspace -------------------------------
(***************************************************************************)
(* The entities of an organization, and the migration import that writes   *)
(* to all its stores.  The routes of the entities are one transaction      *)
(* each, but for a repository, whose token goes to the secret store first. *)
(* An import finds its initiative, finds or creates its application, hands *)
(* its events to the analytics store, writes its documents one by one and  *)
(* answers; it may fail at any step, and its client runs it again.  Its    *)
(* tasks are in Stores.                                                    *)
(***************************************************************************)
EXTENDS Integers, FiniteSets, Nothing

CONSTANTS
    Ids,          \* uuids; no id is drawn twice
    Names,
    Imports,      \* runs of the import, repeated ones too
    Events,       \* the deterministic ids of the upstream project's history
    Modes,        \* subset of {"memory", "mixed", "postgres"}
    Starts,       \* the tables a behaviour may start from
    MaxRequests   \* bound on the requests, imports included, and on the events
                  \* and documents of turns

ASSUME WorkspaceAssumption ==
    /\ Modes \subseteq {"memory", "mixed", "postgres"}
    /\ MaxRequests \in Nat
    /\ IsFiniteSet(Events) /\ IsFiniteSet(Imports)
    /\ None \notin Events /\ None \notin Imports /\ "turn" \notin Imports

VARIABLES
    mode,       \* no database, a database, or analytics there as well
    rows,       \* the tables, by id
    secrets,    \* the ids a token can be resolved for
    import,
    seen,       \* InMemoryAnalyticsStore._seen
    events,     \* and _events: [id, by, initiative, application]
    live,       \* live events in it
    documents,  \* the artifacts an import writes: who wrote them last
    requests

workspaceVars == <<mode, rows, secrets, import, seen, events, live, documents, requests>>
tables    == <<rows, secrets>>
analytics == <<seen, events, live>>

-----------------------------------------------------------------------------
Kinds == {"domain", "squad", "initiative", "application", "repository", "project"}
Blank == [kind |-> "unused", name |-> None, up |-> None, repo |-> None,
          token |-> "none", by |-> None]
Gone  == [Blank EXCEPT !.kind = "gone"]

\* up: the domain of a squad, the squad of a repository or a project, the
\* initiative of an application; token: its ref, to the secret store or to a
\* variable of the environment; by: the import that created the row.
Row(kind, name, up) == [Blank EXCEPT !.kind = kind, !.name = name, !.up = up]

RowType == [kind : Kinds \cup {"unused", "drawn", "gone"}, name : Names \cup {None},
            up : Ids \cup {None}, repo : Ids \cup {None}, token : {"none", "stored", "env"},
            by : Imports \cup {None}]

\* Tables a behaviour may start from: rows that refer to rows, none of them half
\* made, no token stored yet, and no two applications of a name.
ASSUME StartsAssumption ==
    \A start \in Starts :
        /\ start \in [Ids -> RowType]
        /\ \A k \in Ids : /\ start[k].kind \in Kinds \cup {"unused"} /\ start[k].token = "none"
                          /\ start[k].kind \in Kinds =>
                                 \A u \in {start[k].up, start[k].repo} \ {None} : start[u].kind \in Kinds
        /\ \A j, k \in Ids :
               /\ start[j].kind = "application" /\ start[k].kind = "application"
               /\ start[j].name = start[k].name
               => j = k

Table(kind) == {k \in Ids : rows[k].kind = kind}
Alive       == {k \in Ids : rows[k].kind \in Kinds}
Unused      == Table("unused")

\* A new uuid: which one makes no difference, so one stands for them all.
New(ids) == {k \in ids : k = CHOOSE j \in ids : TRUE}

Documents == {"memory", "decisions", "deployments"}

\* push sends the documents, a client of the API files events under an initiative
\* and an application of a name; backfill names neither, as if there were no
\* database to find them in.
Sent(names, evs, docs) == [names |-> names, events |-> evs, documents |-> docs]
Push     == Sent({}, {}, Documents)
Payloads == {Push} \cup {Sent(names, Events, {}) : names \in
                {{"application"}, {"initiative", "application"}}}

Waiting == [pc |-> "idle", payload |-> Push, initiative |-> None, application |-> None, event |-> None,
            todo |-> {}, files |-> {}, count |-> 0,
            met |-> {}, past |-> {}, mixed |-> FALSE, unsure |-> FALSE]
Over    == {"done", "failed"}
Running == {i \in Imports : import[i].pc \notin Over \cup {"idle"}}

WorkspaceInit ==
    /\ mode \in Modes
    /\ rows \in Starts
    /\ secrets = {}
    /\ import = [i \in Imports |-> Waiting]
    /\ seen = {} /\ events = {} /\ live = 0
    /\ documents = [d \in Documents |-> None]
    /\ requests = 0

-----------------------------------------------------------------------------
(* The routes of the entities.                                             *)

Request ==
    /\ requests < MaxRequests
    /\ requests' = requests + 1

\* The foreign keys and the unique constraints of the tables.
Insertable(row) ==
    /\ {row.up, row.repo} \subseteq Alive \cup {None}
    /\ row.kind = "domain" => \A k \in Table("domain") : rows[k].name # row.name
    /\ row.kind = "repository" =>
           \A k \in Table("repository") : rows[k].up = row.up => rows[k].name # row.name

Create(k, row) ==
    /\ mode # "memory" /\ Request
    /\ k \in New(Unused) /\ Insertable(row)
    /\ rows' = [rows EXCEPT ![k] = row]
    /\ UNCHANGED <<mode, secrets, import, analytics, documents>>

CreateDomain(k, n)     == Create(k, Row("domain", n, None))
CreateInitiative(k, n) == Create(k, Row("initiative", n, None))
CreateSquad(k, n)      == \E d \in Table("domain") \cup {None} : Create(k, Row("squad", n, d))
CreateProject(k, n)    ==
    \E s \in Table("squad"), r \in Table("repository") \cup {None} :
        Create(k, [Row("project", n, s) EXCEPT !.repo = r])

\* A repository without a token is one statement.
CreateRepository(k, n) == \E s \in Table("squad") : Create(k, Row("repository", n, s))

\* Mutant: the row is inserted before its token is stored.
StoreToken_Late(k, n) ==
    /\ mode # "memory" /\ Request
    /\ k \in New(Unused)
    /\ \E s \in Table("squad") :
           rows' = [rows EXCEPT ![k] = [Row("repository", n, s) EXCEPT !.token = "stored"]]
    /\ UNCHANGED <<mode, secrets, import, analytics, documents>>

\* With a token, the secrets backend of the deployment comes first.  Vault and
\* the encrypted refs keep the token under the new id; the environment cannot be
\* written, and its ref names a variable after an id drawn just now.
StoreToken(k, n) ==
    /\ mode # "memory" /\ Request
    /\ k \in New(Unused)
    /\ \E s \in Table("squad"), ref \in {"stored", "env"} :
           /\ rows' = [rows EXCEPT ![k] = [Row("drawn", n, s) EXCEPT !.token = ref]]
           /\ secrets' = IF ref = "stored" THEN secrets \cup {k} ELSE secrets
    /\ UNCHANGED <<mode, import, analytics, documents>>

\* Then the row is inserted, or refused; the token stays.
InsertRepository(k) ==
    /\ rows[k].kind = "drawn" /\ rows[k].token # "none"
    /\ LET row == [rows[k] EXCEPT !.kind = "repository"] IN
       \/ Insertable(row) /\ rows' = [rows EXCEPT ![k] = row]
       \/ rows' = [rows EXCEPT ![k] = Gone]
    /\ UNCHANGED <<mode, secrets, import, analytics, documents, requests>>

\* Repositories and applications have no such route.
Rename(k, n) ==
    /\ mode # "memory" /\ Request
    /\ rows[k].kind \in Kinds \ {"repository", "application"} /\ rows[k].name # n
    /\ Insertable([rows[k] EXCEPT !.name = n])
    /\ rows' = [rows EXCEPT ![k].name = n]
    /\ UNCHANGED <<mode, secrets, import, analytics, documents>>

\* Mutant: the project keeps the key of its repository.
Without_Keys(removed) ==
    [k \in Ids |-> IF k \in removed THEN Gone
                   ELSE IF k \notin Alive THEN rows[k]
                   ELSE [rows[k] EXCEPT !.up = IF @ \in removed THEN None ELSE @]]

\* ON DELETE SET NULL; delete_initiative does it for the applications.
Without(removed) ==
    [k \in Ids |-> IF k \in removed THEN Gone
                   ELSE IF k \notin Alive THEN rows[k]
                   ELSE [rows[k] EXCEPT !.up   = IF @ \in removed THEN None ELSE @,
                                        !.repo = IF @ \in removed THEN None ELSE @]]

Delete(k, removed) ==
    /\ mode # "memory" /\ Request
    /\ rows' = Without({k} \cup removed)
    /\ UNCHANGED <<mode, secrets, import, analytics, documents>>

DeleteDomain(k)     == k \in Table("domain") /\ Delete(k, {})
DeleteInitiative(k) == k \in Table("initiative") /\ Delete(k, {})
DeleteRepository(k) == k \in Table("repository") /\ Delete(k, {})
DeleteProject(k)    == k \in Table("project") /\ Delete(k, {})

\* The squad's repositories and projects go with it.
DeleteSquad(k) ==
    /\ k \in Table("squad")
    /\ Delete(k, {j \in Table("repository") \cup Table("project") : rows[j].up = k})

-----------------------------------------------------------------------------
(* import_project.                                                         *)

Goto(i, pc) == import' = [import EXCEPT ![i].pc = pc]

Start(i, payload) ==
    /\ import[i].pc = "idle" /\ Request
    /\ import' = [j \in Imports |->
           IF j = i THEN [Waiting EXCEPT
                             !.pc = IF payload.names # {} /\ mode # "memory" THEN "look up" ELSE "count",
                             !.payload = payload, !.todo = payload.events, !.files = payload.documents,
                             !.met = Running, !.past = {k \in Imports : import[k].pc \in Over}]
           ELSE IF j \in Running THEN [import[j] EXCEPT !.met = @ \cup {i}] ELSE import[j]]
    /\ UNCHANGED <<mode, tables, analytics, documents>>

\* _upsert_named: a row of the name, if there is one.
Hits(kind, n) == {k \in Table(kind) : rows[k].name = n}
Initiatives(i, n) == IF "initiative" \in import[i].payload.names THEN Hits("initiative", n) ELSE {None}

\* An application that is not there gets a new id.
FoundOrNew(n)  == IF Hits("application", n) # {} THEN Hits("application", n) ELSE New(Unused)

Chosen(i, n, a, b) ==
    /\ import' = [import EXCEPT ![i].pc = "resolve", ![i].initiative = a, ![i].application = b]
    /\ rows' = IF b \in Unused
               THEN [rows EXCEPT ![b] = [Row("drawn", n, a) EXCEPT !.by = i]] ELSE rows
    /\ UNCHANGED <<mode, secrets, analytics, documents, requests>>

\* Mutant: an application is created whether or not there is one.
LookUp_Blindly(i, n) ==
    /\ import[i].pc = "look up"
    /\ \E a \in Initiatives(i, n), b \in New(Unused) : Chosen(i, n, a, b)

LookUp(i, n) ==
    /\ import[i].pc = "look up"
    /\ \E a \in Initiatives(i, n), b \in FoundOrNew(n) : Chosen(i, n, a, b)

\* No initiative of the name: its insert gives no created_at, which the table
\* requires without a default, and the resolution ends with nothing.
NoInitiative(i, n) ==
    /\ import[i].pc = "look up" /\ Initiatives(i, n) = {}
    /\ Goto(i, "count")
    /\ UNCHANGED <<mode, tables, analytics, documents, requests>>

\* The row an import has drawn, and its transaction inserts.
Drawn(i) == {k \in Ids : rows[k].kind = "drawn" /\ rows[k].by = i}

\* Mutant: the transaction is never committed.
Resolve_Uncommitted(i) ==
    /\ import[i].pc = "resolve"
    /\ Goto(i, "count")
    /\ UNCHANGED <<mode, tables, analytics, documents, requests>>

\* An application is created under the initiative, which must still be there.
Resolve(i) ==
    /\ import[i].pc = "resolve"
    /\ \A k \in Drawn(i) : rows[k].up \in Alive \cup {None}
    /\ rows' = [k \in Ids |-> IF k \in Drawn(i) THEN [rows[k] EXCEPT !.kind = "application"]
                             ELSE rows[k]]
    /\ Goto(i, "count")
    /\ UNCHANGED <<mode, secrets, analytics, documents, requests>>

\* The transaction fails, at a statement or its commit: what was found so far
\* is kept, in the table or not.
ResolveFails(i) ==
    /\ import[i].pc = "resolve"
    /\ rows' = [k \in Ids |-> IF k \in Drawn(i) THEN [Gone EXCEPT !.kind = "drawn"] ELSE rows[k]]
    /\ \E found \in {<<None, None>>, <<import[i].initiative, None>>,
                     <<import[i].initiative, import[i].application>>} :
           import' = [import EXCEPT ![i].pc = "count", ![i].unsure = TRUE,
                                    ![i].initiative = found[1], ![i].application = found[2]]
    /\ UNCHANGED <<mode, secrets, analytics, documents, requests>>

Total == Cardinality(events) + live

Count(i) ==
    /\ import[i].pc = "count"
    /\ import' = [import EXCEPT ![i].pc = "ingest", ![i].count = Total]
    /\ UNCHANGED <<mode, tables, analytics, documents, requests>>

\* Mutant: the batch ends at the first event that is there already.
Check_Stops(i) ==
    /\ import[i].pc = "ingest" /\ mode # "postgres"
    /\ \E e \in import[i].todo :
           import' = IF e \in seen THEN [import EXCEPT ![i].todo = {}]
                     ELSE [import EXCEPT ![i].pc = "mark", ![i].event = e, ![i].todo = @ \ {e}]
    /\ UNCHANGED <<mode, tables, analytics, documents, requests>>

\* Mutant: nobody looks whether the event is there.
Check_Not(i) ==
    /\ import[i].pc = "ingest" /\ mode # "postgres"
    /\ \E e \in import[i].todo :
           import' = [import EXCEPT ![i].pc = "mark", ![i].event = e, ![i].todo = @ \ {e}]
    /\ UNCHANGED <<mode, tables, analytics, documents, requests>>

\* ingest, one event after the other: is it there?
Check(i) ==
    /\ import[i].pc = "ingest" /\ mode # "postgres"
    /\ \E e \in import[i].todo :
           import' = IF e \in seen THEN [import EXCEPT ![i].todo = @ \ {e}]
                     ELSE [import EXCEPT ![i].pc = "mark", ![i].event = e, ![i].todo = @ \ {e}]
    /\ UNCHANGED <<mode, tables, analytics, documents, requests>>

Mark(i) ==
    /\ import[i].pc = "mark"
    /\ seen' = seen \cup {import[i].event}
    /\ Goto(i, "append")
    /\ UNCHANGED <<mode, tables, events, live, documents, requests>>

\* A ghost: between its two counts the others count something else.
Mixed(by) ==
    [j \in Imports |->
        IF j # by /\ import[j].pc \in {"ingest", "mark", "append"}
        THEN [import[j] EXCEPT !.mixed = TRUE] ELSE import[j]]

AppendEvent(i) ==
    /\ import[i].pc = "append"
    /\ events' = events \cup {[id |-> import[i].event, by |-> i,
                               initiative |-> import[i].initiative,
                               application |-> import[i].application]}
    /\ import' = [Mixed(i) EXCEPT ![i].pc = "ingest", ![i].event = None]
    /\ UNCHANGED <<mode, tables, seen, live, documents, requests>>

\* _flatten raises: the event is marked and not there, the request has failed.
AppendFails(i) ==
    /\ import[i].pc = "append"
    /\ Goto(i, "failed")
    /\ UNCHANGED <<mode, tables, analytics, documents, requests>>

\* Mutant: the first count less the second.
CountAgain_Swapped(i) ==
    /\ import[i].pc = "ingest" /\ (import[i].todo = {} \/ mode = "postgres")
    /\ import' = [import EXCEPT ![i].pc = "write", ![i].count = @ - Total, ![i].todo = {}]
    /\ UNCHANGED <<mode, tables, analytics, documents, requests>>

\* Mutant: the second count is reported.
CountAgain_Raw(i) ==
    /\ import[i].pc = "ingest" /\ (import[i].todo = {} \/ mode = "postgres")
    /\ import' = [import EXCEPT ![i].pc = "write", ![i].count = Total, ![i].todo = {}]
    /\ UNCHANGED <<mode, tables, analytics, documents, requests>>

\* The Postgres store ingests nothing: its rows come from the clickstream, and the
\* import sends none there.
CountAgain(i) ==
    /\ import[i].pc = "ingest" /\ (import[i].todo = {} \/ mode = "postgres")
    /\ import' = [import EXCEPT ![i].pc = "write", ![i].count = Total - @, ![i].todo = {}]
    /\ UNCHANGED <<mode, tables, analytics, documents, requests>>

\* Mutant: a document that is there already is left alone.
PutArtifact_Once(i, d) ==
    /\ import[i].pc = "write" /\ d \in import[i].files
    /\ documents' = [documents EXCEPT ![d] = IF @ = None THEN i ELSE @]
    /\ import' = [import EXCEPT ![i].files = @ \ {d}]
    /\ UNCHANGED <<mode, tables, analytics, requests>>

\* put_artifact: what the store has under the path is replaced.
Put(d, who) == documents' = [documents EXCEPT ![d] = who]

\* The memory files, then the decisions, then the deployments.
PutArtifact(i, d) ==
    /\ import[i].pc = "write" /\ d \in import[i].files
    /\ d = "decisions" => "memory" \notin import[i].files
    /\ d = "deployments" => import[i].files = {d}
    /\ Put(d, i)
    /\ import' = [import EXCEPT ![i].files = @ \ {d}]
    /\ UNCHANGED <<mode, tables, analytics, requests>>

WriteFails(i) ==
    /\ import[i].pc = "write" /\ import[i].files # {}
    /\ Goto(i, "failed")
    /\ UNCHANGED <<mode, tables, analytics, documents, requests>>

Answer(i) ==
    /\ import[i].pc = "write" /\ import[i].files = {}
    /\ Goto(i, "done")
    /\ UNCHANGED <<mode, tables, analytics, documents, requests>>

-----------------------------------------------------------------------------
(* Turns: the clickstream's events, a decision recorded, a deployment.     *)

LiveEvent ==
    /\ Request
    /\ live' = live + 1
    /\ import' = Mixed(None)
    /\ UNCHANGED <<mode, tables, seen, events, documents>>

\* A turn renders what its own thread knows.
TurnWrites(d) ==
    /\ d # "memory" /\ Request
    /\ Put(d, "turn")
    /\ UNCHANGED <<mode, tables, import, analytics>>

-----------------------------------------------------------------------------
Entities ==
    \/ \E k \in Ids, n \in Names :
        \/ CreateDomain(k, n) \/ CreateSquad(k, n) \/ CreateInitiative(k, n)
        \/ CreateRepository(k, n) \/ StoreToken(k, n) \/ CreateProject(k, n)
        \/ Rename(k, n)
    \/ \E k \in Ids :
        \/ InsertRepository(k) \/ DeleteDomain(k) \/ DeleteSquad(k)
        \/ DeleteInitiative(k) \/ DeleteRepository(k) \/ DeleteProject(k)

Importing(i) ==
    \/ \E payload \in Payloads : Start(i, payload)
    \/ \E n \in Names : LookUp(i, n) \/ NoInitiative(i, n)
    \/ Resolve(i) \/ ResolveFails(i)
    \/ Count(i) \/ Check(i) \/ Mark(i) \/ AppendEvent(i) \/ AppendFails(i) \/ CountAgain(i)
    \/ \E d \in Documents : PutArtifact(i, d)
    \/ WriteFails(i) \/ Answer(i)

WorkspaceNext ==
    \/ Entities
    \/ \E i \in Imports : Importing(i)
    \/ LiveEvent
    \/ \E d \in Documents : TurnWrites(d)

WorkspaceSpec == WorkspaceInit /\ [][WorkspaceNext]_workspaceVars

-----------------------------------------------------------------------------
ImportType ==
    [pc : {"idle", "look up", "resolve", "count", "ingest", "mark", "append",
           "write", "done", "failed"}, payload : Payloads,
     initiative : Ids \cup {None}, application : Ids \cup {None},
     event : Events \cup {None}, todo : SUBSET Events, files : SUBSET Documents,
     count : 0 .. Cardinality(Events) * Cardinality(Imports) + MaxRequests,
     met : SUBSET Imports, past : SUBSET Imports, mixed : BOOLEAN, unsure : BOOLEAN]

WorkspaceTypeOK ==
    /\ mode \in Modes
    /\ rows \in [Ids -> RowType]
    /\ secrets \subseteq Ids
    /\ import \in [Imports -> ImportType]
    /\ seen \subseteq Events
    /\ events \subseteq [id : Events, by : Imports, initiative : Ids \cup {None},
                         application : Ids \cup {None}]
    /\ live \in 0 .. MaxRequests
    /\ documents \in [Documents -> Imports \cup {None, "turn"}]
    /\ requests \in 0 .. MaxRequests

\* Every reference of a row is to a row that is there, whatever was deleted
\* since, and whatever came between a repository's token and its row.
ReferencesHold ==
    \A k \in Alive : {rows[k].up, rows[k].repo} \subseteq Alive \cup {None}

\* A repository that shows a token (has_token) has one to clone and read with, but
\* under the "env" backend, where the token it was given is nowhere.
TokensResolve ==
    \A k \in Table("repository") :
        rows[k].token # "none" => (k \in secrets <=> rows[k].token = "stored")

Overlapped(i, j) == i \in import[j].met \/ j \in import[i].met

\* Two applications of one name are the work of imports that overlapped (no
\* constraint forbids them).
TwinsNeedARace ==
    \A j, k \in Table("application") :
        j # k /\ rows[j].name = rows[k].name => Overlapped(rows[j].by, rows[k].by)

\* No row refers to what is not there, be it a row or a secret the backend keeps,
\* and names find one.
EntitiesHold == WorkspaceTypeOK /\ ReferencesHold /\ TokensResolve /\ TwinsNeedARace

\* The history of a project is filed under an initiative that is or was there,
\* unless the transaction that resolved it failed.
DimensionsExist ==
    \A e \in events :
        \A k \in {e.initiative, e.application} \ {None} :
            rows[k].kind \in Kinds \cup {"gone"} \/ import[e.by].unsure

\* An event is in the store twice only if imports overlapped.
LandsOnce ==
    \A x, y \in events : x.id = y.id /\ x.by # y.by => Overlapped(x.by, y.by)

\* An import that answers has its events in the store, whoever wrote them and
\* whatever earlier runs left; but one that a failed run had marked never comes,
\* and with analytics in Postgres none ever does.
AnsweredIsStored ==
    \A i \in Imports : import[i].pc = "done" =>
        \A e \in import[i].payload.events :
            IF \E x \in events : x.id = e THEN mode # "postgres"
            ELSE \/ mode = "postgres"
                 \/ e \in seen /\ \E j \in Imports : import[j].event = e

\* The number of events an import reports is the number it added, unless other
\* events were added between its two counts.
CountsAreTrue ==
    \A i \in Imports :
        import[i].pc \in {"write", "done"} /\ ~import[i].mixed =>
            import[i].count = Cardinality({x \in events : x.by = i})

\* A document an answered import has written is not one of an earlier import's.
NewestImportShows ==
    \A i \in Imports, d \in Documents :
        import[i].pc = "done" /\ d \in import[i].payload.documents =>
            documents[d] \notin import[i].past

\* What an import says it imported is there, once, under its initiative, and newer
\* than what an earlier one wrote; in Postgres it says it imported no event, and
\* did not.
ImportsAreKept ==
    /\ DimensionsExist
    /\ LandsOnce
    /\ AnsweredIsStored
    /\ CountsAreTrue
    /\ NewestImportShows
=============================================================================

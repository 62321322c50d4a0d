-------------------------------- MODULE Probes --------------------------------
(***************************************************************************)
(* What one engine process says of the health of what it depends on.       *)
(* An admin tests a model configuration before or after saving it, and the *)
(* result of a saved one stays as a chip on the console; a loop probes the *)
(* instance's own provider; and /health/ready serves cached checks.  Tests *)
(* take seconds, and the configuration may change meanwhile.  One tenant,  *)
(* whose organization default and one persona override are the two scopes. *)
(***************************************************************************)
EXTENDS Integers, FiniteSets, Nothing

CONSTANTS
    Admins,      \* threads that serve tests
    Scrapers,    \* threads that serve /health/ready
    Providers, ApiKeys,
    Requests,    \* tests that are asked for
    Starts, Rows,\* rows to begin with, rows that are saved
    Limit,       \* PROBE_LIMIT_PER_MIN
    ProbeWindow, \* window_s in ticks
    Ttl,         \* _TTL_S in ticks
    Horizon,     \* bound on the clock
    MaxActs,     \* bound on tests and edits
    MaxTrouble,  \* bound on what befalls the instance's provider and the database
    Org, Agent

Scopes == {Org, Agent}

ASSUME ProbesAssumption ==
    /\ {Limit, ProbeWindow, Ttl} \subseteq Nat \ {0}
    /\ {Horizon, MaxActs, MaxTrouble} \subseteq Nat
    /\ Org # Agent /\ None \notin ApiKeys \cup Scopes \cup Providers

VARIABLES
    rows,      \* org_llm_config and agent_llm_config
    chips,     \* llm_provider_health, by scope
    window,    \* _PROBE_WINDOW of the organization: its order plays no part
    job,       \* the test each admin thread is in
    acts,      \* tests asked for and edits made
    clock,     \* time.monotonic()
    admitted,  \* ghost: all admissions
    lost,      \* ghost: those that another thread's write wiped out
    upstream,  \* whether the instance's default provider answers
    status,    \* _instance_status
    loop,      \* instance_health_loop
    trouble,   \* what has befallen the provider and the database so far
    db,        \* whether the database answers, and since when it is so
    cache,     \* _cache["db"]
    scrape     \* the request each scraper serves, or its last answer

console    == <<rows, chips, job, acts>>
limiter    == <<window, admitted, lost>>
instance   == <<upstream, status, loop>>
readiness  == <<db, cache, scrape>>
probesVars == <<console, limiter, clock, trouble, instance, readiness>>

-----------------------------------------------------------------------------
(* The configuration.                                                      *)

\* A row names a provider and perhaps a key; only the organization's has
\* headers for a gateway.  A provider without a key is called with the
\* operator's own.
Row == [provider : Providers, key : ApiKeys \cup {None}, headers : BOOLEAN]
Fits(s, row) == s = Org \/ ~row.headers

\* What a call or a test is made with.
Config == Row

\* _agent_override, _org_default: an override without a key borrows the
\* organization's, if it is one for the same provider.
Called(s) ==
    LET own == rows[s]
        org == rows[Org]
        borrowed == IF org # None /\ org.provider = own.provider THEN org.key ELSE None
    IN  [provider |-> own.provider,
         key      |-> IF own.key = None THEN borrowed ELSE own.key,
         headers  |-> org # None /\ org.headers]

\* Mutant: an override borrows any key.
StoredKey_Any(s) ==
    IF s = Agent /\ rows[Agent].key = None /\ rows[Org] # None
    THEN rows[Org].key ELSE rows[s].key

\* _load_scope_config reads the key with a query of its own.
StoredKey(s) ==
    IF /\ s = Agent /\ rows[Agent].key = None
       /\ rows[Org] # None /\ rows[Org].provider = rows[Agent].provider
    THEN rows[Org].key ELSE rows[s].key

\* A key typed in comes first, the stored one is used on request; the test
\* takes the instance's network and not the organization's headers.
Tested(r) ==
    [provider |-> rows[r.scope].provider,
     key      |-> CASE r.inline # None -> r.inline
                    [] r.inline = None /\ r.saved -> StoredKey(r.scope)
                    [] OTHER -> None,
     headers  |-> FALSE]

Request == [scope : Scopes \cup {None}, saved : BOOLEAN, inline : ApiKeys \cup {None}]
ASSUME RequestsAssumption ==
    /\ Requests \subseteq Request /\ Rows \subseteq Row
    /\ \A start \in Starts :
           /\ start \in [Scopes -> Row \cup {None}]
           /\ \A s \in Scopes : start[s] # None => Fits(s, start[s])

\* The scopes whose calls a row takes part in.
Touched(s) == IF s = Org THEN Scopes ELSE {Agent}

Chip == [ok : BOOLEAN, tested : Config, saved : BOOLEAN, edited : BOOLEAN]
AtRest == [at |-> "idle"]

\* An entry of the window: when its test came, and which act it was.
Admission == [at : 0..Horizon, no : 1..MaxActs]

ProbesInit ==
    /\ rows \in Starts
    /\ chips = [s \in Scopes |-> None]
    /\ window = {} /\ admitted = {} /\ lost = {}
    /\ job = [a \in Admins |-> AtRest] /\ acts = 0
    /\ clock = 0 /\ trouble = 0
    /\ upstream \in BOOLEAN /\ status = "unprobed" /\ loop = "rest"
    /\ db \in [up : BOOLEAN, since : {0}]
    /\ cache = None /\ scrape = [q \in Scrapers |-> AtRest]

-----------------------------------------------------------------------------
(* probe_allowed: a sliding window without a lock.                         *)

Young(admissions) == {x \in admissions : clock - x.at < ProbeWindow}

\* The clock and the list are read, and what is too old is left out.
Arrive(a, r) ==
    /\ job[a] = AtRest /\ acts < MaxActs
    /\ acts' = acts + 1
    /\ job' = [job EXCEPT ![a] =
           [at |-> "window", req |-> r, own |-> [at |-> clock, no |-> acts'], missed |-> {},
            recent |-> Young(window)]]
    /\ UNCHANGED <<rows, chips, limiter, clock, trouble, instance, readiness>>

\* Mutant: one more than the limit.
Full_Late(recent) == Cardinality(recent) > Limit

Full(recent) == Cardinality(recent) >= Limit

\* The list is written back.  Whatever was admitted since it was read is
\* gone from it, and every other thread that is between the two has missed
\* this admission.
Admit(a) ==
    /\ job[a].at = "window"
    /\ LET j == job[a]
           full == Full(j.recent)
           next == IF full THEN AtRest ELSE [at |-> "load", req |-> j.req]
           new  == IF full THEN {} ELSE {j.own}
       IN  /\ window' = j.recent \cup new
           /\ admitted' = admitted \cup new
           /\ lost' = lost \cup j.missed
           /\ job' = [b \in Admins |->
                  CASE b = a -> next
                    [] b # a /\ job[b].at = "window" -> [job[b] EXCEPT !.missed = @ \cup new]
                    [] OTHER -> job[b]]
    /\ UNCHANGED <<rows, chips, acts, clock, trouble, instance, readiness>>

-----------------------------------------------------------------------------
(* POST /admin/models/test                                                 *)

\* The saved configuration of the scope is read; that the key is at hand
\* takes the secrets backend, which may be asked in vain.
Load(a) ==
    /\ job[a].at = "load"
    /\ LET r == job[a].req
       IN  /\ r.scope # None /\ rows[r.scope] # None
           /\ job' = [job EXCEPT ![a] =
                  [at |-> "probe", req |-> r, tested |-> Tested(r), edited |-> FALSE]]
    /\ UNCHANGED <<rows, chips, acts, limiter, clock, trouble, instance, readiness>>

\* Nothing is saved for the scope, its tier has no model, or its key cannot
\* be resolved: the answer is an error and the chip stays as it is.
Unloadable(a) ==
    /\ job[a].at = "load" /\ job[a].req.scope # None
    /\ job' = [job EXCEPT ![a] = AtRest]
    /\ UNCHANGED <<rows, chips, acts, limiter, clock, trouble, instance, readiness>>

\* A configuration that is only typed in is tested and leaves no chip.
Candidate(a) ==
    /\ job[a].at = "load" /\ job[a].req.scope = None
    /\ job' = [job EXCEPT ![a] = AtRest]
    /\ UNCHANGED <<rows, chips, acts, limiter, clock, trouble, instance, readiness>>

\* What is known once a test has ended.
Ended(j, ok) == [at |-> "persist", req |-> j.req, tested |-> j.tested, edited |-> j.edited, ok |-> ok]

\* validate_endpoint: the address is none a server may be sent to.
Forbidden(a) ==
    /\ job[a].at = "probe"
    /\ job' = [job EXCEPT ![a] = Ended(@, FALSE)]
    /\ UNCHANGED <<rows, chips, acts, limiter, clock, trouble, instance, readiness>>

\* The provider is called and answers, fails or does not answer in time.
Probe(a) ==
    /\ job[a].at = "probe"
    /\ \E ok \in BOOLEAN : job' = [job EXCEPT ![a] = Ended(@, ok)]
    /\ UNCHANGED <<rows, chips, acts, limiter, clock, trouble, instance, readiness>>

\* _persist_health: the last to write wins, and a write that fails is
\* nobody's problem.
Persist(a) ==
    /\ job[a].at = "persist"
    /\ LET j == job[a]
           chip == [ok |-> j.ok, tested |-> j.tested,
                    saved |-> j.req.saved /\ j.req.inline = None, edited |-> j.edited]
       IN  chips' \in {chips, [chips EXCEPT ![j.req.scope] = chip]}
    /\ job' = [job EXCEPT ![a] = AtRest]
    /\ UNCHANGED <<rows, acts, limiter, clock, trouble, instance, readiness>>

-----------------------------------------------------------------------------
(* Edits.  None of them looks at the chips or at the tests under way.      *)

EditTo(s, row) ==
    /\ acts < MaxActs
    /\ acts' = acts + 1
    /\ rows' = [rows EXCEPT ![s] = row]
    /\ job' = [a \in Admins |->
           IF job[a].at \in {"probe", "persist"} /\ job[a].req.scope \in Touched(s)
           THEN [job[a] EXCEPT !.edited = TRUE] ELSE job[a]]
    /\ chips' = [t \in Scopes |->
           IF t \in Touched(s) /\ chips[t] # None
           THEN [chips[t] EXCEPT !.edited = TRUE] ELSE chips[t]]
    /\ UNCHANGED <<limiter, clock, trouble, instance, readiness>>

\* set_org_default, set_agent_override: a key that is left out is kept.
Save(s, row) ==
    /\ Fits(s, row)
    /\ LET kept == IF rows[s] # None THEN rows[s].key ELSE None
       IN  EditTo(s, [row EXCEPT !.key = IF @ = None THEN kept ELSE @])

ClearKey(s) == rows[s] # None /\ EditTo(s, [rows[s] EXCEPT !.key = None])

ClearOverride == rows[Agent] # None /\ EditTo(Agent, None)

-----------------------------------------------------------------------------
(* instance_health_loop                                                    *)

\* The provider is probed, off the event loop.
LoopProbes ==
    /\ loop = "rest"
    /\ loop' = "probing"
    /\ UNCHANGED <<console, limiter, clock, trouble, upstream, status, readiness>>

\* Mutant: a failure is recorded by its class.
Recorded_Raw(ok) == IF ok THEN "ok" ELSE "timeout"

Recorded(ok) == IF ok THEN "ok" ELSE "degraded"

\* record_instance_probe: a provider that does not answer cannot be found to.
LoopRecords ==
    /\ loop = "probing"
    /\ status' = Recorded(upstream)
    /\ loop' = "rest"
    /\ UNCHANGED <<console, limiter, clock, trouble, upstream, readiness>>

\* Mutant: the exception ends the loop.
AfterFailure_Dies == "over"

AfterFailure == "rest"

\* The probe fails although the provider answers (a quota, a timeout), or the
\* configuration cannot be read: that is logged and the loop goes on.
LoopStumbles ==
    /\ loop = "probing" /\ trouble < MaxTrouble
    /\ trouble' = trouble + 1
    /\ \/ status' = Recorded(FALSE) /\ loop' = "rest"
       \/ status' = status /\ loop' = AfterFailure
    /\ UNCHANGED <<console, limiter, clock, upstream, readiness>>

-----------------------------------------------------------------------------
(* GET /health/ready                                                       *)

\* Mutant: what is in the cache is served for good.
Fresh_Always == cache # None

Fresh == cache # None /\ cache.expires > clock

\* How long ago the database was last seen as it is said to be.
Lag(ok) == IF ok = db.up THEN 0 ELSE clock - db.since

Answered(ok, took) == [at |-> "answered", ok |-> ok, lag |-> Lag(ok), took |-> took]

\* A fresh entry is the answer, otherwise the database is asked.
Scrape(q) ==
    /\ scrape[q].at \in {"idle", "answered"}
    /\ scrape' = [scrape EXCEPT ![q] =
           IF Fresh THEN Answered(cache.ok, cache.took)
           ELSE [at |-> "asking", begun |-> clock]]
    /\ UNCHANGED <<console, limiter, clock, trouble, instance, db, cache>>

\* select 1, some time after the request came: it returns or it raises.
CheckDb(q) ==
    /\ scrape[q].at = "asking"
    /\ scrape' = [scrape EXCEPT ![q] = [at |-> "asked", begun |-> @.begun, ok |-> db.up]]
    /\ UNCHANGED <<console, limiter, clock, trouble, instance, db, cache>>

\* The result is cached from now on, whatever another request has cached
\* since, and answered.
Store(q) ==
    /\ scrape[q].at = "asked"
    /\ LET s == scrape[q]
       IN  /\ cache' = [ok |-> s.ok, expires |-> clock + Ttl, took |-> clock - s.begun]
           /\ scrape' = [scrape EXCEPT ![q] = Answered(s.ok, clock - s.begun)]
    /\ UNCHANGED <<console, limiter, clock, trouble, instance, db>>

-----------------------------------------------------------------------------
(* The world.                                                              *)

\* The instance's provider fails or recovers; the database does.
Turns ==
    /\ trouble < MaxTrouble
    /\ trouble' = trouble + 1
    /\ \/ upstream' = ~upstream /\ UNCHANGED db
       \/ db' = [up |-> ~db.up, since |-> clock] /\ UNCHANGED upstream
    /\ UNCHANGED <<console, limiter, clock, status, loop, cache, scrape>>

ProbesTick ==
    /\ clock < Horizon
    /\ clock' = clock + 1
    /\ UNCHANGED <<console, limiter, trouble, instance, readiness>>

Testing(a) ==
    \/ \E r \in Requests : Arrive(a, r)
    \/ Admit(a) \/ Load(a) \/ Unloadable(a) \/ Candidate(a)
    \/ Forbidden(a) \/ Probe(a) \/ Persist(a)

Editing ==
    \/ \E s \in Scopes : (\E row \in Rows : Save(s, row)) \/ ClearKey(s)
    \/ ClearOverride

Serving(q) == Scrape(q) \/ CheckDb(q) \/ Store(q)

Looping == LoopProbes \/ LoopRecords \/ LoopStumbles

ProbesNext ==
    \/ \E a \in Admins : Testing(a)
    \/ Editing
    \/ \E q \in Scrapers : Serving(q)
    \/ Looping \/ Turns \/ ProbesTick

\* The loop is a task of the event loop; every probe has a time budget.
ProbesSpec == ProbesInit /\ [][ProbesNext]_probesVars /\ WF_probesVars(Looping)

-----------------------------------------------------------------------------
JobType ==
    [at : {"idle"}]
    \cup [at : {"window"}, req : Requests, own : Admission,
          missed : SUBSET Admission, recent : SUBSET Admission]
    \cup [at : {"load"}, req : Requests]
    \cup [at : {"probe"}, req : Requests, tested : Config, edited : BOOLEAN]
    \cup [at : {"persist"}, req : Requests, tested : Config, edited : BOOLEAN, ok : BOOLEAN]

ScrapeType ==
    [at : {"idle"}]
    \cup [at : {"asking"}, begun : 0..Horizon]
    \cup [at : {"asked"}, begun : 0..Horizon, ok : BOOLEAN]
    \cup [at : {"answered"}, ok : BOOLEAN, lag : 0..Horizon, took : 0..Horizon]

ProbesTypeOK ==
    /\ rows \in [Scopes -> Row \cup {None}]
    /\ chips \in [Scopes -> Chip \cup {None}]
    /\ window \cup admitted \cup lost \subseteq Admission
    /\ job \in [Admins -> JobType]
    /\ acts \in 0..MaxActs /\ clock \in 0..Horizon /\ trouble \in 0..MaxTrouble
    /\ <<upstream, status>> \in BOOLEAN \X {"unprobed", "ok", "degraded"}
    /\ loop \in {"rest", "probing", "over"}
    /\ db \in [up : BOOLEAN, since : 0..Horizon]
    /\ cache \in [ok : BOOLEAN, expires : Nat, took : 0..Horizon] \cup {None}
    /\ scrape \in [Scrapers -> ScrapeType]

\* A chip that a test of the saved configuration left was earned by what the
\* scope's calls are made with today, but for the organization's headers,
\* unless the scope's rows were edited after the test had read them.
Bare(config) == [provider |-> config.provider, key |-> config.key, headers |-> FALSE]
ChipTellsTheTruth ==
    \A s \in Scopes :
        chips[s] # None /\ chips[s].saved /\ ~chips[s].edited
            => rows[s] # None /\ chips[s].tested = Bare(Called(s))

\* Within any window no more tests are made than the limit allows, but for the
\* admissions that concurrent requests wiped from each other's list.
ProbesAreBounded == Cardinality(Young(admitted) \ lost) <= Limit

\* The tests of the console: the chips they leave are true, and they are bounded.
TestsAreTrue == ProbesTypeOK /\ ChipTellsTheTruth /\ ProbesAreBounded

\* Whatever the loop stumbles over, the status it serves is in the end what
\* the instance's provider does.
StatusCatchesUp == <>[](status = IF upstream THEN "ok" ELSE "degraded")

\* An answer of /health/ready was true of the database no longer ago than the
\* cache lives and the check took that filled it.
ReadyIsRecent ==
    \A q \in Scrapers :
        scrape[q].at = "answered" => scrape[q].lag <= Ttl + scrape[q].took
=============================================================================

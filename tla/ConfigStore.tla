----------------------------- MODULE ConfigStore -----------------------------
(***************************************************************************)
(* The model configuration of one organization: the org default, the       *)
(* persona overrides and their history, as the admin routes change them    *)
(* (PUT, preset, key removal, price sheet, deletion, rollback, import).    *)
(* Requests run in transactions at READ COMMITTED: each records the prior  *)
(* state of a scope and then upserts the scope, and a row stays locked     *)
(* from its upsert to the commit.  The page of versions is read in two     *)
(* statements.  Secrets are opaque refs; whether a ref resolves is the     *)
(* secrets backend's choice of the moment.                                 *)
(***************************************************************************)
EXTENDS Integers, Sequences, FiniteSets, Nothing

CONSTANTS
    Admins,      \* requests at work at a time
    Personas,    \* scopes besides the organization's own
    Providers,   \* what a row may name
    EnvKeyed,    \* _ENV_KEYED_PROVIDERS: builders fall back to the operator's key
    Keyless,     \* _KEYLESS_PROVIDERS: bedrock, vertex, ollama
    MaxChain,    \* failover_chain: max_length
    Bodies,      \* what a PUT of the org default may say
    Keep,        \* llm_config_version_keep
    Seeds,       \* configurations to start from, with their history
    Documents,   \* org defaults an imported file may hold
    Overrides,   \* persona overrides it may hold
    MaxRequests, \* bound on transactions begun
    Org

Scopes == {Org} \cup Personas

ASSUME ConfigStoreAssumption ==
    /\ EnvKeyed \cap Keyless = {}
    /\ EnvKeyed \cup Keyless \subseteq Providers
    /\ Providers # {}
    /\ MaxChain \in Nat /\ MaxRequests \in Nat /\ Keep \in Nat \ {0}
    /\ Org \notin Personas /\ None \notin Scopes \cup Providers

VARIABLES
    live,        \* org_llm_config and agent_llm_config, by scope
    versions,    \* llm_config_versions; ghost: after, the row its change left
    req,         \* the request each admin has under way
    clock,       \* transactions begun: now() of a transaction is its start
    overlapped,  \* ghost: scopes two open transactions had in common
    lost,        \* ghost: a ref was dropped because it did not resolve
    moved        \* ghost: scopes that kept their key as they changed provider

configVars == <<live, versions, req, clock, overlapped, lost, moved>>

-----------------------------------------------------------------------------
(* Rows, refs and jobs.                                                    *)

\* The key an admin types in for a provider (None: one typed in long ago); it
\* is encrypted, its ref is the ciphertext.  And a pointer into a vault or the
\* environment, which only an import brings.
Typed(p, by) == [kind |-> "enc", for |-> p, by |-> by]
Pointer      == [kind |-> "ptr", for |-> None, by |-> None]
KeysFor(p)   == {Typed(p, by) : by \in Admins \cup {None}}
Refs         == (UNION {KeysFor(p) : p \in Providers}) \cup {Pointer}

\* What may be stored for a provider without being another one's key.
AtHome(p, ref) == ref \in {None, Pointer} \cup KeysFor(p)

ChainEntry == [provider : Providers, ref : Refs \cup {None}]
Chains     == UNION {[1..n -> ChainEntry] : n \in 0..MaxChain}

\* Tier map, region, endpoint and headers stand or fall with the provider
\* here.  A persona's row has no chain and no price sheet.
Row == [provider : Providers, ref : Refs \cup {None}, chain : Chains, price : BOOLEAN]
ASSUME RowAssumption == None \notin Row \cup Refs
Plain(p, ref) == [provider |-> p, ref |-> ref, chain |-> <<>>, price |-> FALSE]

\* A job is one scope's share of a request: what its upsert will do.
Job(s, do, new) == [scope |-> s, do |-> do, new |-> new]

\* Mutant: a restored row without a key takes over the one it replaces.
Written_Fills(job, row) ==
    CASE job.do = "restore" /\ job.new # None /\ row # None ->
           [job.new EXCEPT !.ref = IF @ = None THEN row.ref ELSE @]
      [] job.do = "put" /\ row # None ->
           [job.new EXCEPT !.ref = IF @ = None THEN row.ref ELSE @, !.price = row.price]
      [] job.do = "preset" /\ row # None -> [row EXCEPT !.provider = job.new.provider]
      [] job.do = "clear" -> IF row = None THEN None ELSE [row EXCEPT !.ref = None]
      [] job.do = "price" -> IF row = None THEN None ELSE [row EXCEPT !.price = job.new.price]
      [] OTHER -> job.new

\* Mutant: an omitted key is saved as no key.
Written_Wipes(job, row) ==
    CASE job.do = "put" ->
           IF row = None THEN job.new ELSE [job.new EXCEPT !.price = row.price]
      [] job.do = "preset" ->
           IF row = None THEN job.new ELSE [row EXCEPT !.provider = job.new.provider]
      [] job.do = "clear" -> IF row = None THEN None ELSE [row EXCEPT !.ref = None]
      [] job.do = "price" -> IF row = None THEN None ELSE [row EXCEPT !.price = job.new.price]
      [] OTHER -> job.new

\* What the upsert leaves behind, given the row it finds: the columns it does
\* not name keep their values.
Written(job, row) ==
    CASE job.do = "put" ->
           IF row = None THEN job.new
           ELSE [job.new EXCEPT !.ref = IF @ = None THEN row.ref ELSE @,
                                !.price = row.price]
      [] job.do = "preset" ->
           IF row = None THEN job.new ELSE [row EXCEPT !.provider = job.new.provider]
      [] job.do = "clear" -> IF row = None THEN None ELSE [row EXCEPT !.ref = None]
      [] job.do = "price" -> IF row = None THEN None ELSE [row EXCEPT !.price = job.new.price]
      [] OTHER -> job.new

\* How a completion that falls back to this entry is paid for.
Billed(entry) == CASE entry.ref # None -> "tenant"
                   [] entry.ref = None /\ entry.provider \in EnvKeyed -> "operator"
                   [] OTHER -> "nobody"
PaidFor(chain) == \A i \in DOMAIN chain : Billed(chain[i]) # "operator"

\* A row whose fallbacks hold no key but their own provider's, and what a
\* scope and its history hold.
HomeRow == {row \in Row : \A i \in DOMAIN row.chain :
                AtHome(row.chain[i].provider, row.chain[i].ref)}
Held    == HomeRow \cup {None}

\* A row whose own key is not another provider's.
OwnKeyHome(row) == row = None \/ AtHome(row.provider, row.ref)

Version == [at : Nat, scope : Scopes, snapshot : Held, after : Held]

\* A seed is a state the routes leave behind: its last changes lie before the
\* first transaction and led to the rows that are live.
ASSUME SeedsAssumption ==
    \A seed \in Seeds :
        /\ seed.live \in [Scopes -> Held]
        /\ seed.live[Org] # None => PaidFor(seed.live[Org].chain)
        /\ \A s \in Scopes : OwnKeyHome(seed.live[s])
        /\ IsFiniteSet(seed.versions)
        /\ \A v \in seed.versions :
               /\ v \in Version /\ v.at = 0 /\ v.after = seed.live[v.scope]
               /\ v.scope = Org /\ v.snapshot # None => PaidFor(v.snapshot.chain)
               /\ OwnKeyHome(v.snapshot)
               /\ \A w \in seed.versions : w.scope = v.scope => w = v

\* seen is the chain a save was built on, page the versions a listing has read.
NoRequest == [pc |-> "idle", at |-> 0, jobs |-> <<>>, seen |-> <<>>, page |-> {},
         news |-> {}, gone |-> {}, locks |-> {}, rows |-> [s \in Scopes |-> None]]

ConfigInit ==
    /\ \E seed \in Seeds : live = seed.live /\ versions = seed.versions
    /\ req = [a \in Admins |-> NoRequest]
    /\ clock = 0
    /\ overlapped = {} /\ lost = FALSE /\ moved = {}

-----------------------------------------------------------------------------
(* The requests.                                                           *)

ScopesOf(a) == {req[a].jobs[i].scope : i \in DOMAIN req[a].jobs} \cup req[a].locks
InTransaction(a) == req[a].pc \in {"record", "write"}

\* Begins a transaction over the scopes of the jobs; whoever else is in one
\* over the same scope overlaps with it.
Open(a, jobs, seen) ==
    /\ clock < MaxRequests
    /\ clock' = clock + 1
    /\ req' = [req EXCEPT ![a] = [NoRequest EXCEPT !.pc = "record", !.at = clock + 1,
                                                  !.jobs = jobs, !.seen = seen]]
    /\ overlapped' = overlapped \cup
           ({jobs[i].scope : i \in DOMAIN jobs}
            \cap UNION {ScopesOf(b) : b \in {b \in Admins \ {a} : InTransaction(b)}})

\* A request that reads something first, in a transaction of its own.
Start(a, jobs, seen) ==
    /\ req[a].pc = "idle" /\ clock < MaxRequests
    /\ req' = [req EXCEPT ![a] = [NoRequest EXCEPT !.pc = "begin", !.jobs = jobs, !.seen = seen]]
    /\ UNCHANGED <<clock, overlapped>>

Begin(a) ==
    /\ req[a].pc = "begin"
    /\ Open(a, req[a].jobs, req[a].seen)
    /\ UNCHANGED <<live, versions, lost, moved>>

\* One that does not.
Request(a, jobs) ==
    /\ req[a].pc = "idle"
    /\ Open(a, jobs, <<>>)
    /\ UNCHANGED <<live, versions, lost, moved>>

\* Mutants: nothing is carried over; the provider is not compared; the entry is
\* taken for its ref.
Carried_Never(p, i, chain) == None
Carried_Blindly(p, i, chain) == IF i \in DOMAIN chain THEN chain[i].ref ELSE None
Carried_Whole(p, i, chain) ==
    IF i \in DOMAIN chain /\ chain[i].provider = p THEN chain[i] ELSE None

\* A typed key is stored; an omitted one is carried over from the entry at
\* the same position when its provider is the same.
Carried(p, i, chain) ==
    IF i \in DOMAIN chain /\ chain[i].provider = p THEN chain[i].ref ELSE None

BuildChain(asked, chain, a) ==
    [i \in DOMAIN asked |->
        [provider |-> asked[i].provider,
         ref |-> IF asked[i].typed THEN Typed(asked[i].provider, a)
                 ELSE Carried(asked[i].provider, i, chain)]]

\* A provider and whether a key is typed in for it: any provider, the ones
\* that take no key too.
Asked       == [provider : Providers, typed : BOOLEAN]
AskedChains == UNION {[1..n -> Asked] : n \in 0..MaxChain}
OwnKey(e, a) == Plain(e.provider, IF e.typed THEN Typed(e.provider, a) ELSE None)
ASSUME BodiesAssumption == Bodies \subseteq [own : Asked, chain : AskedChains]

FallbacksOf(row) == IF row = None THEN <<>> ELSE row.chain
SaveOf(a, body, chain) == Job(Org, "put", [OwnKey(body.own, a) EXCEPT !.chain = chain])

\* Mutant: the env-keyed check is gone.
PutOrg_Unchecked(a) ==
    /\ \E body \in Bodies :
           LET seen  == FallbacksOf(live[Org])
               chain == BuildChain(body.chain, seen, a)
           IN  Start(a, <<SaveOf(a, body, chain)>>, seen)
    /\ UNCHANGED <<live, versions, lost, moved>>

\* PUT org-default reads the chain in a transaction of its own; an entry that
\* would bill the operator is refused.
PutOrg(a) ==
    /\ \E body \in Bodies :
           LET seen  == FallbacksOf(live[Org])
               chain == BuildChain(body.chain, seen, a)
           IN  /\ PaidFor(chain)
               /\ Start(a, <<SaveOf(a, body, chain)>>, seen)
    /\ UNCHANGED <<live, versions, lost, moved>>

PutAgent(a) ==
    \E s \in Personas, e \in Asked : Request(a, <<Job(s, "put", OwnKey(e, a))>>)

ApplyPreset(a) == \E p \in Providers : Request(a, <<Job(Org, "preset", Plain(p, None))>>)

ClearKey(a) == \E s \in Scopes : Request(a, <<Job(s, "clear", None)>>)

DeleteAgent(a) == \E s \in Personas : Request(a, <<Job(s, "restore", None)>>)

PutPrices(a) ==
    \E sheet \in BOOLEAN :
        Request(a, <<Job(Org, "price", [Plain(CHOOSE p \in Providers : TRUE, None)
                                        EXCEPT !.price = sheet])>>)

-----------------------------------------------------------------------------
(* Export and import.                                                      *)

\* A row with each of its keys replaced by what becomes of it.
EachKey(row, Now(_, _)) ==
    [row EXCEPT !.ref   = Now(row.provider, row.ref),
                !.chain = [i \in DOMAIN row.chain |->
                              [provider |-> row.chain[i].provider,
                               ref      |-> Now(row.chain[i].provider, row.chain[i].ref)]]]

\* secret_export: of a ref only a pointer leaves the instance.
Hint(ref) == IF ref = Pointer THEN Pointer ELSE None

\* Mutant: the price sheet does not travel.
Exported_Unpriced(row) ==
    LET Now(p, ref) == Hint(ref) IN EachKey([row EXCEPT !.price = FALSE], Now)

\* export_models: a scope as the document has it.
Exported(row) == LET Now(p, ref) == Hint(ref) IN EachKey(row, Now)

\* What a document may hold: ImportDoc takes a hint for a ref, never a key.
Importable ==
    {row \in Row : row.ref = Hint(row.ref) /\ \A i \in DOMAIN row.chain : row.chain[i].ref = Hint(row.chain[i].ref)}
ASSUME DocumentsAssumption == Documents \cup Overrides \subseteq Importable

\* _plan_secret: a pointer is reused if it resolves, and never for a provider
\* that takes no key.
Planned(row, resolves) ==
    LET Kept(p, ref) == IF p \notin Keyless /\ resolves THEN ref ELSE None
    IN  EachKey(row, Kept)

\* What an import refuses as a whole (422): an env-keyed fallback whose key
\* the instance cannot resolve.
Acceptable(doc) == PaidFor(Planned(doc, TRUE).chain)

\* The document is planned first, then planned again inside the transaction:
\* a pointer that resolved the first time may not the second.
Import(a) ==
    /\ \E org \in Documents \cup {None}, s \in Personas, agent \in Overrides \cup {None},
          replace \in BOOLEAN, resolves \in BOOLEAN :
           LET Share(scope, doc) ==
                   IF doc # None THEN <<Job(scope, "restore", Planned(doc, resolves))>>
                   ELSE IF replace THEN <<Job(scope, "prune", None)>> ELSE <<>>
               jobs == Share(Org, org) \o Share(s, agent)
           IN  /\ org # None => Acceptable(org)
               /\ jobs # <<>>
               /\ Start(a, jobs, <<>>)
               /\ lost' = (lost \/ (org # None /\ ~resolves))
    /\ UNCHANGED <<live, versions, moved>>

-----------------------------------------------------------------------------
(* A transaction.                                                          *)

\* Rollback reads the version inside its transaction and drops every ref that
\* does not resolve any more.
Restorable(row, good) ==
    LET Kept(p, ref) == IF ref \in good THEN ref ELSE None IN EachKey(row, Kept)

\* _secret_resolvable: which of a row's refs the secrets backend still knows,
\* if asked now.
Resolvable(row) ==
    IF row = None THEN {{}}
    ELSE SUBSET (({row.ref} \cup {row.chain[i].ref : i \in DOMAIN row.chain}) \ {None})

Rollback(a) ==
    /\ req[a].pc = "idle"
    /\ \E v \in versions : \E good \in Resolvable(v.snapshot) :
           LET new == IF v.snapshot = None THEN None ELSE Restorable(v.snapshot, good)
           IN  /\ Open(a, <<Job(v.scope, "restore", new)>>, <<>>)
               /\ lost' = (lost \/ new # v.snapshot)
    /\ UNCHANGED <<live, versions, moved>>

\* record_version: the prior state goes into the history, and what is older
\* than the newest Keep goes out of it.
Newest(vs) == {v \in vs : Cardinality({w \in vs : w.at > v.at}) < Keep}

RecordVersion(a) ==
    LET job == Head(req[a].jobs)
        own == [at |-> req[a].at, scope |-> job.scope,
                snapshot |-> live[job.scope], after |-> None]
        seen == {v \in versions : v.scope = job.scope} \cup {own}
    IN  req' = [req EXCEPT ![a].pc = "write", ![a].news = @ \cup {own},
                           ![a].gone = @ \cup (seen \ Newest(seen))]

\* A price sheet needs a row to attach to (409), and an import prunes only
\* rows that are there.
Record(a) ==
    /\ req[a].pc = "record"
    /\ LET job == Head(req[a].jobs)
       IN  IF live[job.scope] # None \/ job.do \notin {"price", "prune"}
           THEN RecordVersion(a) /\ UNCHANGED <<live, versions>>
           ELSE IF Len(req[a].jobs) > 1
           THEN /\ req' = [req EXCEPT ![a].jobs = Tail(@)]
                /\ UNCHANGED <<live, versions>>
           ELSE /\ live' = [s \in Scopes |-> IF s \in req[a].locks THEN req[a].rows[s] ELSE live[s]]
                /\ versions' = (versions \cup req[a].news) \ req[a].gone
                /\ req' = [req EXCEPT ![a] = NoRequest]
    /\ UNCHANGED <<clock, overlapped, lost, moved>>

\* A save or a preset that names another provider and no key keeps the row's
\* own key, now under the other provider.
Moves(job, row) ==
    /\ job.do \in {"put", "preset"} /\ job.new.ref = None
    /\ row # None /\ row.ref # None /\ row.provider # job.new.provider

\* The upsert waits for the row's lock and sees what is committed by then;
\* the last one commits.
Write(a) ==
    /\ req[a].pc = "write"
    /\ LET job  == Head(req[a].jobs)
           rows == [req[a].rows EXCEPT ![job.scope] = Written(job, live[job.scope])]
           held == req[a].locks \cup {job.scope}
           news == {IF v.scope = job.scope THEN [v EXCEPT !.after = rows[v.scope]] ELSE v :
                       v \in req[a].news}
       IN  /\ \A b \in Admins \ {a} : job.scope \notin req[b].locks
           /\ moved' = IF Moves(job, live[job.scope]) THEN moved \cup {job.scope} ELSE moved
           /\ IF Len(req[a].jobs) > 1
              THEN /\ req' = [req EXCEPT ![a].pc = "record", ![a].jobs = Tail(@),
                                         ![a].rows = rows, ![a].locks = held,
                                         ![a].news = news]
                   /\ UNCHANGED <<live, versions>>
              ELSE /\ live' = [s \in Scopes |-> IF s \in held THEN rows[s] ELSE live[s]]
                   /\ versions' = (versions \cup news) \ req[a].gone
                   /\ req' = [req EXCEPT ![a] = NoRequest]
    /\ UNCHANGED <<clock, overlapped, lost>>

\* A statement fails or the process dies: nothing of the transaction stays.
Abort(a) ==
    /\ InTransaction(a)
    /\ req' = [req EXCEPT ![a] = NoRequest]
    /\ UNCHANGED <<live, versions, clock, overlapped, lost, moved>>

\* list_versions reads the versions in one statement and the live rows in the
\* next ones: at READ COMMITTED, others may commit in between.
ReadVersions(a) ==
    /\ req[a].pc = "idle"
    /\ req' = [req EXCEPT ![a] = [NoRequest EXCEPT !.pc = "list", !.page = versions]]
    /\ UNCHANGED <<live, versions, clock, overlapped, lost, moved>>

ReadLive(a) ==
    /\ req[a].pc = "list"
    /\ req' = [req EXCEPT ![a] = NoRequest]
    /\ UNCHANGED <<live, versions, clock, overlapped, lost, moved>>

ConfigNext ==
    \E a \in Admins :
        \/ PutOrg(a) \/ PutAgent(a) \/ ApplyPreset(a) \/ ClearKey(a) \/ DeleteAgent(a)
        \/ PutPrices(a) \/ Import(a) \/ Rollback(a)
        \/ Begin(a) \/ Record(a) \/ Write(a) \/ Abort(a)
        \/ ReadVersions(a) \/ ReadLive(a)

ConfigSpec == ConfigInit /\ [][ConfigNext]_configVars

-----------------------------------------------------------------------------
ConfigTypeOK ==
    /\ \A s \in Scopes : live[s] = None \/ live[s] \in Row
    /\ \A v \in versions : v.at \in 0..MaxRequests /\ v.scope \in Scopes
    /\ clock \in 0..MaxRequests
    /\ overlapped \subseteq Scopes /\ lost \in BOOLEAN /\ moved \subseteq Scopes
    /\ \A a \in Admins :
           /\ req[a].pc \in {"idle", "begin", "record", "write", "list"}
           /\ \A i \in DOMAIN req[a].jobs : req[a].jobs[i].scope \in Scopes
           /\ \A v \in req[a].news : v.scope \in Scopes /\ v.at = req[a].at
           /\ req[a].locks \subseteq Scopes

\* Mutant: a version is paired with the one before it.
NextNewer_Older(v, page) == {w \in page : w.scope = v.scope /\ w.at < v.at}

\* list_versions: what a change left behind is what the next newer one on the
\* page found, or the live row.
NextNewer(v, page) == {w \in page : w.scope = v.scope /\ w.at > v.at}
AfterOf(v, page) ==
    IF NextNewer(v, page) = {} THEN live[v.scope]
    ELSE (CHOOSE w \in NextNewer(v, page) :
              \A x \in NextNewer(v, page) : w.at <= x.at).snapshot

\* config_diff: the fields that differ and how they are shown.  A key shows as
\* set or not, a chain as its providers and whether each has a key.
Field(row, f) == IF row = None THEN None ELSE row[f]
Shown(row, f) ==
    LET value == Field(row, f)
    IN  CASE f = "ref" /\ row # None -> value # None
          [] f = "chain" /\ row # None ->
                 [i \in DOMAIN value |-> <<value[i].provider, value[i].ref # None>>]
          [] OTHER -> value
Diff(before, after) ==
    [f \in {g \in {"provider", "ref", "chain", "price"} : Field(before, g) # Field(after, g)} |->
        <<Shown(before, f), Shown(after, f)>>]

\* A version that was the newest of its scope when the page was read and is
\* not any more: its difference takes the later change in.
Superseded(v, page) ==
    NextNewer(v, page) = {} /\ \E w \in versions : w.scope = v.scope /\ w.at > v.at

\* The differences the console shows are the changes that were made, whatever
\* the retention removed and whichever handler changed the scope, as long as
\* no two transactions over the scope were open at once and none committed
\* between the page's two statements.
DiffsAreTrue ==
    \A a \in Admins : req[a].pc = "list" =>
        \A v \in req[a].page :
            v.scope \notin overlapped /\ ~Superseded(v, req[a].page) =>
                Diff(v.snapshot, AfterOf(v, req[a].page)) = Diff(v.snapshot, v.after)

\* An entry of the chain never holds the key of another provider, however
\* saves, reorderings, rollbacks and imports interleave.
ChainKeysMatch ==
    LET Match(row) == row # None =>
            \A i \in DOMAIN row.chain : AtHome(row.chain[i].provider, row.chain[i].ref)
    IN  Match(live[Org]) /\ \A v \in versions : Match(v.snapshot)

\* A row's own key is another provider's only where a save or a preset has
\* named another provider and no key: the upsert keeps the ref, whatever it was
\* typed in for, and a rollback may bring that pair back.
OwnKeysMatch ==
    /\ \A s \in Scopes \ moved : OwnKeyHome(live[s])
    /\ \A v \in versions : v.scope \notin moved => OwnKeyHome(v.snapshot)

\* No fallback bills the operator unless a rollback or an import lost a key.
OperatorPaysOnlyAfterLoss == lost \/ live[Org] = None \/ PaidFor(live[Org].chain)

\* An export can be imported again unless an env-keyed fallback has a typed
\* key, whose ciphertext stays behind; it then is the same configuration but
\* for typed keys, and pointers survive.
RoundTrip ==
    live[Org] # None =>
        LET doc  == Exported(live[Org])
            back == Planned(doc, TRUE)
            Same(new, old) == new.provider = old.provider /\
                              (new.ref = old.ref \/ (new.ref = None /\ old.ref # Pointer)
                               \/ (new.ref = None /\ old.provider \in Keyless))
        IN  /\ Acceptable(doc) <=>
                   \A i \in DOMAIN live[Org].chain :
                       live[Org].chain[i].provider \in EnvKeyed =>
                           live[Org].chain[i].ref = Pointer
            /\ Same(back, live[Org]) /\ back.price = live[Org].price
            /\ DOMAIN back.chain = DOMAIN live[Org].chain
            /\ \A i \in DOMAIN back.chain : Same(back.chain[i], live[Org].chain[i])

\* Whose keys are where: a fallback's is its own provider's, a row's own is
\* too unless its provider was changed under it, no fallback runs on the
\* operator's, and an exported file holds none.
KeysStayHome ==
    ConfigTypeOK /\ ChainKeysMatch /\ OwnKeysMatch /\ OperatorPaysOnlyAfterLoss /\ RoundTrip

\* A row's own key is changed only by a request that types one in for the
\* provider it names, removes it, or puts back a whole row.
OwnKeysKept ==
    \A s \in Scopes :
        (live[s] # None /\ live'[s] # None /\ live[s].ref # live'[s].ref) =>
            \E a \in Admins : req[a].jobs # <<>> /\ req'[a] = NoRequest /\
                (\/ s \in req[a].locks
                 \/ Head(req[a].jobs).do \in {"clear", "restore"}
                 \/ live'[s].ref = Typed(live'[s].provider, a))

\* A fallback's is changed under the same provider only by a request that types
\* one in, puts back a whole row, or was built on a chain that has been
\* replaced since it was read.
FallbackKeysKept ==
    LET old == FallbacksOf(live[Org])
        new == FallbacksOf(live'[Org])
    IN  \A i \in DOMAIN old \cap DOMAIN new :
            (old[i].provider = new[i].provider /\ old[i].ref # new[i].ref) =>
                \E a \in Admins : req[a].jobs # <<>> /\ req'[a] = NoRequest /\
                    (\/ Org \in req[a].locks
                     \/ Head(req[a].jobs).do = "restore"
                     \/ new[i].ref = Typed(new[i].provider, a)
                     \/ req[a].seen # old)

\* A save without a key, a preset and a price sheet keep a row's own key, also
\* one that was entered after they began.  A save keeps its fallbacks' keys
\* only as far as it has read them: it overwrites one entered in between.
EditsKeepKeys == [][OwnKeysKept /\ FallbackKeysKept]_configVars
=============================================================================

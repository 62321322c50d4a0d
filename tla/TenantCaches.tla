---------------------------- MODULE TenantCaches ----------------------------
(***************************************************************************)
(* What a turn reads of its organization's settings: persona prompts, tool *)
(* bindings, the call quota, the price sheet and resolved secrets.  Each   *)
(* process keeps each of them in a dictionary of its own with a time to    *)
(* live; a change is committed first and then dropped from the dictionary  *)
(* of the process that made it, and of no other (a rollback or an import   *)
(* of prices not even there).  A reader looks, loads                       *)
(* and stores in separate steps.  The dictionaries share nothing, so a     *)
(* behaviour is about one of them.  Time is counted in ticks, and a lookup *)
(* with its fill takes less than one.                                      *)
(***************************************************************************)
EXTENDS Integers, FiniteSets, Functions, FiniteSetsExt, Nothing

CONSTANTS
    Processes,   \* API servers and workers
    Kinds,       \* which dictionaries: see Names
    Ttl,         \* of each kind, in ticks
    Values,      \* what the setting may be, besides None: no row
    Rpm,         \* the limit a quota stands for; Rpm[None] is llm_rpm_default
    Minute,      \* ticks in a minute of the rate limiter
    NegativeTtl, \* ticks a failed tool server is left alone
    Cap,         \* mcp_calls_per_turn
    MaxAttempts  \* bound on the attempts counted in a minute

Names == {"prompt", "tools", "quota", "price", "secret"}

ASSUME CachesAssumption ==
    /\ Kinds \subseteq Names
    /\ Ttl \in [Kinds -> Nat \ {0}]
    /\ None \notin Values
    /\ Rpm \in [Values \cup {None} -> Nat]
    /\ {Minute, NegativeTtl, Cap} \subseteq Nat \ {0}
    /\ MaxAttempts \in Nat \ {0}

VARIABLES
    kind,      \* the dictionary this behaviour is about
    db,        \* the committed setting
    age,       \* ghost: ticks since a value was in force
    cache,     \* each process's entry
    reader,    \* the lookup of a turn in each process
    pending,   \* processes whose admin handler has yet to invalidate
    count,     \* the limiter's counter of this minute, in Redis
    admitted,  \* ghost: calls the counter admitted this minute
    phase,     \* ticks into the minute
    negative,  \* ticks a process leaves the failed tool server alone
    calls      \* _turn_calls of the thread each process works for

vars == <<kind, db, age, cache, reader, pending, count, admitted, phase, negative, calls>>
tooling == <<negative, calls>>
limiter == <<count, admitted, phase>>

-----------------------------------------------------------------------------
Settings == Values \cup {None}

\* The properties do not tell higher ages apart.
Old == IF kind = "quota" THEN Ttl[kind] + Minute ELSE Ttl[kind]

\* excused: the setting changed unheard, or was dropped here during the fill.
Absent == [val |-> None, ttl |-> 0, excused |-> FALSE]
Idle   == [pc |-> "idle", val |-> None, excused |-> FALSE]

Goto(p, step) == reader' = [reader EXCEPT ![p].pc = step]
Use(p, v)     == reader' = [reader EXCEPT ![p] = [Idle EXCEPT !.pc = "use", !.val = v]]
Done(p)       == reader' = [reader EXCEPT ![p] = Idle]

\* Superseded behind the process's back: an entry it holds, a value it has read.
Outdated(entry) == [entry EXCEPT !.excused = (@ \/ entry.ttl > 0)]
Overtaken(r)    == [r EXCEPT !.excused = (@ \/ r.pc = "store")]

Init ==
    /\ kind \in Kinds
    /\ db \in Settings
    /\ age = [v \in Settings |-> IF v = db THEN 0 ELSE Old]
    /\ cache = [p \in Processes |-> Absent]
    /\ reader = [p \in Processes |-> Idle]
    /\ pending = {}
    /\ count = 0 /\ admitted = 0 /\ phase = 0
    /\ negative = [p \in Processes |-> 0]
    /\ calls = [p \in Processes |-> 0]

-----------------------------------------------------------------------------
(* A turn reads the setting.                                               *)

\* A live entry is served as it is.
Lookup(p) ==
    /\ reader[p].pc = "idle"
    /\ IF cache[p].ttl > 0 THEN Use(p, cache[p].val) ELSE Goto(p, "load")
    /\ UNCHANGED <<kind, db, age, cache, pending, limiter, tooling>>

\* The row is read, or the secrets backend asked.  A ref that resolves to
\* nothing raises and is not kept.
Load(p) ==
    /\ reader[p].pc = "load"
    /\ IF kind = "secret" /\ db = None THEN Done(p)
       ELSE reader' = [reader EXCEPT ![p].pc = "store", ![p].val = db]
    /\ UNCHANGED <<kind, db, age, cache, pending, limiter, tooling>>

\* Mutant: a secret that cannot be resolved passes for no secret.
LoadFails_Softly(p) ==
    /\ reader[p].pc = "load"
    /\ CASE kind \in {"prompt", "secret"} -> Use(p, None)
         [] OTHER -> reader' = [reader EXCEPT ![p].pc = "store", ![p].val = None,
                                              ![p].excused = TRUE]
    /\ UNCHANGED <<kind, db, age, cache, pending, limiter, tooling>>

\* The read fails.  No prompt is returned but nothing is kept; a secret raises;
\* the others take it for no row at all, and keep that.
LoadFails(p) ==
    /\ reader[p].pc = "load"
    /\ CASE kind = "prompt" -> Use(p, None)
         [] kind = "secret" -> Done(p)
         [] OTHER -> reader' = [reader EXCEPT ![p].pc = "store", ![p].val = None,
                                              ![p].excused = TRUE]
    /\ UNCHANGED <<kind, db, age, cache, pending, limiter, tooling>>

\* Mutant: an entry outlives its time by as much again.
Store_Long(p) ==
    /\ reader[p].pc = "store"
    /\ cache' = [cache EXCEPT ![p] = [val |-> reader[p].val, ttl |-> 2 * Ttl[kind],
                                      excused |-> reader[p].excused]]
    /\ Use(p, reader[p].val)
    /\ UNCHANGED <<kind, db, age, pending, limiter, tooling>>

Store(p) ==
    /\ reader[p].pc = "store"
    /\ cache' = [cache EXCEPT ![p] = [val |-> reader[p].val, ttl |-> Ttl[kind],
                                      excused |-> reader[p].excused]]
    /\ Use(p, reader[p].val)
    /\ UNCHANGED <<kind, db, age, pending, limiter, tooling>>

\* A prompt, a price sheet or a key is used once and forgotten.
Spend(p) ==
    /\ reader[p].pc = "use" /\ kind \in {"prompt", "price", "secret"}
    /\ Done(p)
    /\ UNCHANGED <<kind, db, age, cache, pending, limiter, tooling>>

-----------------------------------------------------------------------------
(* RateLimit.acquire with the quota that was read.                         *)

\* Mutant: the attempt is compared before it is counted.
Acquire_Late(p) ==
    /\ reader[p].pc = "use" /\ kind = "quota"
    /\ count < MaxAttempts
    /\ count' = count + 1
    /\ admitted' = IF count <= Rpm[reader[p].val] THEN admitted + 1 ELSE admitted
    /\ Done(p)
    /\ UNCHANGED <<kind, db, age, cache, pending, phase, tooling>>

\* Mutant: the call is let through and never counted.
Acquire_Uncounted(p) ==
    /\ reader[p].pc = "use" /\ kind = "quota"
    /\ count < MaxAttempts
    /\ admitted' = IF count < Rpm[reader[p].val] THEN admitted + 1 ELSE admitted
    /\ Done(p)
    /\ UNCHANGED <<kind, db, age, cache, pending, count, phase, tooling>>

Acquire(p) ==
    /\ reader[p].pc = "use" /\ kind = "quota"
    /\ count < MaxAttempts
    /\ count' = count + 1
    /\ admitted' = IF count' <= Rpm[reader[p].val] THEN admitted + 1 ELSE admitted
    /\ Done(p)
    /\ UNCHANGED <<kind, db, age, cache, pending, phase, tooling>>

\* Redis is away: the call goes ahead, uncounted, or counted as the first of
\* its minute when only the EXPIRE was lost.
AcquireFails(p) ==
    /\ reader[p].pc = "use" /\ kind = "quota"
    /\ count' \in {count, IF count = 0 THEN 1 ELSE count}
    /\ Done(p)
    /\ UNCHANGED <<kind, db, age, cache, pending, admitted, phase, tooling>>

-----------------------------------------------------------------------------
(* MCPToolBackend.call_tool with the bindings that were read.              *)

\* The server is not bound, its tool not allowed or its transport forbidden; or,
\* once the attempt is counted, the cap is reached, the server failed a while
\* ago or its token does not resolve.  The node gets an error to read.
RefuseTool(p) ==
    /\ reader[p].pc = "use" /\ kind = "tools"
    /\ \/ UNCHANGED calls
       \/ /\ reader[p].val # None
          /\ calls' = [calls EXCEPT ![p] = IF @ > Cap THEN @ ELSE @ + 1]
    /\ Done(p)
    /\ UNCHANGED <<kind, db, age, cache, pending, limiter, negative>>

CallTool(p) ==
    /\ reader[p].pc = "use" /\ kind = "tools" /\ reader[p].val # None
    /\ calls[p] < Cap /\ negative[p] = 0
    /\ calls' = [calls EXCEPT ![p] = @ + 1]
    /\ Goto(p, "calling")
    /\ UNCHANGED <<kind, db, age, cache, pending, limiter, negative>>

ToolAnswers(p) ==
    /\ reader[p].pc = "calling"
    /\ negative' = [negative EXCEPT ![p] = 0]
    /\ Done(p)
    /\ UNCHANGED <<kind, db, age, cache, pending, limiter, calls>>

ToolFails(p) ==
    /\ reader[p].pc = "calling"
    /\ negative' = [negative EXCEPT ![p] = NegativeTtl]
    /\ Done(p)
    /\ UNCHANGED <<kind, db, age, cache, pending, limiter, calls>>

\* The table of counters is emptied when it is full of other threads; nothing
\* empties it when a turn ends.
ClearCalls(p) ==
    /\ kind = "tools"
    /\ calls' = [calls EXCEPT ![p] = 0]
    /\ UNCHANGED <<kind, db, age, cache, reader, pending, limiter, negative>>

-----------------------------------------------------------------------------
(* An admin changes the setting in process p.                              *)

\* The commit; what the other processes hold, or have just read, is now stale
\* and they are not told.
Change(p, v) ==
    /\ p \notin pending /\ v # db
    /\ db' = v
    /\ age' = [age EXCEPT ![v] = 0]
    /\ pending' = pending \cup {p}
    /\ cache' = [q \in Processes |-> IF q = p THEN cache[q] ELSE Outdated(cache[q])]
    /\ reader' = [q \in Processes |-> IF q = p THEN reader[q] ELSE Overtaken(reader[q])]
    /\ UNCHANGED <<kind, limiter, tooling>>

ActivatePrompt(p)   == kind = "prompt" /\ \E v \in Values : Change(p, v)
DeactivatePrompt(p) == kind = "prompt" /\ Change(p, None)
SetBindings(p)      == kind = "tools" /\ \E v \in Settings : Change(p, v)
UpdateServer(p)     == kind = "tools" /\ \E v \in Settings : Change(p, v)
DeleteServer(p)     == kind = "tools" /\ Change(p, None)
PutQuota(p)         == kind = "quota" /\ \E v \in Settings : Change(p, v)
PutOverrides(p)     == kind = "price" /\ \E v \in Settings : Change(p, v)
StoreKey(p)         == kind = "secret" /\ \E v \in Values : Change(p, v)

\* A change no process is told of.
Quietly(v) ==
    /\ db' = v
    /\ age' = [age EXCEPT ![v] = 0]
    /\ cache' = [q \in Processes |-> Outdated(cache[q])]
    /\ reader' = [q \in Processes |-> Overtaken(reader[q])]
    /\ UNCHANGED <<kind, pending, limiter, tooling>>

\* Somebody takes the secret away behind the engine's back.
LoseSecret == kind = "secret" /\ db # None /\ Quietly(None)

\* Neither tells a process of the prices it has written, not even its own;
\* both drop every secret this process has resolved.
Restore(p) ==
    \/ kind = "price" /\ \E v \in Settings : v # db /\ Quietly(v)
    \/ /\ kind = "secret"
       /\ cache' = [cache EXCEPT ![p] = Absent]
       /\ reader' = [reader EXCEPT ![p] = Overtaken(@)]
       /\ UNCHANGED <<kind, db, age, pending, limiter, tooling>>

RollbackConfig(p) == Restore(p)
ImportConfig(p)   == Restore(p)

\* Mutant: the handler forgets to invalidate.
Invalidate_Not(p) ==
    /\ p \in pending
    /\ pending' = pending \ {p}
    /\ UNCHANGED <<kind, db, age, cache, reader, limiter, tooling>>

\* Then the handler drops the entry of its own process; a fill under way will
\* put back what it has read.
Invalidate(p) ==
    /\ p \in pending
    /\ pending' = pending \ {p}
    /\ cache' = [cache EXCEPT ![p] = Absent]
    /\ reader' = [reader EXCEPT ![p] = Overtaken(@)]
    /\ UNCHANGED <<kind, db, age, limiter, tooling>>

-----------------------------------------------------------------------------
Less(n) == IF n = 0 THEN 0 ELSE n - 1

Tick ==
    /\ \A p \in Processes : reader[p].pc \in {"idle", "calling"}
    /\ age' = [v \in Settings |-> IF v = db THEN 0 ELSE IF age[v] = Old THEN Old ELSE age[v] + 1]
    /\ cache' = [p \in Processes |-> IF cache[p].ttl <= 1 THEN Absent
                                     ELSE [cache[p] EXCEPT !.ttl = @ - 1]]
    /\ negative' = [p \in Processes |-> Less(negative[p])]
    /\ phase' = IF kind = "quota" THEN (phase + 1) % Minute ELSE 0
    /\ IF phase' = 0 THEN count' = 0 /\ admitted' = 0 ELSE UNCHANGED <<count, admitted>>
    /\ UNCHANGED <<kind, db, reader, pending, calls>>

Next ==
    \/ Tick \/ LoseSecret
    \/ \E p \in Processes :
           \/ Lookup(p) \/ Load(p) \/ LoadFails(p) \/ Store(p) \/ Spend(p)
           \/ Acquire(p) \/ AcquireFails(p)
           \/ RefuseTool(p) \/ CallTool(p) \/ ToolAnswers(p) \/ ToolFails(p) \/ ClearCalls(p)
           \/ ActivatePrompt(p) \/ DeactivatePrompt(p) \/ SetBindings(p)
           \/ UpdateServer(p) \/ DeleteServer(p)
           \/ PutQuota(p) \/ PutOverrides(p) \/ StoreKey(p) \/ Invalidate(p)
           \/ RollbackConfig(p) \/ ImportConfig(p)

Spec == Init /\ [][Next]_vars

-----------------------------------------------------------------------------
TypeOK ==
    /\ kind \in Kinds /\ db \in Settings
    /\ age \in [Settings -> 0..Old]
    /\ \A p \in Processes :
           /\ cache[p].val \in Settings /\ cache[p].ttl \in 0..(2 * Ttl[kind])
           /\ reader[p].pc \in {"idle", "load", "store", "use", "calling"}
           /\ reader[p].val \in Settings
    /\ pending \subseteq Processes
    /\ count \in 0..MaxAttempts /\ admitted \in 0..count /\ phase \in 0..(Minute - 1)
    /\ negative \in [Processes -> 0..NegativeTtl] /\ calls \in [Processes -> 0..(Cap + 1)]

\* In whichever process a turn runs, it works with a setting that was in force
\* less than a time to live ago, also when an invalidation and a fill cross.
\* (No row may also stand for a failed read.)
BoundedStaleness ==
    \A p \in Processes :
        reader[p].pc = "use" /\ reader[p].val # None => age[reader[p].val] < Ttl[kind]

\* A process serves a superseded setting only if it changed in another one or
\* while a fill was under way, before its own handler is done, or, for prices,
\* in a rollback or an import, which no process is told of.
OwnProcessFresh ==
    \A p \in Processes :
        (cache[p].ttl > 0 /\ cache[p].val # db) => cache[p].excused \/ p \in pending

\* A key that cannot be resolved is never taken for no key.
NeverTheOperatorsKey ==
    \A p \in Processes : kind = "secret" /\ reader[p].pc = "use" => reader[p].val # None

\* What a turn is served is a setting that was in force less than a time to live
\* ago, or that is in force where nothing excuses an old one, and never the
\* operator's key for one that does not resolve.
ServedIsCurrent == TypeOK /\ BoundedStaleness /\ OwnProcessFresh /\ NeverTheOperatorsKey

\* In a minute the limiter admits no more calls than the largest limit that was
\* in force during it or a time to live before; a failed read counts as the
\* default.
QuotaBinds ==
    kind = "quota" =>
        admitted <= Max({Rpm[v] : v \in {v \in Settings : age[v] < Ttl[kind] + Minute} \cup {None}})
=============================================================================

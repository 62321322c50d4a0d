---------------------------- MODULE SettingsProofs ----------------------------
(***************************************************************************)
(* The settings of the organizations.  What a turn is served of them, for  *)
(* any number of processes and any times to live: never a value older than *)
(* a time to live, never a superseded one that nothing excuses, and never  *)
(* the operator's key for one that does not resolve; and how many calls a  *)
(* minute admits under a quota that is being changed.  And how the model   *)
(* configuration is edited, for any number of admins and any seeds: keys   *)
(* stay with their provider and organization, edits keep them, and the     *)
(* differences the history shows are the changes that were made.           *)
(***************************************************************************)
EXTENDS TenantCaches, ConfigStore, TLAPS, FiniteSetTheorems, WellFoundedInduction, SequenceTheorems

-----------------------------------------------------------------------------
(* The inductive invariant.                                                *)

Entry == [val : Settings, ttl : Nat, excused : BOOLEAN]
Look  == [pc : {"idle", "load", "store", "use", "calling"}, val : Settings, excused : BOOLEAN]

Shapes ==
    /\ kind \in Kinds /\ db \in Settings /\ pending \subseteq Processes
    /\ age \in [Settings -> 0..Old] /\ age[db] = 0
    /\ cache \in [Processes -> Entry] /\ \A p \in Processes : cache[p].ttl <= Ttl[kind]
    /\ reader \in [Processes -> Look]

Counters ==
    /\ count \in 0..MaxAttempts /\ admitted \in 0..count /\ phase \in 0..(Minute - 1)
    /\ negative \in [Processes -> 0..NegativeTtl] /\ calls \in [Processes -> 0..(Cap + 1)]

\* A value read in process p that is not the committed one any more.
Accounted(p, val, excused) == val = db \/ excused \/ p \in pending

\* The older an entry's value, the less time it has left.
EntryTrue(p, e) ==
    e.ttl > 0 =>
        /\ e.val # None => age[e.val] + e.ttl <= Ttl[kind]
        /\ Accounted(p, e.val, e.excused)
        /\ kind = "secret" => e.val # None

\* What is about to be stored was in force this very tick, what is used less
\* than a time to live ago.
LookTrue(p, r) ==
    /\ r.pc = "store" => /\ r.val # None => age[r.val] = 0
                         /\ Accounted(p, r.val, r.excused)
    /\ r.pc = "use" /\ r.val # None => age[r.val] < Ttl[kind]
    /\ r.pc \in {"store", "use"} /\ kind = "secret" => r.val # None

ServedTrue == \A p \in Processes : EntryTrue(p, cache[p]) /\ LookTrue(p, reader[p])

\* The calls admitted so far this minute were admitted under a quota that was
\* in force a time to live before the minute began, or later, or the default.
Witnessed ==
    kind = "quota" =>
        \E v \in Settings : /\ admitted <= Rpm[v]
                            /\ v = None \/ age[v] < Ttl[kind] + phase

\* Only finitely many settings are young enough to matter.
Young == {v \in Settings : age[v] < Old}

IInv == Shapes /\ Counters /\ ServedTrue /\ Witnessed /\ IsFiniteSet(Young)

USE CachesAssumption

LEMMA NoneIsASetting == None \in Settings
BY DEF Settings

LEMMA Lives ==
    ASSUME kind \in Kinds
    PROVE  /\ Ttl[kind] \in Nat /\ Ttl[kind] > 0
           /\ Old \in Nat /\ Old >= Ttl[kind]
           /\ kind = "quota" => Old = Ttl[kind] + Minute
BY DEF Old

-----------------------------------------------------------------------------
(* The first state.                                                        *)

THEOREM Initially == Init => IInv
<1> SUFFICES ASSUME Init PROVE IInv
  OBVIOUS
<1>1. Shapes
  BY Lives, NoneIsASetting DEF Init, Shapes, Entry, Look, Absent, Idle, Settings
<1>2. Counters
  BY DEF Init, Counters
<1>3. ServedTrue
  BY DEF Init, ServedTrue, EntryTrue, LookTrue, Absent, Idle
<1>4. Witnessed
  BY NoneIsASetting DEF Init, Witnessed, Settings
<1>5. IsFiniteSet(Young)
  <2>1. Young \subseteq {db}
    BY Lives DEF Init, Young
  <2> QED BY <2>1, FS_Singleton, FS_Subset
<1> QED BY <1>1, <1>2, <1>3, <1>4, <1>5 DEF IInv

-----------------------------------------------------------------------------
(* What most steps leave alone.                                            *)

\* The reader of one process moves, and the settings and entries stay.
LEMMA ReaderMoves ==
    ASSUME IInv, NEW p \in Processes, NEW r \in Look, LookTrue(p, r),
           reader' = [reader EXCEPT ![p] = r],
           UNCHANGED <<kind, db, age, cache, pending>>
    PROVE  Shapes' /\ ServedTrue' /\ IsFiniteSet(Young)'
<1>1. Shapes'
  BY DEF IInv, Shapes, Old
<1>2. ASSUME NEW q \in Processes PROVE EntryTrue(q, cache[q])' /\ LookTrue(q, reader[q])'
  <2>1. reader'[q] = IF q = p THEN r ELSE reader[q]
    BY DEF IInv, Shapes
  <2>2. EntryTrue(q, cache[q]) /\ LookTrue(q, reader[q])
    BY DEF IInv, ServedTrue
  <2> QED BY <2>1, <2>2 DEF EntryTrue, LookTrue, Accounted
<1>3. Young' = Young
  BY DEF Young, Old
<1> QED BY <1>1, <1>2, <1>3 DEF IInv, ServedTrue

\* A lookup that ends, or a call on its way, claims nothing.
LEMMA ReaderRests ==
    ASSUME IInv, NEW p \in Processes, NEW r \in Look, r.pc \in {"idle", "load", "calling"}
    PROVE  LookTrue(p, r)
BY DEF LookTrue

LEMMA CountersStay ==
    ASSUME IInv, UNCHANGED <<limiter, tooling>>
    PROVE  Counters'
BY DEF IInv, Counters, limiter, tooling

LEMMA WitnessStays ==
    ASSUME IInv, UNCHANGED <<kind, age, admitted, phase>>
    PROVE  Witnessed'
BY DEF IInv, Witnessed

LEMMA Moved ==
    ASSUME IInv, NEW p \in Processes, NEW step \in {"idle", "load", "store", "use", "calling"}
    PROVE  /\ [reader EXCEPT ![p].pc = step] = [reader EXCEPT ![p] = [reader[p] EXCEPT !.pc = step]]
           /\ [reader[p] EXCEPT !.pc = step] \in Look
           /\ Idle \in Look
           /\ \A v \in Settings : [Idle EXCEPT !.pc = "use", !.val = v] \in Look
BY NoneIsASetting DEF IInv, Shapes, Look, Idle

-----------------------------------------------------------------------------
(* One lemma for each step of a lookup.                                    *)

LEMMA LookupKeeps == ASSUME IInv, NEW p \in Processes, Lookup(p) PROVE IInv'
<1>1. cache[p] \in Entry /\ reader[p] \in Look /\ EntryTrue(p, cache[p])
  BY DEF IInv, Shapes, ServedTrue
<1>2. CASE cache[p].ttl > 0
  <2> DEFINE r == [Idle EXCEPT !.pc = "use", !.val = cache[p].val]
  <2>1. r \in Look /\ r.pc = "use" /\ r.val = cache[p].val
    BY <1>1, Moved DEF Entry, Idle
  <2>2. cache[p].val # None => age[cache[p].val] < Ttl[kind]
    <3> HAVE cache[p].val # None
    <3>1. age[cache[p].val] + cache[p].ttl <= Ttl[kind]
      BY <1>1, <1>2 DEF EntryTrue
    <3>2. age[cache[p].val] \in Nat /\ cache[p].ttl \in Nat /\ Ttl[kind] \in Nat
      BY <1>1, Lives DEF IInv, Shapes, Entry
    <3> QED BY <1>2, <3>1, <3>2
  <2>3. LookTrue(p, r)
    BY <1>1, <1>2, <2>1, <2>2 DEF LookTrue, EntryTrue
  <2>4. reader' = [reader EXCEPT ![p] = r]
    BY <1>2 DEF Lookup, Use
  <2> HIDE DEF r
  <2> QED BY <2>1, <2>3, <2>4, ReaderMoves, CountersStay, WitnessStays DEF Lookup, IInv, limiter
<1>3. CASE ~(cache[p].ttl > 0)
  <2> DEFINE r == [reader[p] EXCEPT !.pc = "load"]
  <2>1. r \in Look /\ r.pc = "load" /\ reader' = [reader EXCEPT ![p] = r]
    BY <1>1, <1>3, Moved DEF Lookup, Goto, Look
  <2> HIDE DEF r
  <2> QED BY <2>1, ReaderRests, ReaderMoves, CountersStay, WitnessStays DEF Lookup, IInv, limiter
<1> QED BY <1>2, <1>3

\* A lookup that ends leaves the settings and the entries as they were.
LEMMA DoneKeeps ==
    ASSUME IInv, NEW p \in Processes, Done(p), UNCHANGED <<kind, db, age, cache, pending>>
    PROVE  Shapes' /\ ServedTrue' /\ IsFiniteSet(Young)'
<1>1. Idle \in Look /\ Idle.pc = "idle"
  BY Moved DEF Idle
<1> QED BY <1>1, ReaderRests, ReaderMoves DEF Done

LEMMA LoadKeeps == ASSUME IInv, NEW p \in Processes, Load(p) PROVE IInv'
<1>1. CASE kind = "secret" /\ db = None
  BY <1>1, DoneKeeps, CountersStay, WitnessStays DEF Load, IInv, limiter
<1>2. CASE ~(kind = "secret" /\ db = None)
  <2> DEFINE r == [reader[p] EXCEPT !.pc = "store", !.val = db]
  <2>1. reader[p] \in Look /\ db \in Settings /\ age[db] = 0
    BY DEF IInv, Shapes
  <2>2. r \in Look /\ r.pc = "store" /\ r.val = db
    BY <2>1 DEF Look
  <2>3. reader' = [reader EXCEPT ![p] = r]
    BY <1>2 DEF Load, IInv, Shapes, Look
  <2>4. LookTrue(p, r)
    BY <1>2, <2>1, <2>2 DEF LookTrue, Accounted
  <2> HIDE DEF r
  <2> QED BY <2>2, <2>3, <2>4, ReaderMoves, CountersStay, WitnessStays DEF Load, IInv, limiter
<1> QED BY <1>1, <1>2

LEMMA LoadFailsKeeps == ASSUME IInv, NEW p \in Processes, LoadFails(p) PROVE IInv'
<1>1. CASE kind = "prompt"
  <2> DEFINE r == [Idle EXCEPT !.pc = "use", !.val = None]
  <2>1. r \in Look /\ r.pc = "use" /\ r.val = None
    BY Moved, NoneIsASetting DEF Idle
  <2>2. reader' = [reader EXCEPT ![p] = r]
    BY <1>1 DEF LoadFails, Use
  <2>3. LookTrue(p, r)
    BY <1>1, <2>1 DEF LookTrue
  <2> HIDE DEF r
  <2> QED BY <2>1, <2>2, <2>3, ReaderMoves, CountersStay, WitnessStays DEF LoadFails, IInv, limiter
<1>2. CASE kind = "secret"
  BY <1>2, DoneKeeps, CountersStay, WitnessStays DEF LoadFails, IInv, limiter
<1>3. CASE kind \notin {"prompt", "secret"}
  <2> DEFINE r == [reader[p] EXCEPT !.pc = "store", !.val = None, !.excused = TRUE]
  <2>1. reader[p] \in Look
    BY DEF IInv, Shapes
  <2>2. r \in Look /\ r.pc = "store" /\ r.val = None /\ r.excused = TRUE
    BY <2>1, NoneIsASetting DEF Look
  <2>3. reader' = [reader EXCEPT ![p] = r]
    BY <1>3 DEF LoadFails, IInv, Shapes, Look
  <2>4. LookTrue(p, r)
    BY <1>3, <2>2 DEF LookTrue, Accounted
  <2> HIDE DEF r
  <2> QED BY <2>2, <2>3, <2>4, ReaderMoves, CountersStay, WitnessStays DEF LoadFails, IInv, limiter
<1> QED BY <1>1, <1>2, <1>3

\* What is stored was in force within the tick, so it lives a whole time to live.
LEMMA StoreKeeps == ASSUME IInv, NEW p \in Processes, Store(p) PROVE IInv'
<1> DEFINE r == [Idle EXCEPT !.pc = "use", !.val = reader[p].val]
           e == [val |-> reader[p].val, ttl |-> Ttl[kind], excused |-> reader[p].excused]
<1>1. reader[p] \in Look /\ LookTrue(p, reader[p]) /\ reader[p].pc = "store"
  BY DEF IInv, Shapes, ServedTrue, Store
<1>2. r \in Look /\ r.pc = "use" /\ r.val = reader[p].val
  BY <1>1, Moved DEF Idle, Look
<1>3. Ttl[kind] \in Nat /\ Ttl[kind] > 0
  BY Lives DEF IInv, Shapes
<1>4. e \in Entry /\ e.ttl = Ttl[kind] /\ e.val = reader[p].val /\ e.excused = reader[p].excused
  BY <1>1, <1>3 DEF Entry, Look
<1>5. reader' = [reader EXCEPT ![p] = r] /\ cache' = [cache EXCEPT ![p] = e]
  BY DEF Store, Use
<1>6. LookTrue(p, r)
  BY <1>1, <1>2, <1>3 DEF LookTrue
<1>7. EntryTrue(p, e)
  BY <1>1, <1>3, <1>4 DEF LookTrue, EntryTrue, Accounted
<1>8. UNCHANGED <<kind, db, age, pending, limiter, tooling>>
  BY DEF Store
<1> HIDE DEF r, e
<1>9. Shapes'
  BY <1>2, <1>3, <1>4, <1>5, <1>8 DEF IInv, Shapes, Old
<1>10. ASSUME NEW q \in Processes PROVE EntryTrue(q, cache[q])' /\ LookTrue(q, reader[q])'
  <2>1. /\ reader'[q] = IF q = p THEN r ELSE reader[q]
        /\ cache'[q] = IF q = p THEN e ELSE cache[q]
    BY <1>5 DEF IInv, Shapes
  <2>2. EntryTrue(q, cache[q]) /\ LookTrue(q, reader[q])
    BY DEF IInv, ServedTrue
  <2> QED BY <1>6, <1>7, <1>8, <2>1, <2>2 DEF EntryTrue, LookTrue, Accounted
<1>11. Young' = Young
  BY <1>8 DEF Young, Old
<1> QED BY <1>8, <1>9, <1>10, <1>11, CountersStay, WitnessStays DEF IInv, ServedTrue, limiter

LEMMA SpendKeeps == ASSUME IInv, NEW p \in Processes, Spend(p) PROVE IInv'
BY DoneKeeps, CountersStay, WitnessStays DEF Spend, IInv, limiter

-----------------------------------------------------------------------------
(* The limiter and the tool servers.                                       *)

\* The quota a call was admitted under was read less than a time to live ago.
LEMMA AcquireKeeps == ASSUME IInv, NEW p \in Processes, Acquire(p) PROVE IInv'
<1>1. Shapes' /\ ServedTrue' /\ IsFiniteSet(Young)'
  BY DoneKeeps DEF Acquire
<1>2. Counters'
  BY DEF Acquire, IInv, Counters, tooling
<1>3. Witnessed'
  <2>1. CASE count' <= Rpm[reader[p].val]
    <3> DEFINE v == reader[p].val
    <3>1. reader[p] \in Look /\ LookTrue(p, reader[p]) /\ reader[p].pc = "use"
      BY DEF IInv, Shapes, ServedTrue, Acquire
    <3>2. v \in Settings /\ (v = None \/ age[v] < Ttl[kind])
      BY <3>1 DEF Look, LookTrue
    <3>3. admitted' <= Rpm[v]
      <4>1. admitted' = admitted + 1 /\ count' = count + 1 /\ admitted \in 0..count /\ count \in Nat
        BY <2>1 DEF Acquire, IInv, Counters
      <4>2. Rpm[v] \in Nat
        BY <3>2 DEF Settings
      <4> QED BY <2>1, <4>1, <4>2
    <3>4. v = None \/ age[v] < Ttl[kind] + phase
      <4>1. age[v] \in Nat /\ phase \in Nat /\ Ttl[kind] \in Nat
        BY <3>2, Lives DEF IInv, Shapes, Counters
      <4> QED BY <3>2, <4>1
    <3> HIDE DEF v
    <3> QED BY <3>2, <3>3, <3>4 DEF Acquire, Witnessed
  <2>2. CASE ~(count' <= Rpm[reader[p].val])
    BY <2>2, WitnessStays DEF Acquire
  <2> QED BY <2>1, <2>2
<1> QED BY <1>1, <1>2, <1>3 DEF IInv

LEMMA AcquireFailsKeeps == ASSUME IInv, NEW p \in Processes, AcquireFails(p) PROVE IInv'
<1>1. Shapes' /\ ServedTrue' /\ IsFiniteSet(Young)'
  BY DoneKeeps DEF AcquireFails
<1>2. Counters'
  BY DEF AcquireFails, IInv, Counters, tooling
<1> QED BY <1>1, <1>2, WitnessStays DEF IInv, AcquireFails

LEMMA RefuseToolKeeps == ASSUME IInv, NEW p \in Processes, RefuseTool(p) PROVE IInv'
<1>1. Shapes' /\ ServedTrue' /\ IsFiniteSet(Young)'
  BY DoneKeeps DEF RefuseTool
<1>2. Counters'
  BY DEF RefuseTool, IInv, Counters, limiter
<1> QED BY <1>1, <1>2, WitnessStays DEF IInv, RefuseTool, limiter

LEMMA CallToolKeeps == ASSUME IInv, NEW p \in Processes, CallTool(p) PROVE IInv'
<1> DEFINE r == [reader[p] EXCEPT !.pc = "calling"]
<1>1. r \in Look /\ r.pc = "calling" /\ reader' = [reader EXCEPT ![p] = r]
  <2>1. reader[p] \in Look
    BY DEF IInv, Shapes
  <2>2. reader' = [reader EXCEPT ![p] = r]
    BY Moved DEF CallTool, Goto
  <2>3. r \in Look /\ r.pc = "calling"
    BY <2>1 DEF Look
  <2> QED BY <2>2, <2>3
<1> HIDE DEF r
<1>2. Shapes' /\ ServedTrue' /\ IsFiniteSet(Young)'
  BY <1>1, ReaderRests, ReaderMoves DEF CallTool
<1>3. Counters'
  BY DEF CallTool, IInv, Counters, limiter
<1> QED BY <1>2, <1>3, WitnessStays DEF IInv, CallTool, limiter

LEMMA ToolReturnsKeeps ==
    ASSUME IInv, NEW p \in Processes, ToolAnswers(p) \/ ToolFails(p)
    PROVE  IInv'
<1>1. Shapes' /\ ServedTrue' /\ IsFiniteSet(Young)'
  BY DoneKeeps DEF ToolAnswers, ToolFails
<1>2. Counters'
  BY DEF ToolAnswers, ToolFails, IInv, Counters, limiter
<1> QED BY <1>1, <1>2, WitnessStays DEF IInv, ToolAnswers, ToolFails, limiter

LEMMA ClearCallsKeeps == ASSUME IInv, NEW p \in Processes, ClearCalls(p) PROVE IInv'
<1>1. Shapes' /\ ServedTrue' /\ Young' = Young
  BY DEF ClearCalls, IInv, Shapes, ServedTrue, EntryTrue, LookTrue, Accounted, Young, Old
<1>2. Counters'
  BY DEF ClearCalls, IInv, Counters, limiter
<1> QED BY <1>1, <1>2, WitnessStays DEF IInv, ClearCalls, limiter

-----------------------------------------------------------------------------
(* The setting changes.                                                    *)

\* Whoever is not among the processes that know has his entry and his fill excused;
\* whoever is has an invalidation pending.
LEMMA Supersedes ==
    ASSUME IInv, NEW v \in Settings, NEW Knowing \in SUBSET Processes,
           db' = v, age' = [age EXCEPT ![v] = 0], pending' = pending \cup Knowing,
           cache' = [q \in Processes |-> IF q \in Knowing THEN cache[q] ELSE Outdated(cache[q])],
           reader' = [q \in Processes |-> IF q \in Knowing THEN reader[q]
                                          ELSE Overtaken(reader[q])],
           UNCHANGED <<kind, limiter, tooling>>
    PROVE  IInv'
<1>1. /\ age' \in [Settings -> 0..Old] /\ age'[v] = 0
      /\ \A w \in Settings : age'[w] <= age[w] /\ (age[w] = 0 => age'[w] = 0)
      /\ \A w \in Settings : age[w] \in Nat /\ age'[w] \in Nat
  BY Lives DEF IInv, Shapes
<1>2. ASSUME NEW q \in Processes
      PROVE  /\ cache'[q] \in Entry /\ cache'[q].ttl = cache[q].ttl /\ cache'[q].val = cache[q].val
             /\ cache[q].excused => cache'[q].excused
             /\ cache[q].ttl > 0 => cache'[q].excused \/ q \in Knowing
             /\ cache[q] \in Entry
  BY DEF IInv, Shapes, Outdated, Entry
<1>3. ASSUME NEW q \in Processes
      PROVE  /\ reader'[q] \in Look
             /\ reader'[q].pc = reader[q].pc /\ reader'[q].val = reader[q].val
             /\ reader[q].excused => reader'[q].excused
             /\ reader[q].pc = "store" => reader'[q].excused \/ q \in Knowing
             /\ reader[q] \in Look
  BY DEF IInv, Shapes, Overtaken, Look
<1>4. Shapes'
  <2>1. cache' \in [Processes -> Entry] /\ \A q \in Processes : cache'[q].ttl <= Ttl[kind]
    BY <1>2 DEF IInv, Shapes
  <2>2. reader' \in [Processes -> Look]
    BY <1>3
  <2> QED BY <1>1, <2>1, <2>2 DEF IInv, Shapes, Old
<1>5. ASSUME NEW q \in Processes PROVE EntryTrue(q, cache[q])'
  <2>1. EntryTrue(q, cache[q])
    BY DEF IInv, ServedTrue
  <2>2. ASSUME cache[q].ttl > 0, cache[q].val # None
        PROVE  age'[cache[q].val] + cache[q].ttl <= Ttl[kind]
    <3>1. age[cache[q].val] + cache[q].ttl <= Ttl[kind]
      BY <2>1, <2>2 DEF EntryTrue
    <3>2. cache[q].val \in Settings /\ cache[q].ttl \in Nat /\ Ttl[kind] \in Nat
      BY <1>2, Lives DEF Entry, IInv, Shapes
    <3>3. age'[cache[q].val] <= age[cache[q].val] /\ age[cache[q].val] \in Nat
          /\ age'[cache[q].val] \in Nat
      BY <1>1, <3>2
    <3> QED BY <3>1, <3>2, <3>3
  <2>3. cache[q].ttl > 0 => cache'[q].excused \/ q \in pending'
    BY <1>2
  <2>4. cache[q].ttl > 0 /\ kind = "secret" => cache[q].val # None
    BY <2>1 DEF EntryTrue
  <2> QED BY <1>2, <2>2, <2>3, <2>4 DEF EntryTrue, Accounted
<1>6. ASSUME NEW q \in Processes PROVE LookTrue(q, reader[q])'
  <2>1. LookTrue(q, reader[q]) /\ reader[q].val \in Settings
    BY <1>3 DEF IInv, ServedTrue, Look
  <2>2. ASSUME reader[q].pc = "store"
        PROVE  /\ reader[q].val # None => age'[reader[q].val] = 0
               /\ reader'[q].excused \/ q \in pending'
    <3>1. reader'[q].excused \/ q \in pending'
      BY <1>3, <2>2
    <3>2. reader[q].val # None => age[reader[q].val] = 0
      BY <2>1, <2>2 DEF LookTrue
    <3> QED BY <1>1, <2>1, <3>1, <3>2
  <2>3. ASSUME reader[q].pc = "use", reader[q].val # None
        PROVE  age'[reader[q].val] < Ttl[kind]
    <3>1. age[reader[q].val] < Ttl[kind] /\ Ttl[kind] \in Nat
      BY <2>1, <2>3, Lives DEF LookTrue, IInv, Shapes
    <3>2. age'[reader[q].val] <= age[reader[q].val] /\ age[reader[q].val] \in Nat
          /\ age'[reader[q].val] \in Nat
      BY <1>1, <2>1
    <3> QED BY <3>1, <3>2
  <2>4. reader[q].pc \in {"store", "use"} /\ kind = "secret" => reader[q].val # None
    BY <2>1 DEF LookTrue
  <2> QED BY <1>3, <2>2, <2>3, <2>4 DEF LookTrue, Accounted
<1>7. Witnessed'
  <2> SUFFICES ASSUME kind = "quota"
               PROVE  \E w \in Settings : admitted <= Rpm[w]
                                          /\ (w = None \/ age'[w] < Ttl[kind] + phase)
    BY DEF Witnessed, limiter
  <2>1. PICK w \in Settings : admitted <= Rpm[w] /\ (w = None \/ age[w] < Ttl[kind] + phase)
    BY DEF IInv, Witnessed
  <2>2. w = None \/ age'[w] < Ttl[kind] + phase
    <3>1. Ttl[kind] \in Nat /\ phase \in Nat
      BY Lives DEF IInv, Shapes, Counters
    <3> QED BY <1>1, <2>1, <3>1
  <2> QED BY <2>1, <2>2
<1>8. IsFiniteSet(Young)'
  <2>1. Young' \subseteq Young \cup {v}
    BY <1>1 DEF Young, Old, IInv, Shapes
  <2> QED BY <2>1, FS_AddElement, FS_Subset DEF IInv
<1> QED BY <1>4, <1>5, <1>6, <1>7, <1>8, CountersStay DEF IInv, ServedTrue

LEMMA ChangeKeeps ==
    ASSUME IInv, NEW p \in Processes, NEW v \in Settings, Change(p, v)
    PROVE  IInv'
<1>1. {p} \in SUBSET Processes /\ \A q : q \in {p} <=> q = p
  OBVIOUS
<1>2. /\ cache' = [q \in Processes |-> IF q \in {p} THEN cache[q] ELSE Outdated(cache[q])]
      /\ reader' = [q \in Processes |-> IF q \in {p} THEN reader[q] ELSE Overtaken(reader[q])]
  BY DEF Change
<1> QED BY <1>1, <1>2, Supersedes DEF Change

LEMMA QuietlyKeeps == ASSUME IInv, NEW v \in Settings, Quietly(v) PROVE IInv'
<1>1. /\ cache' = [q \in Processes |-> IF q \in {} THEN cache[q] ELSE Outdated(cache[q])]
      /\ reader' = [q \in Processes |-> IF q \in {} THEN reader[q] ELSE Overtaken(reader[q])]
      /\ pending' = pending \cup {}
      /\ {} \in SUBSET Processes
  BY DEF Quietly
<1>2. /\ db' = v /\ age' = [age EXCEPT ![v] = 0]
      /\ UNCHANGED <<kind, limiter, tooling>>
  BY DEF Quietly
<1> QED BY <1>1, <1>2, Supersedes

\* The pending invalidation stood for the entry, which goes, and for the fill
\* under way, which is excused.
LEMMA DropKeeps ==
    ASSUME IInv, NEW p \in Processes,
           pending' = pending \/ pending' = pending \ {p},
           cache' = [cache EXCEPT ![p] = Absent],
           reader' = [reader EXCEPT ![p] = Overtaken(@)],
           UNCHANGED <<kind, db, age, limiter, tooling>>
    PROVE  IInv'
<1>1. Overtaken(reader[p]) \in Look /\ Absent \in Entry /\ Absent.ttl = 0
  BY NoneIsASetting DEF IInv, Shapes, Overtaken, Look, Absent, Entry
<1>2. Shapes'
  BY <1>1, Lives DEF IInv, Shapes, Old
<1>3. ASSUME NEW q \in Processes PROVE EntryTrue(q, cache[q])' /\ LookTrue(q, reader[q])'
  <2>1. EntryTrue(q, cache[q]) /\ LookTrue(q, reader[q])
    BY DEF IInv, ServedTrue
  <2>2. CASE q = p
    <3>1. cache'[q].ttl = 0 /\ reader'[q] = Overtaken(reader[q])
      BY <1>1, <2>2 DEF IInv, Shapes
    <3>2. reader[q] \in Look
      BY DEF IInv, Shapes
    <3>3. /\ reader'[q].pc = reader[q].pc /\ reader'[q].val = reader[q].val
          /\ reader[q].pc = "store" => reader'[q].excused
      BY <3>1, <3>2 DEF Overtaken, Look
    <3> QED BY <2>1, <3>1, <3>3 DEF EntryTrue, LookTrue, Accounted
  <2>3. CASE q # p
    <3>1. cache'[q] = cache[q] /\ reader'[q] = reader[q] /\ (q \in pending => q \in pending')
      BY <2>3 DEF IInv, Shapes
    <3> QED BY <2>1, <3>1 DEF EntryTrue, LookTrue, Accounted
  <2> QED BY <2>2, <2>3
<1>4. Young' = Young
  BY DEF Young, Old
<1> QED BY <1>2, <1>3, <1>4, CountersStay, WitnessStays DEF IInv, ServedTrue, limiter

-----------------------------------------------------------------------------
(* Time passes.                                                            *)

LEMMA OlderByOne ==
    ASSUME IInv, Tick, NEW v \in Settings
    PROVE  /\ age'[v] \in 0..Old /\ age[v] \in 0..Old
           /\ age'[v] <= age[v] + 1 /\ age'[db] = 0
           /\ age[v] = Old => age'[v] = Old \/ v = db
<1>1. age[v] \in 0..Old /\ Old \in Nat /\ db \in Settings
  BY Lives DEF IInv, Shapes
<1>2. \A w \in Settings :
          age'[w] = IF w = db THEN 0 ELSE IF age[w] = Old THEN Old ELSE age[w] + 1
  BY DEF Tick
<1>3. age'[db] = 0
  BY <1>1, <1>2
<1>4. v # db /\ age[v] # Old => age'[v] = age[v] + 1
  BY <1>2
<1>5. v # db /\ age[v] = Old => age'[v] = Old
  BY <1>2
<1> QED BY <1>1, <1>3, <1>4, <1>5

LEMMA TickKeeps == ASSUME IInv, Tick PROVE IInv'
<1>1. Shapes'
  <2>1. age' \in [Settings -> 0..Old]
    BY OlderByOne DEF Tick
  <2>2. ASSUME NEW p \in Processes
        PROVE  cache'[p] \in Entry /\ cache'[p].ttl <= Ttl[kind]
    BY NoneIsASetting, Lives DEF Tick, IInv, Shapes, Entry, Absent
  <2>3. cache' \in [Processes -> Entry]
    BY <2>2 DEF Tick
  <2> QED BY <2>1, <2>2, <2>3, OlderByOne DEF Tick, IInv, Shapes, Old
<1>2. Counters'
  <2>1. phase' \in 0..(Minute - 1)
    BY DEF Tick, IInv, Counters
  <2>2. count' \in 0..MaxAttempts /\ admitted' \in 0..count'
    BY DEF Tick, IInv, Counters
  <2>3. negative' \in [Processes -> 0..NegativeTtl]
    <3>1. \A p \in Processes : Less(negative[p]) \in 0..NegativeTtl
      BY DEF IInv, Counters, Less
    <3>2. negative' = [p \in Processes |-> Less(negative[p])]
      BY DEF Tick
    <3> QED BY <3>1, <3>2
  <2> QED BY <2>1, <2>2, <2>3 DEF Tick, IInv, Counters
<1>3. ASSUME NEW q \in Processes PROVE EntryTrue(q, cache[q])' /\ LookTrue(q, reader[q])'
  <2>1. EntryTrue(q, cache[q]) /\ cache[q] \in Entry
    BY DEF IInv, Shapes, ServedTrue
  <2>2. LookTrue(q, reader[q])'
    BY DEF Tick, LookTrue
  <2>3. CASE cache[q].ttl <= 1
    <3>1. cache'[q].ttl = 0
      BY <2>3 DEF Tick, Absent
    <3> QED BY <2>2, <3>1 DEF EntryTrue
  <2>4. CASE ~(cache[q].ttl <= 1)
    <3>1. /\ cache'[q].ttl = cache[q].ttl - 1 /\ cache'[q].val = cache[q].val
          /\ cache'[q].excused = cache[q].excused /\ cache[q].ttl \in Nat
          /\ cache[q].val \in Settings
      BY <2>1, <2>4 DEF Tick, Entry
    <3>2. ASSUME cache[q].val # None PROVE age'[cache[q].val] + cache'[q].ttl <= Ttl[kind]
      <4>1. age[cache[q].val] + cache[q].ttl <= Ttl[kind]
        BY <2>1, <2>4, <3>1, <3>2 DEF EntryTrue
      <4>2. age'[cache[q].val] <= age[cache[q].val] + 1 /\ age[cache[q].val] \in Nat
            /\ age'[cache[q].val] \in Nat /\ Ttl[kind] \in Nat
        BY <3>1, OlderByOne, Lives DEF IInv, Shapes
      <4> QED BY <3>1, <4>1, <4>2
    <3>3. Accounted(q, cache[q].val, cache[q].excused) /\ (kind = "secret" => cache[q].val # None)
      BY <2>1, <2>4, <3>1 DEF EntryTrue
    <3> QED BY <2>2, <3>1, <3>2, <3>3 DEF EntryTrue, Accounted, Tick
  <2> QED BY <2>3, <2>4
<1>4. Witnessed'
  <2> SUFFICES ASSUME kind = "quota"
               PROVE  \E v \in Settings : admitted' <= Rpm[v]
                                          /\ (v = None \/ age'[v] < Ttl[kind] + phase')
    BY DEF Witnessed, Tick
  <2>1. CASE phase' = 0
    <3>1. admitted' = 0 /\ Rpm[None] \in Nat
      BY <2>1 DEF Tick
    <3> QED BY <3>1, NoneIsASetting
  <2>2. CASE phase' # 0
    <3>1. PICK v \in Settings : admitted <= Rpm[v] /\ (v = None \/ age[v] < Ttl[kind] + phase)
      BY DEF IInv, Witnessed
    <3>2. admitted' = admitted
      BY <2>2 DEF Tick
    <3>3. phase' = phase + 1 /\ phase \in Nat
      <4>1. phase \in 0..(Minute - 1) /\ Minute \in Nat \ {0}
        BY DEF IInv, Counters
      <4>2. phase' = (phase + 1) % Minute
        BY <2>2 DEF Tick
      <4>3. phase + 1 # Minute
        <5> SUFFICES ASSUME phase + 1 = Minute PROVE FALSE
          OBVIOUS
        <5>1. Minute % Minute = 0
          BY <4>1
        <5> QED BY <2>2, <4>2, <5>1
      <4>4. phase + 1 \in 0..(Minute - 1)
        BY <4>1, <4>3
      <4>5. \A n \in 0..(Minute - 1) : n % Minute = n
        BY <4>1
      <4> QED BY <4>1, <4>2, <4>4, <4>5
    <3>4. v = None \/ age'[v] < Ttl[kind] + phase'
      <4>1. age'[v] <= age[v] + 1 /\ age[v] \in Nat /\ age'[v] \in Nat /\ Ttl[kind] \in Nat
        BY OlderByOne, Lives DEF IInv, Shapes
      <4> QED BY <3>1, <3>3, <4>1
    <3> QED BY <3>1, <3>2, <3>4
  <2> QED BY <2>1, <2>2
<1>5. IsFiniteSet(Young)'
  <2>1. Young' \subseteq Young \cup {db}
    <3> SUFFICES ASSUME NEW v \in Settings, age'[v] < Old, v # db PROVE age[v] < Old
      BY DEF Young, Tick, Old
    <3>1. age[v] \in 0..Old /\ Old \in Nat /\ (age[v] = Old => age'[v] = Old)
      BY OlderByOne, Lives DEF IInv, Shapes
    <3> QED BY <3>1
  <2> QED BY <2>1, FS_AddElement, FS_Subset DEF IInv
<1> QED BY <1>1, <1>2, <1>3, <1>4, <1>5 DEF IInv, ServedTrue

-----------------------------------------------------------------------------
(* The theorems.                                                           *)

\* IInv is an inductive invariant: every lookup, fill, admission, tool call,
\* change of a setting, invalidation and tick preserves it.
THEOREM Inductively == IInv /\ [Next]_vars => IInv'
<1> SUFFICES ASSUME IInv, [Next]_vars PROVE IInv'
  OBVIOUS
<1>1. CASE Tick
  BY <1>1, TickKeeps
<1>2. CASE LoseSecret
  BY <1>2, NoneIsASetting, QuietlyKeeps DEF LoseSecret
<1>3. ASSUME NEW p \in Processes,
             Lookup(p) \/ Load(p) \/ LoadFails(p) \/ Store(p) \/ Spend(p)
      PROVE  IInv'
  BY <1>3, LookupKeeps, LoadKeeps, LoadFailsKeeps, StoreKeeps, SpendKeeps
<1>4. ASSUME NEW p \in Processes, Acquire(p) \/ AcquireFails(p) PROVE IInv'
  BY <1>4, AcquireKeeps, AcquireFailsKeeps
<1>5. ASSUME NEW p \in Processes,
             RefuseTool(p) \/ CallTool(p) \/ ToolAnswers(p) \/ ToolFails(p) \/ ClearCalls(p)
      PROVE  IInv'
  BY <1>5, RefuseToolKeeps, CallToolKeeps, ToolReturnsKeeps, ClearCallsKeeps
<1>6. ASSUME NEW p \in Processes,
             \/ ActivatePrompt(p) \/ DeactivatePrompt(p) \/ SetBindings(p)
             \/ UpdateServer(p) \/ DeleteServer(p)
             \/ PutQuota(p) \/ PutOverrides(p) \/ StoreKey(p)
      PROVE  IInv'
  <2>1. PICK v \in Settings : Change(p, v)
    BY <1>6, NoneIsASetting DEF ActivatePrompt, DeactivatePrompt, SetBindings, UpdateServer,
       DeleteServer, PutQuota, PutOverrides, StoreKey, Settings
  <2> QED BY <2>1, ChangeKeeps
<1>7. ASSUME NEW p \in Processes, Invalidate(p) \/ RollbackConfig(p) \/ ImportConfig(p)
      PROVE  IInv'
  <2>1. CASE Invalidate(p)
    BY <2>1, DropKeeps DEF Invalidate
  <2>2. CASE Restore(p)
    BY <2>2, QuietlyKeeps, DropKeeps DEF Restore
  <2> QED BY <1>7, <2>1, <2>2 DEF RollbackConfig, ImportConfig
<1>8. CASE UNCHANGED vars
  BY <1>8 DEF vars, IInv, Shapes, Counters, ServedTrue, EntryTrue, LookTrue, Accounted,
     Witnessed, Young, Old, tooling, limiter
<1> QED BY <1>1, <1>2, <1>3, <1>4, <1>5, <1>6, <1>7, <1>8 DEF Next

THEOREM Invariantly == Spec => []IInv
BY Initially, Inductively, PTL DEF Spec

\* A turn, in whichever process it runs, is served a setting that was in force
\* less than a time to live ago, in its own process only an excused or pending one
\* when it is superseded, and never no key for one that fails to resolve
\* (runtime/prompt_backend.py, runtime/mcp_backend.py, llm/rate_limit.py, llm/factory.py).
THEOREM ServedIsCurrentAlways == Spec => []ServedIsCurrent
<1>1. IInv => ServedIsCurrent
  <2> SUFFICES ASSUME IInv PROVE ServedIsCurrent
    OBVIOUS
  <2>1. TypeOK
    BY Lives DEF IInv, Shapes, Counters, TypeOK, Entry, Look
  <2>2. BoundedStaleness
    BY DEF IInv, ServedTrue, LookTrue, BoundedStaleness
  <2>3. OwnProcessFresh
    BY DEF IInv, ServedTrue, EntryTrue, Accounted, OwnProcessFresh
  <2>4. NeverTheOperatorsKey
    BY DEF IInv, ServedTrue, LookTrue, NeverTheOperatorsKey
  <2> QED BY <2>1, <2>2, <2>3, <2>4 DEF ServedIsCurrent
<1> QED BY <1>1, Invariantly, PTL

\* Among finitely many settings one has the largest limit.
LEMMA LargestLimit ==
    ASSUME NEW F \in SUBSET Settings, IsFiniteSet(F), F # {}
    PROVE  \E m \in F : \A v \in F : Rpm[v] <= Rpm[m]
<1> DEFINE Ruled(G) == \E m \in G : \A v \in G : Rpm[v] <= Rpm[m]
           Bad == {G \in FiniteSubsetsOf(Settings) : G # {} /\ ~Ruled(G)}
<1> SUFFICES ASSUME Bad # {} PROVE FALSE
  BY DEF FiniteSubsetsOf
<1>1. PICK G \in Bad : \A H \in Bad : <<H, G>> \notin StrictSubsetOrdering(Settings)
  <2>1. Bad \subseteq FiniteSubsetsOf(Settings)
    OBVIOUS
  <2>2. IsWellFoundedOn(StrictSubsetOrdering(Settings), FiniteSubsetsOf(Settings))
    BY FS_StrictSubsetOrderingWellFounded
  <2> HIDE DEF Bad
  <2> QED BY <2>1, <2>2, WFMin
<1>2. G \in SUBSET Settings /\ IsFiniteSet(G) /\ G # {} /\ ~Ruled(G)
  BY DEF FiniteSubsetsOf
<1>3. PICK g \in G : TRUE
  BY <1>2
<1> DEFINE H == G \ {g}
<1>4. H \in SUBSET Settings /\ IsFiniteSet(H) /\ H # G
  BY <1>2, <1>3, FS_RemoveElement
<1>5. \A v \in Settings : Rpm[v] \in Nat
  BY DEF Settings
<1>6. CASE H = {}
  BY <1>2, <1>3, <1>5, <1>6
<1>7. CASE H # {}
  <2>1. Ruled(H)
    <3>1. <<H, G>> \in StrictSubsetOrdering(Settings)
      BY <1>2, <1>4 DEF StrictSubsetOrdering
    <3>2. H \notin Bad
      BY <1>1, <3>1
    <3> QED BY <1>4, <1>7, <3>2 DEF FiniteSubsetsOf
  <2>2. PICK m \in H : \A v \in H : Rpm[v] <= Rpm[m]
    BY <2>1
  <2>3. m \in G /\ \A v \in G : v \in H \/ v = g
    BY <2>2
  <2>4. CASE Rpm[g] <= Rpm[m]
    BY <1>2, <2>2, <2>3, <2>4
  <2>5. CASE ~(Rpm[g] <= Rpm[m])
    <3>1. \A v \in H : Rpm[v] <= Rpm[g]
      <4> TAKE v \in H
      <4>1. Rpm[v] \in Nat /\ Rpm[m] \in Nat /\ Rpm[g] \in Nat
        BY <1>2, <1>3, <1>5, <2>2
      <4> QED BY <2>2, <2>5, <4>1
    <3> QED BY <1>2, <1>3, <1>5, <2>3, <3>1
  <2> QED BY <2>4, <2>5
<1> QED BY <1>6, <1>7

\* Whatever is done to the quota, a minute admits no more calls than the largest
\* limit in force during it or a time to live before (RateLimit.acquire).
THEOREM QuotaBindsAlways == Spec => []QuotaBinds
<1>1. IInv => QuotaBinds
  <2> SUFFICES ASSUME IInv, kind = "quota"
               PROVE  admitted <= Max({Rpm[v] : v \in {v \in Settings :
                                           age[v] < Ttl[kind] + Minute} \cup {None}})
    BY DEF QuotaBinds
  <2> DEFINE F == {v \in Settings : age[v] < Ttl[kind] + Minute} \cup {None}
             S == {Rpm[v] : v \in F}
  <2>1. F \in SUBSET Settings /\ F # {} /\ IsFiniteSet(F)
    <3>1. F = Young \cup {None}
      BY Lives DEF IInv, Shapes, Young
    <3> QED BY <3>1, NoneIsASetting, FS_AddElement DEF IInv
  <2>2. PICK m \in F : \A v \in F : Rpm[v] <= Rpm[m]
    <3> HIDE DEF F
    <3> QED BY <2>1, LargestLimit
  <2>3. PICK w \in Settings : admitted <= Rpm[w] /\ (w = None \/ age[w] < Ttl[kind] + phase)
    BY DEF IInv, Witnessed
  <2>4. w \in F
    <3>1. /\ phase \in 0..(Minute - 1) /\ Minute \in Nat /\ Ttl[kind] \in Nat
          /\ age[w] \in 0..Old /\ Old \in Nat
      BY <2>3, Lives DEF IInv, Shapes, Counters
    <3>2. age[w] < Ttl[kind] + phase => age[w] < Ttl[kind] + Minute
      BY <3>1
    <3> QED BY <2>3, <3>2
  <2>5. Rpm[m] \in S /\ \A n \in S : Rpm[m] >= n
    BY <2>2
  <2>6. Rpm[w] \in S /\ Rpm[w] \in Nat /\ S \subseteq Nat
    BY <2>1, <2>4 DEF Settings
  <2>7. Max(S) \in S /\ \A n \in S : Max(S) >= n
    <3> HIDE DEF S
    <3> QED BY <2>5, Zenon DEF Max
  <2>8. Max(S) >= Rpm[w] /\ Max(S) \in Nat /\ admitted \in Nat
    BY <2>6, <2>7 DEF IInv, Counters
  <2> HIDE DEF F, S
  <2>9. admitted <= Max(S)
    BY <2>3, <2>6, <2>8
  <2> QED BY <2>9 DEF S, F
<1> QED BY <1>1, Invariantly, PTL

-----------------------------------------------------------------------------
(* The model configuration: what the history of a scope says of it.        *)

Edits == {"put", "preset", "clear", "restore", "price", "prune"}

\* What a request may be about to do to a scope.
Steps ==
    {job \in [scope : Scopes, do : Edits, new : Held] :
        /\ job.do \in {"put", "preset", "price"} => job.new # None
        /\ job.do = "preset" => job.new.ref = None
        /\ job.do = "prune" => job.new = None}

Asks ==
    [pc : {"idle", "begin", "record", "write", "list"}, at : Nat, jobs : Seq(Steps),
     seen : Chains, page : SUBSET Version, news : SUBSET Version, gone : SUBSET Version, locks : SUBSET Scopes,
     rows : [Scopes -> Held]]

\* The scopes of a request, and those of them whose prior state it recorded.
Reach(r)    == {r.jobs[i].scope : i \in DOMAIN r.jobs} \cup r.locks
Recorded(r) == r.locks \cup {s \in Scopes : r.pc = "write" /\ r.jobs # <<>> /\ s = Head(r.jobs).scope}

\* A request is about a scope once and records it once.
OnceEach(r) ==
    /\ \A i, j \in DOMAIN r.jobs : r.jobs[i].scope = r.jobs[j].scope => i = j
    /\ \A i \in DOMAIN r.jobs : r.jobs[i].scope \notin r.locks
    /\ \A v, w \in r.news : v.scope = w.scope => v = w
    /\ \A v \in r.news : v.at = r.at /\ v.scope \in Recorded(r)
    /\ \A s \in Recorded(r) : \E v \in r.news : v.scope = s
    /\ \A g \in r.gone : g.scope \in Recorded(r)
    /\ IsFiniteSet(r.news)

RequestFine(r) ==
    /\ r \in Asks /\ r.at <= clock /\ OnceEach(r)
    /\ r.pc \notin {"idle", "list"} => r.jobs # <<>>
    /\ \A v \in r.page : v.at <= clock

ShapesHold ==
    /\ live \in [Scopes -> Held]
    /\ versions \subseteq Version /\ IsFiniteSet(versions)
    /\ \A v \in versions : v.at <= clock
    /\ req \in [Admins -> Asks] /\ \A a \in Admins : RequestFine(req[a])
    /\ clock \in 0..MaxRequests /\ overlapped \subseteq Scopes /\ lost \in BOOLEAN
    /\ moved \subseteq Scopes

\* No fallback of a row bills the operator.
PaidRow(row) == row = None \/ PaidFor(row.chain)
PaidAsk(r) ==
    /\ \A i \in DOMAIN r.jobs : r.jobs[i].scope = Org => PaidRow(r.jobs[i].new)
    /\ \A v \in r.news : v.scope = Org => PaidRow(v.snapshot)
    /\ PaidRow(r.rows[Org])
NobodyElsePays ==
    lost \/ /\ PaidRow(live[Org])
            /\ \A v \in versions : v.scope = Org => PaidRow(v.snapshot)
            /\ \A a \in Admins : PaidAsk(req[a])

\* A save of a puts no key of its own but one typed in for the provider it
\* names, and gives its fallbacks what it has read or typed keys; outside the
\* scopes M no own key is another provider's.
KeyJob(a, job, seen, M) ==
    /\ job.scope \notin M => OwnKeyHome(job.new)
    /\ job.do = "put" => job.new.ref \in {None, Typed(job.new.provider, a)}
    /\ job.do = "put" /\ job.scope = Org =>
           \A k \in DOMAIN job.new.chain \cap DOMAIN seen :
               job.new.chain[k].provider = seen[k].provider =>
                   job.new.chain[k].ref \in {seen[k].ref, Typed(job.new.chain[k].provider, a)}
KeyJobs(a, jobs, seen, M) == \A i \in DOMAIN jobs : KeyJob(a, jobs[i], seen, M)
KeyAsk(a, r, M) ==
    /\ KeyJobs(a, r.jobs, r.seen, M)
    /\ \A v \in r.news : v.scope \notin M => OwnKeyHome(v.snapshot)
    /\ \A s \in Scopes \ M : OwnKeyHome(r.rows[s])
KeysHome ==
    /\ \A s \in Scopes \ moved : OwnKeyHome(live[s])
    /\ \A v \in versions : v.scope \notin moved => OwnKeyHome(v.snapshot)
    /\ \A a \in Admins : KeyAsk(a, req[a], moved)

\* Two open transactions with a scope in common overlap in it.
Apart ==
    \A a, b \in Admins : a # b /\ InTransaction(a) /\ InTransaction(b) =>
        Reach(req[a]) \cap Reach(req[b]) \subseteq overlapped

\* What a transaction alone with its scopes knows of them stays true until it
\* commits: the prior rows, that it is the latest, and what goes.
AskTrue(r) ==
    /\ \A s \in Reach(r) \ overlapped :
           \A v \in versions : v.scope = s => v.at < r.at
    /\ \A v \in r.news : v.scope \notin overlapped =>
           /\ v.snapshot = live[v.scope]
           /\ v.scope \in r.locks => v.after = r.rows[v.scope]
    /\ \A g \in r.gone : g.scope \notin overlapped =>
           /\ g \in versions
           /\ \A v \in versions : v.scope = g.scope /\ v.at < g.at => v \in r.gone
AsksTrue == \A a \in Admins : InTransaction(a) => AskTrue(req[a])

\* The history of a scope is a chain that ends in the live row.
Linked(s) ==
    /\ \A v, w \in versions : v.scope = s /\ w.scope = s /\ v.at = w.at => v = w
    /\ \A v \in versions :
           v.scope = s /\ (\A w \in versions : w.scope = s => w.at <= v.at) => v.after = live[s]
    /\ \A v, w \in versions :
           /\ v.scope = s /\ w.scope = s /\ v.at < w.at
           /\ \A x \in versions : x.scope = s => x.at <= v.at \/ w.at <= x.at
           => v.after = w.snapshot
HistoryTrue == \A s \in Scopes \ overlapped : Linked(s)

\* What a listing has read of such a scope is a chain too, which ends in the
\* live row or in a version since added; open transactions are later.
PageTrue(P, s) ==
    /\ \A v, w \in P :
           /\ v.scope = s /\ w.scope = s /\ v.at < w.at
           /\ \A x \in P : x.scope = s => x.at <= v.at \/ w.at <= x.at
           => v.after = w.snapshot
    /\ \A v \in P :
           v.scope = s /\ (\A w \in P : w.scope = s => w.at <= v.at) =>
               v.after = live[s] \/ \E w \in versions : w.scope = s /\ w.at > v.at
    /\ \A b \in Admins : InTransaction(b) /\ s \in Reach(req[b]) =>
           \A v \in P : v.scope = s => v.at < req[b].at
PageTrueNext(P, s) ==
    /\ \A v, w \in P :
           /\ v.scope = s /\ w.scope = s /\ v.at < w.at
           /\ \A x \in P : x.scope = s => x.at <= v.at \/ w.at <= x.at
           => v.after = w.snapshot
    /\ \A v \in P :
           v.scope = s /\ (\A w \in P : w.scope = s => w.at <= v.at) =>
               v.after = live'[s] \/ \E w \in versions' : w.scope = s /\ w.at > v.at
    /\ \A b \in Admins : InTransaction(b)' /\ s \in Reach(req'[b]) =>
           \A v \in P : v.scope = s => v.at < req'[b].at
PagesTrue == \A a \in Admins : \A s \in Scopes \ overlapped : PageTrue(req[a].page, s)

ConfigInv ==
    /\ ShapesHold /\ NobodyElsePays /\ KeysHome
    /\ Apart /\ AsksTrue /\ HistoryTrue /\ PagesTrue

-----------------------------------------------------------------------------
(* Rows.                                                                   *)

HIDE CachesAssumption
USE ConfigStoreAssumption

LEMMA ChainIsEntries ==
    ASSUME NEW chain \in Chains
    PROVE  chain \in [DOMAIN chain -> ChainEntry]
BY DEF Chains

LEMMA ChainOfOneLength ==
    ASSUME NEW chain \in Chains, NEW d \in [DOMAIN chain -> ChainEntry]
    PROVE  d \in Chains
<1>1. PICK n \in 0..MaxChain : chain \in [1..n -> ChainEntry]
  BY DEF Chains
<1>2. d \in [1..n -> ChainEntry]
  BY <1>1
<1> QED
  BY <1>2 DEF Chains

LEMMA NoChain == <<>> \in Chains
<1>1. <<>> \in [1..0 -> ChainEntry]
  OBVIOUS
<1> QED
  BY <1>1 DEF Chains

LEMMA RowParts ==
    ASSUME NEW row \in Row
    PROVE  /\ row.provider \in Providers /\ row.ref \in Refs \cup {None}
           /\ row.chain \in Chains /\ row.price \in BOOLEAN
           /\ row = [provider |-> row.provider, ref |-> row.ref,
                     chain |-> row.chain, price |-> row.price]
BY DEF Row

LEMMA PlainIsHome ==
    ASSUME NEW p \in Providers, NEW ref \in Refs \cup {None}
    PROVE  /\ Plain(p, ref) \in HomeRow /\ Plain(p, ref).chain = <<>>
           /\ PaidFor(Plain(p, ref).chain)
<1>1. Plain(p, ref) \in Row
  BY NoChain DEF Plain, Row
<1>2. Plain(p, ref).chain = <<>>
  BY DEF Plain
<1> QED
  BY <1>1, <1>2 DEF HomeRow, PaidFor

\* A row keeps its chain where only another column of it is set.
LEMMA ColumnSet ==
    ASSUME NEW row \in HomeRow, NEW p \in Providers, NEW ref \in Refs \cup {None},
           NEW price \in BOOLEAN
    PROVE  /\ [row EXCEPT !.provider = p] \in HomeRow
           /\ [row EXCEPT !.ref = ref] \in HomeRow
           /\ [row EXCEPT !.price = price] \in HomeRow
           /\ [row EXCEPT !.ref = ref, !.price = price] \in HomeRow
<1>1. row \in Row
  BY DEF HomeRow
<1>2. /\ [row EXCEPT !.provider = p] \in Row
      /\ [row EXCEPT !.ref = ref] \in Row
      /\ [row EXCEPT !.price = price] \in Row
      /\ [row EXCEPT !.ref = ref, !.price = price] \in Row
  BY <1>1 DEF Row
<1>3. /\ [row EXCEPT !.provider = p].chain = row.chain
      /\ [row EXCEPT !.ref = ref].chain = row.chain
      /\ [row EXCEPT !.price = price].chain = row.chain
      /\ [row EXCEPT !.ref = ref, !.price = price].chain = row.chain
  BY <1>1 DEF Row
<1> QED
  BY <1>2, <1>3 DEF HomeRow

\* A row from which keys are taken keeps none away from home.
LEMMA KeysTaken ==
    ASSUME NEW row \in HomeRow, NEW ref \in {row.ref, None}, NEW chain,
           chain = [i \in DOMAIN row.chain |-> chain[i]],
           \A i \in DOMAIN row.chain :
               /\ chain[i] \in ChainEntry /\ chain[i].provider = row.chain[i].provider
               /\ chain[i].ref \in {row.chain[i].ref, None}
    PROVE  /\ [row EXCEPT !.ref = ref, !.chain = chain] \in HomeRow
           /\ OwnKeyHome(row) => OwnKeyHome([row EXCEPT !.ref = ref, !.chain = chain])
<1>1. row \in Row /\ \A i \in DOMAIN row.chain :
                        AtHome(row.chain[i].provider, row.chain[i].ref)
  BY DEF HomeRow
<1>2. row.chain \in Chains /\ row.ref \in Refs \cup {None}
  BY <1>1, RowParts
<1>3. chain \in [DOMAIN row.chain -> ChainEntry]
  OBVIOUS
<1>4. chain \in Chains /\ DOMAIN chain = DOMAIN row.chain
  BY <1>2, <1>3, ChainOfOneLength
<1> DEFINE new == [row EXCEPT !.ref = ref, !.chain = chain]
<1>5. new \in Row /\ new.chain = chain
  BY <1>1, <1>2, <1>4 DEF Row
<1>6. \A i \in DOMAIN chain : AtHome(chain[i].provider, chain[i].ref)
  BY <1>1, <1>4 DEF AtHome
<1>7. new.provider = row.provider /\ new.ref = ref /\ row # None /\ new # None
  BY <1>1, <1>5, RowAssumption DEF Row
<1>8. OwnKeyHome(row) => OwnKeyHome(new)
  <2> HIDE DEF new
  <2> QED
    BY <1>7 DEF OwnKeyHome, AtHome
<1> QED
  BY <1>5, <1>6, <1>8 DEF HomeRow

\* Planning an imported row, and restoring a recorded one, only takes keys.
LEMMA PlannedIsHome ==
    ASSUME NEW row \in HomeRow, NEW resolves \in BOOLEAN
    PROVE  /\ Planned(row, resolves) \in HomeRow
           /\ OwnKeyHome(row) => OwnKeyHome(Planned(row, resolves))
<1>1. row \in Row /\ row.chain \in [DOMAIN row.chain -> ChainEntry]
  BY RowParts, ChainIsEntries DEF HomeRow
<1> DEFINE Left(p, r) == IF p \notin Keyless /\ resolves THEN r ELSE None
           ref   == Left(row.provider, row.ref)
           chain == [i \in DOMAIN row.chain |->
                        [provider |-> row.chain[i].provider,
                         ref      |-> Left(row.chain[i].provider, row.chain[i].ref)]]
<1>2. Planned(row, resolves) = [row EXCEPT !.ref = ref, !.chain = chain]
  BY Zenon DEF Planned, EachKey
<1>3. ASSUME NEW i \in DOMAIN row.chain
      PROVE  /\ chain[i] \in ChainEntry /\ chain[i].provider = row.chain[i].provider
             /\ chain[i].ref \in {row.chain[i].ref, None}
  <2>1. row.chain[i] \in ChainEntry
    BY <1>1
  <2> QED
    BY <2>1 DEF ChainEntry
<1>4. ref \in {row.ref, None}
  OBVIOUS
<1>5. chain = [i \in DOMAIN row.chain |-> chain[i]]
  OBVIOUS
<1> HIDE DEF ref, chain
<1>6. /\ [row EXCEPT !.ref = ref, !.chain = chain] \in HomeRow
      /\ OwnKeyHome(row) => OwnKeyHome([row EXCEPT !.ref = ref, !.chain = chain])
  BY <1>3, <1>4, <1>5, KeysTaken
<1> QED
  BY <1>2, <1>6

LEMMA RestorableIsHome ==
    ASSUME NEW row \in HomeRow, NEW good
    PROVE  /\ Restorable(row, good) \in HomeRow
           /\ OwnKeyHome(row) => OwnKeyHome(Restorable(row, good))
<1>1. row \in Row /\ row.chain \in [DOMAIN row.chain -> ChainEntry]
  BY RowParts, ChainIsEntries DEF HomeRow
<1> DEFINE Left(p, r) == IF r \in good THEN r ELSE None
           ref   == Left(row.provider, row.ref)
           chain == [i \in DOMAIN row.chain |->
                        [provider |-> row.chain[i].provider,
                         ref      |-> Left(row.chain[i].provider, row.chain[i].ref)]]
<1>2. Restorable(row, good) = [row EXCEPT !.ref = ref, !.chain = chain]
  BY Zenon DEF Restorable, EachKey
<1>3. ASSUME NEW i \in DOMAIN row.chain
      PROVE  /\ chain[i] \in ChainEntry /\ chain[i].provider = row.chain[i].provider
             /\ chain[i].ref \in {row.chain[i].ref, None}
  <2>1. row.chain[i] \in ChainEntry
    BY <1>1
  <2> QED
    BY <2>1 DEF ChainEntry
<1>4. ref \in {row.ref, None}
  OBVIOUS
<1>5. chain = [i \in DOMAIN row.chain |-> chain[i]]
  OBVIOUS
<1> HIDE DEF ref, chain
<1>6. /\ [row EXCEPT !.ref = ref, !.chain = chain] \in HomeRow
      /\ OwnKeyHome(row) => OwnKeyHome([row EXCEPT !.ref = ref, !.chain = chain])
  BY <1>3, <1>4, <1>5, KeysTaken
<1> QED
  BY <1>2, <1>6

\* An imported row holds no key, so none that is away from home.
LEMMA ImportableIsHome ==
    ASSUME NEW row \in Documents \cup Overrides
    PROVE  row \in HomeRow /\ OwnKeyHome(row)
<1>1. row \in Importable
  BY DocumentsAssumption
<1>2. \A i \in DOMAIN row.chain : row.chain[i].ref \in {None, Pointer}
  BY <1>1 DEF Importable, Hint
<1>3. row.ref \in {None, Pointer}
  BY <1>1 DEF Importable, Hint
<1> QED
  BY <1>1, <1>2, <1>3 DEF Importable, HomeRow, AtHome, OwnKeyHome

LEMMA TypedIsRef ==
    \A p \in Providers, a \in Admins : Typed(p, a) \in Refs /\ AtHome(p, Typed(p, a))
<1> TAKE p \in Providers, a \in Admins
<1>1. Typed(p, a) \in KeysFor(p)
  BY DEF KeysFor
<1> QED
  BY <1>1 DEF Refs, AtHome

LEMMA OwnKeyIsHome ==
    \A e \in Asked, a \in Admins :
        /\ OwnKey(e, a) \in HomeRow /\ OwnKeyHome(OwnKey(e, a)) /\ OwnKey(e, a).chain = <<>>
        /\ OwnKey(e, a).ref \in {None, Typed(OwnKey(e, a).provider, a)}
<1> TAKE e \in Asked, a \in Admins
<1> DEFINE ref == IF e.typed THEN Typed(e.provider, a) ELSE None
<1>1. e.provider \in Providers /\ ref \in Refs \cup {None} /\ AtHome(e.provider, ref)
  BY TypedIsRef DEF Asked, AtHome
<1>2. /\ OwnKey(e, a) = Plain(e.provider, ref)
      /\ Plain(e.provider, ref).provider = e.provider /\ Plain(e.provider, ref).ref = ref
  BY DEF OwnKey, Plain
<1>3. ref \in {None, Typed(e.provider, a)}
  OBVIOUS
<1> HIDE DEF ref
<1> QED
  BY <1>1, <1>2, <1>3, PlainIsHome DEF OwnKeyHome

\* A saved chain holds typed keys and what it carries over from its own
\* provider's entry.
LEMMA BuiltIsHome ==
    ASSUME NEW old \in Chains, \A i \in DOMAIN old : AtHome(old[i].provider, old[i].ref),
           NEW e \in Asked, NEW asked \in AskedChains, NEW a \in Admins
    PROVE  LET chain == BuildChain(asked, old, a)
               new   == [OwnKey(e, a) EXCEPT !.chain = chain]
           IN  /\ new \in HomeRow /\ new.chain = chain /\ OwnKeyHome(new)
               /\ new.ref \in {None, Typed(new.provider, a)}
               /\ \A k \in DOMAIN chain \cap DOMAIN old :
                      chain[k].provider = old[k].provider =>
                          chain[k].ref \in {old[k].ref, Typed(chain[k].provider, a)}
<1> DEFINE chain == BuildChain(asked, old, a)
           new   == [OwnKey(e, a) EXCEPT !.chain = chain]
<1>2. old \in [DOMAIN old -> ChainEntry]
  BY ChainIsEntries
<1>3. PICK n \in 0..MaxChain : asked \in [1..n -> Asked]
  BY DEF AskedChains
<1>4. ASSUME NEW i \in 1..n
      PROVE  /\ chain[i] \in ChainEntry
             /\ AtHome(chain[i].provider, chain[i].ref)
             /\ i \in DOMAIN old /\ chain[i].provider = old[i].provider =>
                    chain[i].ref \in {old[i].ref, Typed(chain[i].provider, a)}
  <2> DEFINE p   == asked[i].provider
             ref == IF asked[i].typed THEN Typed(p, a) ELSE Carried(p, i, old)
  <2>1. asked[i] \in Asked /\ p \in Providers
    BY <1>3 DEF Asked
  <2>2. chain[i] = [provider |-> p, ref |-> ref]
    BY <1>3 DEF BuildChain
  <2>3. /\ ref \in Refs \cup {None} /\ AtHome(p, ref)
        /\ i \in DOMAIN old /\ p = old[i].provider => ref \in {old[i].ref, Typed(p, a)}
    <3>1. CASE asked[i].typed
      BY <3>1, <2>1, TypedIsRef
    <3>2. CASE ~asked[i].typed /\ i \in DOMAIN old /\ old[i].provider = p
      <4>1. old[i] \in ChainEntry
        BY <3>2, <1>2
      <4>2. ref = old[i].ref
        BY <3>2 DEF Carried
      <4> QED
        BY <4>1, <4>2, <3>2 DEF ChainEntry
    <3>3. CASE ~asked[i].typed /\ ~(i \in DOMAIN old /\ old[i].provider = p)
      BY <3>3 DEF Carried, AtHome
    <3> QED
      BY <3>1, <3>2, <3>3
  <2> HIDE DEF p, ref
  <2>4. chain[i].provider = p /\ chain[i].ref = ref
    BY <2>2
  <2>5. chain[i] \in ChainEntry
    BY <2>1, <2>2, <2>3 DEF ChainEntry
  <2> QED
    BY <2>3, <2>4, <2>5
<1>5. DOMAIN chain = 1..n /\ chain = [i \in 1..n |-> chain[i]]
  BY <1>3 DEF BuildChain
<1> HIDE DEF chain
<1>6. chain \in Chains
  <2>1. chain \in [1..n -> ChainEntry]
    BY <1>4, <1>5
  <2> QED
    BY <2>1 DEF Chains
<1>7. OwnKey(e, a) \in Row /\ OwnKey(e, a).ref \in {None, Typed(OwnKey(e, a).provider, a)}
  BY OwnKeyIsHome DEF HomeRow
<1>8. /\ new \in Row /\ new.chain = chain
      /\ new.provider = OwnKey(e, a).provider /\ new.ref = OwnKey(e, a).ref
  BY <1>6, <1>7 DEF Row
<1> HIDE DEF new
<1>9. new \in HomeRow
  BY <1>8, <1>4, <1>5 DEF HomeRow
<1>10. new.provider \in Providers
  BY <1>8, RowParts
<1>11. OwnKeyHome(new)
  BY <1>7, <1>8, <1>10, TypedIsRef DEF OwnKeyHome, AtHome
<1>12. new.ref \in {None, Typed(new.provider, a)}
  BY <1>7, <1>8
<1>13. \A k \in DOMAIN chain \cap DOMAIN old :
          chain[k].provider = old[k].provider =>
              chain[k].ref \in {old[k].ref, Typed(chain[k].provider, a)}
  BY <1>4, <1>5
<1> QED
  BY <1>8, <1>9, <1>11, <1>12, <1>13 DEF chain, new

\* What an upsert leaves behind: a row as sound as the one it found, whose
\* fallbacks are the ones it found or the ones it was asked for.
LEMMA WrittenIsHeld ==
    ASSUME NEW job \in Steps, NEW row \in Held
    PROVE  /\ Written(job, row) \in Held
           /\ PaidRow(row) /\ PaidRow(job.new) => PaidRow(Written(job, row))
<1>1. /\ job.do \in Edits /\ job.new \in Held
      /\ job.do \in {"put", "preset", "price"} => job.new # None
  BY DEF Steps
<1>2. CASE job.do = "put"
  <2>1. job.new \in HomeRow
    BY <1>1, <1>2 DEF Held
  <2>2. CASE row = None
    BY <2>1, <2>2, <1>2 DEF Written, Held
  <2>3. CASE row # None
    <3> DEFINE ref == IF job.new.ref = None THEN row.ref ELSE job.new.ref
               new == [job.new EXCEPT !.ref = ref, !.price = row.price]
    <3>1. row \in HomeRow
      BY <2>3 DEF Held
    <3>2. ref \in Refs \cup {None} /\ row.price \in BOOLEAN /\ job.new \in Row
      BY <3>1, <2>1, RowParts DEF HomeRow
    <3>3. Written(job, row) = new
      BY <2>3, <1>2, <3>2 DEF Written, Row
    <3>4. new \in HomeRow
      <4> HIDE DEF ref
      <4> QED
        BY <2>1, <3>2, ColumnSet
    <3>5. new.chain = job.new.chain /\ job.new # None
      BY <3>2, <1>1, <1>2 DEF Row
    <3> HIDE DEF new
    <3> QED
      BY <3>3, <3>4, <3>5 DEF Held, PaidRow
  <2> QED
    BY <2>2, <2>3
<1>3. CASE job.do = "preset"
  <2>1. job.new \in HomeRow
    BY <1>1, <1>3 DEF Held
  <2>2. CASE row = None
    BY <2>1, <2>2, <1>3 DEF Written, Held
  <2>3. CASE row # None
    <3> DEFINE new == [row EXCEPT !.provider = job.new.provider]
    <3>1. row \in HomeRow /\ row \in Row /\ job.new.provider \in Providers
      BY <2>3, <2>1, RowParts DEF Held, HomeRow
    <3>2. Written(job, row) = new
      BY <2>3, <1>3 DEF Written
    <3>3. new \in HomeRow
      BY <3>1, ColumnSet, RowParts DEF HomeRow
    <3>4. new.chain = row.chain
      BY <3>1 DEF Row
    <3> HIDE DEF new
    <3> QED
      BY <3>2, <3>3, <3>4, <2>3 DEF Held, PaidRow
  <2> QED
    BY <2>2, <2>3
<1>4. CASE job.do = "clear" \/ job.do = "price"
  <2>2. CASE row = None
    BY <2>2, <1>4 DEF Written, Held, PaidRow
  <2>3. CASE row # None
    <3>1. row \in HomeRow /\ row \in Row /\ row.price \in BOOLEAN /\ row.ref \in Refs \cup {None}
      BY <2>3, RowParts DEF Held, HomeRow
    <3>2. CASE job.do = "clear"
      <4> DEFINE new == [row EXCEPT !.ref = None]
      <4>1. Written(job, row) = new
        BY <2>3, <3>2 DEF Written
      <4>2. new \in HomeRow
        BY <3>1, ColumnSet, RowParts
      <4>3. new.chain = row.chain
        BY <3>1 DEF Row
      <4> HIDE DEF new
      <4> QED
        BY <4>1, <4>2, <4>3, <2>3 DEF Held, PaidRow
    <3>3. CASE job.do = "price"
      <4> DEFINE new == [row EXCEPT !.price = job.new.price]
      <4>0. job.new.price \in BOOLEAN
        BY <1>1, <3>3, RowParts DEF Held, HomeRow
      <4>1. Written(job, row) = new
        BY <2>3, <3>3 DEF Written
      <4>2. new \in HomeRow
        BY <3>1, <4>0, ColumnSet, RowParts
      <4>3. new.chain = row.chain
        BY <3>1 DEF Row
      <4> HIDE DEF new
      <4> QED
        BY <4>1, <4>2, <4>3, <2>3 DEF Held, PaidRow
    <3> QED
      BY <1>4, <3>2, <3>3
  <2> QED
    BY <2>2, <2>3
<1>5. CASE job.do = "restore" \/ job.do = "prune"
  BY <1>1, <1>5 DEF Written
<1> QED
  BY <1>1, <1>2, <1>3, <1>4, <1>5 DEF Edits

\* An upsert that is not a move leaves no own key with another provider.
LEMMA WrittenIsHome ==
    ASSUME NEW job \in Steps, NEW row \in Held, OwnKeyHome(row), OwnKeyHome(job.new),
           ~Moves(job, row)
    PROVE  OwnKeyHome(Written(job, row))
<1>1. /\ job.do \in Edits /\ job.new \in Held
      /\ job.do \in {"put", "preset", "price"} => job.new # None
      /\ job.do = "preset" => job.new.ref = None
  BY DEF Steps
<1>2. row # None => row \in Row /\ AtHome(row.provider, row.ref)
  BY DEF Held, HomeRow, OwnKeyHome
<1>3. CASE job.do = "put" /\ row # None
  <2> DEFINE ref == IF job.new.ref = None THEN row.ref ELSE job.new.ref
             new == [job.new EXCEPT !.ref = ref, !.price = row.price]
  <2>1. job.new \in Row /\ AtHome(job.new.provider, job.new.ref)
    BY <1>1, <1>3 DEF Held, HomeRow, OwnKeyHome
  <2>2. Written(job, row) = new
    BY <1>3, <2>1 DEF Written, Row
  <2>3. new.provider = job.new.provider /\ new.ref = ref
    <3> HIDE DEF ref
    <3> QED
      BY <2>1 DEF Row
  <2>4. AtHome(job.new.provider, ref)
    <3>1. CASE job.new.ref # None
      BY <2>1, <3>1
    <3>2. CASE job.new.ref = None /\ row.ref = None
      BY <3>2 DEF AtHome
    <3>3. CASE job.new.ref = None /\ row.ref # None
      <4>1. row.provider = job.new.provider
        BY <3>3, <1>3 DEF Moves
      <4> QED
        BY <4>1, <3>3, <1>2, <1>3
    <3> QED
      BY <3>1, <3>2, <3>3
  <2> HIDE DEF new, ref
  <2> QED
    BY <2>2, <2>3, <2>4 DEF OwnKeyHome
<1>4. CASE job.do = "preset" /\ row # None
  <2> DEFINE new == [row EXCEPT !.provider = job.new.provider]
  <2>1. Written(job, row) = new /\ new.provider = job.new.provider /\ new.ref = row.ref
    BY <1>2, <1>4 DEF Written, Row
  <2>2. row.ref = None \/ row.provider = job.new.provider
    BY <1>1, <1>4 DEF Moves
  <2>3. AtHome(job.new.provider, row.ref)
    BY <2>2, <1>2, <1>4 DEF AtHome
  <2> HIDE DEF new
  <2> QED
    BY <2>1, <2>3 DEF OwnKeyHome
<1>5. CASE job.do = "clear" /\ row # None
  <2> DEFINE new == [row EXCEPT !.ref = None]
  <2>1. Written(job, row) = new /\ new.ref = None
    BY <1>2, <1>5 DEF Written, Row
  <2> HIDE DEF new
  <2> QED
    BY <2>1 DEF OwnKeyHome, AtHome
<1>6. CASE job.do = "price" /\ row # None
  <2> DEFINE new == [row EXCEPT !.price = job.new.price]
  <2>1. Written(job, row) = new /\ new.ref = row.ref /\ new.provider = row.provider
    BY <1>2, <1>6 DEF Written, Row
  <2> HIDE DEF new
  <2> QED
    BY <2>1, <1>2, <1>6 DEF OwnKeyHome
<1>7. CASE job.do \in {"put", "preset"} /\ row = None
  BY <1>7 DEF Written
<1>8. CASE job.do \in {"clear", "price"} /\ row = None
  BY <1>8 DEF Written, OwnKeyHome
<1>9. CASE job.do \in {"restore", "prune"}
  BY <1>9 DEF Written
<1> QED
  BY <1>1, <1>3, <1>4, <1>5, <1>6, <1>7, <1>8, <1>9 DEF Edits

-----------------------------------------------------------------------------
(* The history a transaction writes.                                       *)

\* What retention removes is older than what it keeps.
LEMMA TheOldestGo ==
    ASSUME NEW vs \in SUBSET Version, IsFiniteSet(vs),
           NEW g \in vs \ Newest(vs), NEW v \in vs, v.at < g.at
    PROVE  v \in vs \ Newest(vs)
<1> DEFINE Newer(x) == {w \in vs : w.at > x.at}
<1>1. \A x \in vs : x.at \in Nat
  BY DEF Version
<1>2. Newer(g) \in SUBSET Newer(v)
  BY <1>1
<1>3. IsFiniteSet(Newer(v))
  BY FS_Subset
<1>4. Cardinality(Newer(g)) <= Cardinality(Newer(v))
  BY <1>2, <1>3, FS_Subset, Zenon
<1>5. Cardinality(Newer(v)) \in Nat /\ Cardinality(Newer(g)) \in Nat
  <2>1. IsFiniteSet(Newer(g))
    BY FS_Subset
  <2> QED
    BY <1>3, <2>1, FS_CardinalityType
<1>6. ~(Cardinality(Newer(g)) < Keep)
  BY Zenon DEF Newest
<1>7. ~(Cardinality(Newer(v)) < Keep)
  <2> HIDE DEF Newer
  <2> QED
    BY <1>4, <1>5, <1>6
<1> QED
  BY <1>7, Zenon DEF Newest

LEMMA TheLatestStays ==
    ASSUME NEW vs \in SUBSET Version, NEW own \in vs, \A v \in vs : v.at <= own.at
    PROVE  own \in Newest(vs)
<1>1. \A v \in vs : v.at \in Nat
  BY DEF Version
<1>2. {w \in vs : w.at > own.at} = {}
  BY <1>1
<1>3. Cardinality({w \in vs : w.at > own.at}) = 0
  BY <1>2, FS_EmptySet, Zenon
<1> QED
  BY <1>3 DEF Newest

\* The record a transaction adds for its next scope, what it then sees of that
\* scope's history, and the request it is after each of its steps.
Own(r)  == [at |-> r.at, scope |-> Head(r.jobs).scope,
            snapshot |-> live[Head(r.jobs).scope], after |-> None]
Seen(r) == {v \in versions : v.scope = Head(r.jobs).scope} \cup {Own(r)}
Expired(r) == Seen(r) \ Newest(Seen(r))

Recording(r) == [r EXCEPT !.pc = "write", !.news = r.news \cup {Own(r)},
                          !.gone = r.gone \cup Expired(r)]
Passing(r)   == [r EXCEPT !.jobs = Tail(r.jobs)]
Listing      == [NoRequest EXCEPT !.pc = "list", !.page = versions]

Upsert(r) == [r.rows EXCEPT ![Head(r.jobs).scope] =
                  Written(Head(r.jobs), live[Head(r.jobs).scope])]
Noted(r)  == {IF v.scope = Head(r.jobs).scope THEN [v EXCEPT !.after = Upsert(r)[v.scope]] ELSE v :
                 v \in r.news}
Writing(r) == [r EXCEPT !.pc = "record", !.jobs = Tail(r.jobs), !.rows = Upsert(r),
                        !.locks = r.locks \cup {Head(r.jobs).scope}, !.news = Noted(r)]

\* A request in its transaction: what is true of it after each step.
Sound(r) == r \in Asks /\ r.at <= clock /\ OnceEach(r) /\ AskTrue(r)

LEMMA FirstJob ==
    ASSUME NEW r \in Asks, r.jobs # <<>>
    PROVE  /\ 1 \in DOMAIN r.jobs /\ Head(r.jobs) = r.jobs[1] /\ Head(r.jobs) \in Steps
           /\ Head(r.jobs).scope \in Scopes /\ Head(r.jobs).new \in Held
           /\ Head(r.jobs).scope \in Reach(r)
           /\ Tail(r.jobs) \in Seq(Steps)
           /\ \A i \in DOMAIN Tail(r.jobs) :
                  i + 1 \in DOMAIN r.jobs /\ i + 1 # 1 /\ Tail(r.jobs)[i] = r.jobs[i + 1]
           /\ \A i \in DOMAIN r.jobs : i # 1 =>
                  i - 1 \in DOMAIN Tail(r.jobs) /\ Tail(r.jobs)[i - 1] = r.jobs[i]
<1>1. r.jobs \in Seq(Steps)
  BY DEF Asks
<1>2. 1 \in DOMAIN r.jobs /\ Head(r.jobs) = r.jobs[1] /\ Head(r.jobs) \in Steps
  BY <1>1
<1>3. Head(r.jobs).scope \in Scopes /\ Head(r.jobs).new \in Held
  BY <1>2 DEF Steps
<1>4. Tail(r.jobs) \in Seq(Steps)
  BY <1>1
<1>5. /\ \A i \in DOMAIN Tail(r.jobs) :
             i + 1 \in DOMAIN r.jobs /\ i + 1 # 1 /\ Tail(r.jobs)[i] = r.jobs[i + 1]
      /\ \A i \in DOMAIN r.jobs : i # 1 =>
             i - 1 \in DOMAIN Tail(r.jobs) /\ Tail(r.jobs)[i - 1] = r.jobs[i]
  BY <1>1
<1> QED
  BY <1>2, <1>3, <1>4, <1>5 DEF Reach

LEMMA RecordedIsReached ==
    ASSUME NEW r \in Asks
    PROVE  Recorded(r) \subseteq Reach(r)
BY FirstJob DEF Recorded, Reach

\* The prior state goes into the history, what is too old out of it.
LEMMA RecordingIsSound ==
    ASSUME ShapesHold, NEW r, Sound(r), r.pc = "record", r.jobs # <<>>
    PROVE  /\ Sound(Recording(r)) /\ Recording(r).pc = "write"
           /\ Recording(r).jobs = r.jobs /\ Reach(Recording(r)) = Reach(r)
<1> DEFINE s0  == Head(r.jobs).scope
           own == Own(r)
           t   == Recording(r)
<1>1. /\ r \in Asks /\ r.at \in Nat /\ r.at <= clock /\ r.news \subseteq Version
      /\ r.gone \subseteq Version /\ r.locks \subseteq Scopes /\ IsFiniteSet(r.news)
      /\ versions \subseteq Version /\ IsFiniteSet(versions) /\ live \in [Scopes -> Held]
  BY DEF Sound, ShapesHold, Asks, OnceEach
<1>2. s0 \in Scopes /\ s0 \in Reach(r) /\ s0 \notin r.locks
  BY <1>1, FirstJob DEF Sound, OnceEach
<1>3. own \in Version /\ own.at = r.at /\ own.scope = s0 /\ own.snapshot = live[s0]
  BY <1>1, <1>2 DEF Own, Version, Held
<1>4. Seen(r) \subseteq Version /\ IsFiniteSet(Seen(r)) /\ own \in Seen(r)
  <2>1. IsFiniteSet({v \in versions : v.scope = s0})
    BY <1>1, FS_Subset
  <2> QED
    BY <1>1, <1>3, <2>1, FS_AddElement DEF Seen
<1>5. Expired(r) \subseteq Version /\ \A g \in Expired(r) : g.scope = s0
  BY <1>3, <1>4 DEF Expired, Seen
<1>6. /\ t \in Asks /\ t.pc = "write" /\ t.at = r.at /\ t.jobs = r.jobs /\ t.locks = r.locks
      /\ t.rows = r.rows /\ t.news = r.news \cup {own} /\ t.gone = r.gone \cup Expired(r)
  <2>1. r.news \cup {own} \subseteq Version /\ r.gone \cup Expired(r) \subseteq Version
    BY <1>1, <1>3, <1>5
  <2> HIDE DEF own
  <2> QED
    BY <1>1, <2>1 DEF Recording, Asks, own
<1> HIDE DEF t, own
<1>7. Reach(t) = Reach(r)
  BY <1>6 DEF Reach
<1>8. Recorded(r) = r.locks /\ Recorded(t) = r.locks \cup {s0}
  BY <1>6, <1>2 DEF Recorded
<1>9. OnceEach(t)
  <2>1. /\ \A i, j \in DOMAIN t.jobs : t.jobs[i].scope = t.jobs[j].scope => i = j
        /\ \A i \in DOMAIN t.jobs : t.jobs[i].scope \notin t.locks
    BY <1>6 DEF Sound, OnceEach
  <2>2. \A v \in r.news : v.at = r.at /\ v.scope \in r.locks
    BY <1>8 DEF Sound, OnceEach
  <2>3. \A v, w \in t.news : v.scope = w.scope => v = w
    BY <2>2, <1>6, <1>2, <1>3 DEF Sound, OnceEach
  <2>4. \A v \in t.news : v.at = t.at /\ v.scope \in Recorded(t)
    BY <2>2, <1>6, <1>3, <1>8
  <2>5. \A s \in Recorded(t) : \E v \in t.news : v.scope = s
    BY <1>6, <1>3, <1>8 DEF Sound, OnceEach
  <2>6. \A g \in t.gone : g.scope \in Recorded(t)
    BY <1>6, <1>5, <1>8 DEF Sound, OnceEach
  <2>7. IsFiniteSet(t.news)
    <3>1. IsFiniteSet(r.news \cup {own})
      BY <1>1, FS_AddElement
    <3> QED
      BY <3>1, <1>6
  <2> QED
    BY <2>1, <2>3, <2>4, <2>5, <2>6, <2>7 DEF OnceEach
<1>10. AskTrue(t)
  <2>1. \A s \in Reach(t) \ overlapped : \A v \in versions : v.scope = s => v.at < t.at
    BY <1>6, <1>7 DEF Sound, AskTrue
  <2>2. ASSUME NEW v \in t.news, v.scope \notin overlapped
        PROVE  /\ v.snapshot = live[v.scope]
               /\ v.scope \in t.locks => v.after = t.rows[v.scope]
    BY <2>2, <1>6, <1>2, <1>3 DEF Sound, AskTrue
  <2>3. ASSUME NEW g \in t.gone, g.scope \notin overlapped
        PROVE  /\ g \in versions
               /\ \A v \in versions : v.scope = g.scope /\ v.at < g.at => v \in t.gone
    <3>1. CASE g \in r.gone
      BY <2>3, <3>1, <1>6 DEF Sound, AskTrue
    <3>2. CASE g \in Expired(r)
      <4>1. g.scope = s0 /\ \A v \in versions : v.scope = s0 => v.at < r.at
        BY <3>2, <2>3, <1>5, <1>2 DEF Sound, AskTrue
      <4>2. \A v \in Seen(r) : v.at <= own.at
        BY <4>1, <1>1, <1>3 DEF Seen, own, Version
      <4>3. own \in Newest(Seen(r))
        BY <4>2, <1>4, TheLatestStays
      <4>4. g \in versions
        BY <3>2, <4>3 DEF Expired, Seen, own
      <4>5. \A v \in Seen(r) : v.at < g.at => v \in Expired(r)
        BY <3>2, <1>4, TheOldestGo DEF Expired
      <4> QED
        BY <4>1, <4>4, <4>5, <1>6 DEF Seen
    <3> QED
      BY <2>3, <3>1, <3>2, <1>6
  <2> QED
    BY <2>1, <2>2, <2>3 DEF AskTrue
<1>11. Sound(t)
  BY <1>6, <1>9, <1>10, <1>1 DEF Sound
<1> QED
  BY <1>6, <1>7, <1>11 DEF t

\* A scope that is passed over is the transaction's no more.
LEMMA PassingIsSound ==
    ASSUME NEW r, Sound(r), r.pc = "record", r.jobs # <<>>
    PROVE  /\ Sound(Passing(r)) /\ Passing(r).pc = "record"
           /\ Passing(r).jobs = Tail(r.jobs) /\ Reach(Passing(r)) \subseteq Reach(r)
<1> DEFINE t == Passing(r)
<1>1. r \in Asks
  BY DEF Sound
<1>2. /\ t \in Asks /\ t.pc = "record" /\ t.at = r.at /\ t.jobs = Tail(r.jobs)
      /\ t.locks = r.locks /\ t.rows = r.rows /\ t.news = r.news /\ t.gone = r.gone
  BY <1>1, FirstJob DEF Passing, Asks
<1> HIDE DEF t
<1>3. \A i \in DOMAIN t.jobs : i + 1 \in DOMAIN r.jobs /\ t.jobs[i] = r.jobs[i + 1] /\ i \in Int
  <2>1. r.jobs \in Seq(Steps)
    BY <1>1 DEF Asks
  <2> QED
    BY <1>1, <1>2, <2>1, FirstJob
<1>4. Reach(t) \subseteq Reach(r)
  BY <1>2, <1>3 DEF Reach
<1>5. Recorded(t) = r.locks /\ Recorded(r) = r.locks
  BY <1>2 DEF Recorded
<1>6. OnceEach(t)
  <2>1. \A i, j \in DOMAIN t.jobs : t.jobs[i].scope = t.jobs[j].scope => i = j
    <3> TAKE i, j \in DOMAIN t.jobs
    <3> HAVE t.jobs[i].scope = t.jobs[j].scope
    <3>1. i + 1 = j + 1
      BY <1>3 DEF Sound, OnceEach
    <3> QED
      BY <1>3, <3>1
  <2>2. \A i \in DOMAIN t.jobs : t.jobs[i].scope \notin t.locks
    BY <1>2, <1>3 DEF Sound, OnceEach
  <2> QED
    BY <2>1, <2>2, <1>2, <1>5 DEF Sound, OnceEach
<1>7. AskTrue(t)
  BY <1>2, <1>4 DEF Sound, AskTrue
<1>8. Sound(t)
  BY <1>2, <1>6, <1>7 DEF Sound
<1> QED
  BY <1>2, <1>4, <1>8 DEF t

\* The upsert notes the row it leaves in the record of its scope.
LEMMA WritingIsSound ==
    ASSUME ShapesHold, NEW r, Sound(r), r.pc = "write", r.jobs # <<>>
    PROVE  /\ Sound(Writing(r)) /\ Writing(r).pc = "record"
           /\ Writing(r).jobs = Tail(r.jobs) /\ Reach(Writing(r)) \subseteq Reach(r)
<1> DEFINE s0   == Head(r.jobs).scope
           rows == Upsert(r)
           note(v) == IF v.scope = s0 THEN [v EXCEPT !.after = rows[v.scope]] ELSE v
           t    == Writing(r)
<1>1. /\ r \in Asks /\ r.at \in Nat /\ r.at <= clock /\ r.news \subseteq Version
      /\ r.gone \subseteq Version /\ r.locks \subseteq Scopes /\ IsFiniteSet(r.news)
      /\ r.rows \in [Scopes -> Held] /\ live \in [Scopes -> Held]
  BY DEF Sound, ShapesHold, Asks, OnceEach
<1>2. s0 \in Scopes /\ s0 \in Reach(r) /\ s0 \notin r.locks /\ Head(r.jobs) \in Steps
  BY <1>1, FirstJob DEF Sound, OnceEach
<1>3. rows \in [Scopes -> Held] /\ \A s \in Scopes \ {s0} : rows[s] = r.rows[s]
  <2>1. Written(Head(r.jobs), live[s0]) \in Held
    BY <1>1, <1>2, WrittenIsHeld
  <2> QED
    BY <2>1, <1>1, <1>2 DEF Upsert
<1>4. Noted(r) = {note(v) : v \in r.news}
  BY DEF Noted
<1> HIDE DEF rows
<1>5. \A v \in r.news : /\ note(v) \in Version /\ note(v).at = v.at /\ note(v).scope = v.scope
                        /\ note(v).snapshot = v.snapshot
                        /\ v.scope = s0 => note(v).after = rows[s0]
                        /\ v.scope # s0 => note(v) = v
  <2> TAKE v \in r.news
  <2>1. v \in Version /\ v.scope \in Scopes
    BY <1>1 DEF Version
  <2>2. rows[v.scope] \in Held
    BY <2>1, <1>3
  <2> QED
    BY <2>1, <2>2 DEF Version
<1> HIDE DEF note
<1>6. Noted(r) \subseteq Version
  BY <1>4, <1>5
<1>7. /\ t \in Asks /\ t.pc = "record" /\ t.at = r.at /\ t.jobs = Tail(r.jobs)
      /\ t.locks = r.locks \cup {s0} /\ t.rows = rows /\ t.news = Noted(r) /\ t.gone = r.gone
  BY <1>1, <1>2, <1>3, <1>6, FirstJob DEF Writing, Asks, rows
<1> HIDE DEF t
<1>8. \A i \in DOMAIN t.jobs :
          i + 1 \in DOMAIN r.jobs /\ i + 1 # 1 /\ t.jobs[i] = r.jobs[i + 1] /\ i \in Int
  <2>1. r.jobs \in Seq(Steps)
    BY <1>1 DEF Asks
  <2> QED
    BY <1>1, <1>7, <2>1, FirstJob
<1>9. Reach(t) \subseteq Reach(r)
  BY <1>2, <1>7, <1>8 DEF Reach
<1>10. Recorded(t) = r.locks \cup {s0} /\ Recorded(r) = r.locks \cup {s0}
  BY <1>7, <1>2 DEF Recorded
<1>11. OnceEach(t)
  <2>1. \A i, j \in DOMAIN t.jobs : t.jobs[i].scope = t.jobs[j].scope => i = j
    <3> TAKE i, j \in DOMAIN t.jobs
    <3> HAVE t.jobs[i].scope = t.jobs[j].scope
    <3>1. i + 1 = j + 1
      BY <1>8 DEF Sound, OnceEach
    <3> QED
      BY <1>8, <3>1
  <2>2. \A i \in DOMAIN t.jobs : t.jobs[i].scope \notin t.locks
    <3> TAKE i \in DOMAIN t.jobs
    <3>1. t.jobs[i].scope \notin r.locks
      BY <1>8 DEF Sound, OnceEach
    <3>2. Head(r.jobs) = r.jobs[1] /\ 1 \in DOMAIN r.jobs
      BY <1>1, FirstJob
    <3>3. t.jobs[i].scope # s0
      BY <1>8, <3>2 DEF Sound, OnceEach
    <3> QED
      BY <3>1, <3>3, <1>7
  <2>3. \A v \in r.news : v.at = r.at /\ v.scope \in Recorded(r)
    BY DEF Sound, OnceEach
  <2>4. \A v, w \in r.news : v.scope = w.scope => v = w
    BY DEF Sound, OnceEach
  <2>5. \A v, w \in t.news : v.scope = w.scope => v = w
    BY <2>4, <1>4, <1>5, <1>7
  <2>6. \A v \in t.news : v.at = t.at /\ v.scope \in Recorded(t)
    BY <2>3, <1>4, <1>5, <1>7, <1>10
  <2>7. \A s \in Recorded(t) : \E v \in t.news : v.scope = s
    <3> TAKE s \in Recorded(t)
    <3>1. PICK v \in r.news : v.scope = s
      BY <1>10 DEF Sound, OnceEach
    <3> QED
      BY <3>1, <1>4, <1>5, <1>7
  <2>8. \A g \in t.gone : g.scope \in Recorded(t)
    BY <1>7, <1>10 DEF Sound, OnceEach
  <2>9. IsFiniteSet(t.news)
    <3>1. PICK v \in r.news : v.scope = s0
      BY <1>10 DEF Sound, OnceEach
    <3>2. Noted(r) \in SUBSET (r.news \cup {note(v)})
      BY <3>1, <2>4, <1>4, <1>5
    <3>3. IsFiniteSet(r.news \cup {note(v)})
      BY <1>1, FS_AddElement
    <3>4. IsFiniteSet(Noted(r))
      BY <3>2, <3>3, FS_Subset
    <3> QED
      BY <3>4, <1>7
  <2> QED
    BY <2>1, <2>2, <2>5, <2>6, <2>7, <2>8, <2>9 DEF OnceEach
<1>12. AskTrue(t)
  <2>1. \A s \in Reach(t) \ overlapped : \A v \in versions : v.scope = s => v.at < t.at
    BY <1>7, <1>9 DEF Sound, AskTrue
  <2>2. ASSUME NEW w \in t.news, w.scope \notin overlapped
        PROVE  /\ w.snapshot = live[w.scope]
               /\ w.scope \in t.locks => w.after = t.rows[w.scope]
    <3>1. PICK v \in r.news : w = note(v)
      BY <1>4, <1>7
    <3>2. w.scope = v.scope /\ w.snapshot = v.snapshot
      BY <3>1, <1>5
    <3>3. v.snapshot = live[v.scope] /\ (v.scope \in r.locks => v.after = r.rows[v.scope])
      BY <2>2, <3>2 DEF Sound, AskTrue
    <3>4. CASE v.scope = s0
      BY <3>1, <3>2, <3>3, <3>4, <1>5, <1>7
    <3>5. CASE v.scope # s0
      <4>1. w = v
        BY <3>1, <3>5, <1>5
      <4>2. v.scope \in Scopes
        BY <1>1 DEF Version
      <4> QED
        BY <3>3, <3>5, <4>1, <4>2, <1>3, <1>7
    <3> QED
      BY <3>4, <3>5
  <2>3. \A g \in t.gone : g.scope \notin overlapped =>
            /\ g \in versions
            /\ \A v \in versions : v.scope = g.scope /\ v.at < g.at => v \in t.gone
    BY <1>7 DEF Sound, AskTrue
  <2> QED
    BY <2>1, <2>2, <2>3 DEF AskTrue
<1>13. Sound(t)
  BY <1>7, <1>11, <1>12, <1>1 DEF Sound
<1> QED
  BY <1>7, <1>9, <1>13 DEF t

-----------------------------------------------------------------------------
(* What a commit leaves behind.                                            *)

\* A transaction that has written its last scope commits as r.
Commits(a, r) ==
    /\ live' = [s \in Scopes |-> IF s \in r.locks THEN r.rows[s] ELSE live[s]]
    /\ versions' = (versions \cup r.news) \ r.gone
    /\ req' = [req EXCEPT ![a] = NoRequest]
    /\ UNCHANGED <<clock, overlapped, lost>>

LEMMA NothingYet ==
    /\ NoRequest \in Asks
    /\ NoRequest.at = 0 /\ NoRequest.jobs = <<>> /\ NoRequest.seen = <<>>
    /\ NoRequest.page = {} /\ NoRequest.news = {} /\ NoRequest.gone = {}
    /\ NoRequest.locks = {} /\ NoRequest.rows = [s \in Scopes |-> None]
<1>1. NoRequest \in Asks
  <2>1. ASSUME NEW z \in Nat
        PROVE  [pc |-> "idle", at |-> z, jobs |-> <<>>, seen |-> <<>>, page |-> {},
                news |-> {}, gone |-> {}, locks |-> {}, rows |-> [s \in Scopes |-> None]] \in Asks
    BY <2>1, NoChain DEF Asks, Held
  <2> QED
    BY <2>1, Zenon DEF NoRequest
<1> QED
  BY <1>1 DEF NoRequest

LEMMA NoRequestIsFine ==
    ASSUME clock \in Nat
    PROVE  /\ RequestFine(NoRequest) /\ PaidAsk(NoRequest) /\ NoRequest.pc = "idle"
           /\ \A a, M : KeyAsk(a, NoRequest, M)
<1>1. NoRequest \in Asks /\ NoRequest.page = {}
  BY NothingYet
<1>2. OnceEach(NoRequest)
  BY FS_EmptySet DEF OnceEach, Recorded, NoRequest
<1>3. PaidAsk(NoRequest)
  BY DEF PaidAsk, PaidRow, NoRequest, Scopes
<1>4. NoRequest.at = 0 /\ NoRequest.pc = "idle"
  BY DEF NoRequest
<1>5. \A a, M : KeyAsk(a, NoRequest, M)
  BY NothingYet DEF KeyAsk, KeyJobs, OwnKeyHome
<1> QED
  BY <1>1, <1>2, <1>3, <1>4, <1>5 DEF RequestFine

\* Outside the scopes it wrote, a commit changes nothing.
LEMMA OutsideIsUntouched ==
    ASSUME NEW a, NEW r, Sound(r), r.pc = "record", Commits(a, r),
           NEW s \in Scopes, s \notin r.locks
    PROVE  /\ live'[s] = live[s]
           /\ \A v : v.scope = s => (v \in versions' <=> v \in versions)
<1>1. Recorded(r) = r.locks
  BY DEF Recorded
<1>2. \A v \in r.news \cup r.gone : v.scope \in r.locks
  BY <1>1 DEF Sound, OnceEach
<1> QED
  BY <1>2 DEF Commits

\* Inside them, where nobody else was at work, the history grows by one change
\* and loses its oldest ones.
LEMMA CommitLinks ==
    ASSUME ShapesHold, HistoryTrue, NEW a, NEW r, Sound(r), r.pc = "record", Commits(a, r),
           NEW s \in Scopes \ overlapped, s \in r.locks
    PROVE  Linked(s)'
<1>1. /\ r \in Asks /\ r.at \in Nat /\ versions \subseteq Version
      /\ r.news \subseteq Version /\ r.gone \subseteq Version
  BY DEF ShapesHold, Sound, Asks
<1>2. Recorded(r) = r.locks
  BY DEF Recorded
<1>3. PICK own \in r.news : own.scope = s
  BY <1>2 DEF Sound, OnceEach
<1>4. \A v \in r.news : v.scope = s => v = own
  BY <1>3 DEF Sound, OnceEach
<1>5. own.at = r.at /\ own.snapshot = live[s] /\ own.after = r.rows[s]
  BY <1>3 DEF Sound, OnceEach, AskTrue
<1>6. \A v \in versions : v.scope = s => v.at < own.at
  BY <1>5 DEF Sound, AskTrue, Reach
<1>7. \A g \in r.gone : g.scope = s =>
          g \in versions /\ \A v \in versions : v.scope = s /\ v.at < g.at => v \in r.gone
  BY DEF Sound, AskTrue
<1>8. own \notin r.gone /\ own.at \in Nat
  <2>1. own.at \in Nat
    BY <1>1, <1>5
  <2> QED
    BY <1>3, <1>6, <1>7, <2>1
<1>9. \A v : v.scope = s => (v \in versions' <=> v = own \/ (v \in versions /\ v \notin r.gone))
  BY <1>3, <1>4, <1>8 DEF Commits
<1>10. live'[s] = own.after
  BY <1>5 DEF Commits
<1>11. Linked(s)
  BY DEF HistoryTrue
<1>12. \A v \in versions : v.at \in Nat
  BY <1>1 DEF Version
<1>13. own \in versions'
  BY <1>3, <1>9
<1>14. ASSUME NEW v \in versions', NEW w \in versions', v.scope = s, w.scope = s, v.at = w.at
       PROVE  v = w
  <2>1. (v = own \/ v \in versions) /\ (w = own \/ w \in versions)
    BY <1>9, <1>14
  <2> QED
    BY <2>1, <1>6, <1>8, <1>12, <1>11, <1>14 DEF Linked
<1>15. ASSUME NEW v \in versions', v.scope = s, \A w \in versions' : w.scope = s => w.at <= v.at
       PROVE  v.after = live'[s]
  <2>1. own.at <= v.at
    BY <1>3, <1>13, <1>15
  <2>2. v = own \/ v \in versions
    BY <1>9, <1>15
  <2>3. v = own
    BY <2>1, <2>2, <1>6, <1>8, <1>12, <1>15
  <2> QED
    BY <2>3, <1>10
<1>16. ASSUME NEW v \in versions', NEW w \in versions', v.scope = s, w.scope = s, v.at < w.at,
              \A x \in versions' : x.scope = s => x.at <= v.at \/ w.at <= x.at
       PROVE  v.after = w.snapshot
  <2>1. (v = own \/ v \in versions) /\ (w = own \/ w \in versions)
    BY <1>9, <1>16
  <2>2. v \in versions /\ v \notin r.gone
    <3>1. v # own
      BY <2>1, <1>6, <1>8, <1>12, <1>16
    <3> QED
      BY <3>1, <1>9, <1>16
  <2>3. \A x \in versions : x.scope = s /\ x \in r.gone => x.at <= v.at
    BY <2>2, <1>7, <1>12, <1>16
  <2>4. \A x \in versions : x.scope = s => x.at <= v.at \/ w.at <= x.at
    BY <2>3, <1>9, <1>16
  <2>5. CASE w = own
    <3>1. \A x \in versions : x.scope = s => x.at <= v.at
      BY <2>4, <2>5, <1>6, <1>8, <1>12
    <3>2. v.after = live[s]
      BY <3>1, <2>2, <1>11, <1>16 DEF Linked
    <3> QED
      BY <3>2, <2>5, <1>5
  <2>6. CASE w \in versions
    BY <2>2, <2>4, <2>6, <1>11, <1>16 DEF Linked
  <2> QED
    BY <2>1, <2>5, <2>6
<1> QED
  BY <1>14, <1>15, <1>16 DEF Linked

\* The change of a scope it wrote alone is in the history.
LEMMA OwnIsKept ==
    ASSUME ShapesHold, NEW a, NEW r, Sound(r), r.pc = "record", Commits(a, r),
           NEW s \in Scopes \ overlapped, s \in r.locks
    PROVE  \E own \in versions' : own.scope = s /\ own.at = r.at
<1>1. /\ r \in Asks /\ r.at \in Nat /\ r.news \subseteq Version
  BY DEF Sound, Asks
<1>2. Recorded(r) = r.locks
  BY DEF Recorded
<1>3. PICK own \in r.news : own.scope = s
  BY <1>2 DEF Sound, OnceEach
<1>4. own.at = r.at
  BY <1>3 DEF Sound, OnceEach
<1>5. \A v \in versions : v.scope = s => v.at < own.at
  BY <1>4 DEF Sound, AskTrue, Reach
<1>6. \A g \in r.gone : g.scope = s => g \in versions
  BY DEF Sound, AskTrue
<1>7. own \notin r.gone
  BY <1>1, <1>3, <1>4, <1>5, <1>6
<1> QED
  BY <1>3, <1>4, <1>7 DEF Commits

\* What a listing has read stays as it is, the live row or a later change after
\* it.
LEMMA PagesOutlive ==
    ASSUME ConfigInv, NEW a \in Admins, InTransaction(a), NEW r, Sound(r), r.pc = "record",
           Reach(r) \subseteq Reach(req[a]), r.at = req[a].at, Commits(a, r),
           NEW s \in Scopes \ overlapped, NEW P \in SUBSET Version, PageTrue(P, s)
    PROVE  PageTrue(P, s)'
<1>1. ShapesHold /\ req \in [Admins -> Asks] /\ \A v \in P : v.at \in Nat
  BY DEF ConfigInv, ShapesHold, Version
<1>2. /\ req'[a] = NoRequest /\ \A b \in Admins \ {a} : req'[b] = req[b]
      /\ NoRequest.pc = "idle"
  BY <1>1 DEF Commits, NoRequest
<1>3. ASSUME NEW v \in P, v.scope = s, \A w \in P : w.scope = s => w.at <= v.at
      PROVE  v.after = live'[s] \/ \E w \in versions' : w.scope = s /\ w.at > v.at
  <2>1. CASE s \in r.locks
    <3>1. PICK own \in versions' : own.scope = s /\ own.at = r.at
      BY <2>1, <1>1, OwnIsKept
    <3>2. v.at < req[a].at
      BY <2>1, <1>3 DEF PageTrue, Reach
    <3>3. own.at > v.at
      <4>1. req[a].at \in Nat
        BY <1>1 DEF Asks
      <4> QED
        BY <3>1, <3>2, <4>1, <1>1
    <3> QED
      BY <3>1, <3>3
  <2>2. CASE s \notin r.locks
    <3>1. /\ live'[s] = live[s]
          /\ \A w : w.scope = s => (w \in versions' <=> w \in versions)
      BY <2>2, OutsideIsUntouched
    <3>2. v.after = live[s] \/ \E w \in versions : w.scope = s /\ w.at > v.at
      BY <1>3 DEF PageTrue
    <3> QED
      BY <3>1, <3>2
  <2> QED
    BY <2>1, <2>2
<1>4. ASSUME NEW b \in Admins, InTransaction(b)', s \in Reach(req'[b]), NEW v \in P, v.scope = s
      PROVE  v.at < req'[b].at
  <2>1. b # a /\ InTransaction(b) /\ req'[b] = req[b]
    BY <1>2, <1>4 DEF InTransaction
  <2> QED
    BY <2>1, <1>4 DEF PageTrue
<1>5. \A v, w \in P :
          /\ v.scope = s /\ w.scope = s /\ v.at < w.at
          /\ \A x \in P : x.scope = s => x.at <= v.at \/ w.at <= x.at
          => v.after = w.snapshot
  BY DEF PageTrue
<1> QED
  BY <1>3, <1>4, <1>5 DEF PageTrue, Reach

\* What another transaction knows is about other scopes.
LEMMA OthersAreUntouched ==
    ASSUME ShapesHold, NEW a, NEW r, Sound(r), r.pc = "record", Commits(a, r),
           NEW o \in Asks, OnceEach(o), AskTrue(o), Reach(o) \cap Reach(r) \subseteq overlapped
    PROVE  AskTrue(o)'
<1>1. Recorded(o) \subseteq Reach(o) /\ r.locks \subseteq Reach(r) /\ overlapped' = overlapped
  BY RecordedIsReached DEF Commits, Reach
<1>2. ASSUME NEW s \in Reach(o), s \notin overlapped
      PROVE  /\ live'[s] = live[s]
             /\ \A v : v.scope = s => (v \in versions' <=> v \in versions)
  <2>1. s \in Scopes
    <3>1. o.locks \subseteq Scopes /\ o.jobs \in Seq(Steps)
      BY DEF Asks
    <3>2. \A i \in DOMAIN o.jobs : o.jobs[i].scope \in Scopes
      BY <3>1 DEF Steps
    <3> QED
      BY <1>2, <3>1, <3>2 DEF Reach
  <2>2. s \notin r.locks
    BY <1>1, <1>2
  <2> QED
    BY <2>1, <2>2, OutsideIsUntouched
<1>3. \A s \in Reach(o) \ overlapped : \A v \in versions' : v.scope = s => v.at < o.at
  BY <1>2 DEF AskTrue
<1>4. ASSUME NEW v \in o.news, v.scope \notin overlapped
      PROVE  /\ v.snapshot = live'[v.scope]
             /\ v.scope \in o.locks => v.after = o.rows[v.scope]
  <2>1. v.scope \in Reach(o)
    BY <1>1 DEF OnceEach
  <2> QED
    BY <2>1, <1>2, <1>4 DEF AskTrue
<1>5. ASSUME NEW g \in o.gone, g.scope \notin overlapped
      PROVE  /\ g \in versions'
             /\ \A v \in versions' : v.scope = g.scope /\ v.at < g.at => v \in o.gone
  <2>1. g.scope \in Reach(o)
    BY <1>1 DEF OnceEach
  <2> QED
    BY <2>1, <1>2, <1>5 DEF AskTrue
<1> QED
  BY <1>1, <1>3, <1>4, <1>5 DEF AskTrue

\* Scopes only ever join the moved ones.
LEMMA KeysStayKnown ==
    ASSUME NEW b, NEW r, NEW M, NEW N, M \subseteq N, KeyAsk(b, r, M)
    PROVE  KeyAsk(b, r, N)
BY DEF KeyAsk, KeyJobs, KeyJob

LEMMA CommitKeeps ==
    ASSUME ConfigInv, NEW a \in Admins, InTransaction(a), NEW r, Sound(r), r.pc = "record",
           Reach(r) \subseteq Reach(req[a]), r.at = req[a].at, Commits(a, r),
           lost \/ PaidAsk(r), moved \subseteq moved', moved' \subseteq Scopes,
           KeyAsk(a, r, moved')
    PROVE  ConfigInv'
<1>1. /\ ShapesHold /\ NobodyElsePays /\ Apart /\ AsksTrue /\ HistoryTrue
      /\ overlapped' = overlapped /\ clock' = clock /\ lost' = lost
      /\ req' = [req EXCEPT ![a] = NoRequest]
  BY DEF ConfigInv, Commits
<1>2. /\ live \in [Scopes -> Held] /\ versions \subseteq Version /\ IsFiniteSet(versions)
      /\ \A v \in versions : v.at <= clock
      /\ req \in [Admins -> Asks] /\ \A b \in Admins : RequestFine(req[b])
      /\ clock \in Nat /\ clock \in 0..MaxRequests
  BY <1>1 DEF ShapesHold
<1>3. /\ r \in Asks /\ r.at <= clock /\ OnceEach(r) /\ r.rows \in [Scopes -> Held]
      /\ r.news \subseteq Version /\ r.locks \subseteq Scopes /\ IsFiniteSet(r.news)
      /\ \A v \in r.news : v.at = r.at
  BY DEF Sound, Asks, OnceEach
<1>4. /\ RequestFine(NoRequest) /\ PaidAsk(NoRequest) /\ NoRequest.pc = "idle"
      /\ \A M : KeyAsk(a, NoRequest, M)
  BY <1>2, NoRequestIsFine
<1>5. /\ req'[a] = NoRequest /\ NoRequest \in Asks
      /\ \A b \in Admins \ {a} : req'[b] = req[b]
      /\ req' \in [Admins -> Asks]
  BY <1>1, <1>2, <1>4 DEF RequestFine
<1>6. ShapesHold'
  <2>1. live' \in [Scopes -> Held]
    BY <1>2, <1>3 DEF Commits
  <2>2. versions' \subseteq Version /\ \A v \in versions' : v.at <= clock
    BY <1>2, <1>3 DEF Commits
  <2>3. IsFiniteSet(versions')
    <3>1. IsFiniteSet(versions \cup r.news)
      BY <1>2, <1>3, FS_Union
    <3>2. IsFiniteSet((versions \cup r.news) \ r.gone)
      BY <3>1, FS_Difference
    <3> QED
      BY <3>2 DEF Commits
  <2>4. \A b \in Admins : RequestFine(req'[b])
    BY <1>2, <1>4, <1>5
  <2>5. \A b \in Admins : RequestFine(req[b])'
    BY <2>4, <1>1 DEF RequestFine, OnceEach, Recorded
  <2> QED
    BY <2>1, <2>2, <2>3, <2>5, <1>1, <1>2, <1>5 DEF ShapesHold
<1>7. NobodyElsePays'
  <2>1. CASE lost
    BY <2>1, <1>1 DEF NobodyElsePays
  <2>2. CASE ~lost
    <3>1. /\ PaidRow(live[Org]) /\ \A v \in versions : v.scope = Org => PaidRow(v.snapshot)
          /\ \A b \in Admins : PaidAsk(req[b])
      BY <2>2, <1>1 DEF NobodyElsePays
    <3>2. PaidRow(r.rows[Org]) /\ \A v \in r.news : v.scope = Org => PaidRow(v.snapshot)
      BY <2>2 DEF PaidAsk
    <3>3. PaidRow(live'[Org])
      BY <3>1, <3>2 DEF Commits, Scopes
    <3>4. \A v \in versions' : v.scope = Org => PaidRow(v.snapshot)
      BY <3>1, <3>2 DEF Commits
    <3>5. \A b \in Admins : PaidAsk(req'[b])
      BY <3>1, <1>4, <1>5
    <3> QED
      BY <3>3, <3>4, <3>5 DEF NobodyElsePays, PaidRow, PaidAsk
  <2> QED
    BY <2>1, <2>2
<1>8. Apart'
  <2>1. \A b \in Admins : InTransaction(b)' => b # a /\ InTransaction(b) /\ req'[b] = req[b]
    BY <1>4, <1>5 DEF InTransaction
  <2> QED
    BY <2>1, <1>1 DEF Apart, Reach
<1>9. AsksTrue'
  <2> SUFFICES ASSUME NEW b \in Admins, InTransaction(b)'
               PROVE  AskTrue(req[b])'
    BY DEF AsksTrue
  <2>1. b # a /\ InTransaction(b) /\ req'[b] = req[b]
    BY <1>4, <1>5 DEF InTransaction
  <2>2. req[b] \in Asks /\ OnceEach(req[b]) /\ AskTrue(req[b])
    BY <2>1, <1>1, <1>2 DEF AsksTrue, RequestFine
  <2>3. Reach(req[b]) \cap Reach(r) \subseteq overlapped
    BY <2>1, <1>1 DEF Apart
  <2> DEFINE o == req[b]
  <2>4. ASSUME NEW q, q = o
        PROVE  q \in Asks /\ OnceEach(q) /\ AskTrue(q) /\ Reach(q) \cap Reach(r) \subseteq overlapped
    BY <2>2, <2>3, <2>4
  <2>5. \A q : q = o => /\ \A s \in Reach(q) \ overlapped' : \A v \in versions' : v.scope = s => v.at < q.at
                        /\ \A v \in q.news : v.scope \notin overlapped' =>
                               /\ v.snapshot = live'[v.scope]
                               /\ v.scope \in q.locks => v.after = q.rows[v.scope]
                        /\ \A g \in q.gone : g.scope \notin overlapped' =>
                               /\ g \in versions'
                               /\ \A v \in versions' : v.scope = g.scope /\ v.at < g.at => v \in q.gone
    <3> TAKE q
    <3> HAVE q = o
    <3>1. AskTrue(q)'
      BY <2>4, <1>1, OthersAreUntouched
    <3> QED
      BY <3>1 DEF AskTrue, Reach
  <2> QED
    BY <2>1, <2>5 DEF AskTrue, Reach
<1>10. HistoryTrue'
  <2> SUFFICES ASSUME NEW s \in Scopes, s \notin overlapped
               PROVE  Linked(s)'
    BY <1>1 DEF HistoryTrue
  <2>1. CASE s \in r.locks
    BY <2>1, <1>1, CommitLinks
  <2>2. CASE s \notin r.locks
    <3>1. /\ live'[s] = live[s]
          /\ \A v : v.scope = s => (v \in versions' <=> v \in versions)
      BY <2>2, OutsideIsUntouched
    <3>2. Linked(s)
      BY <1>1 DEF HistoryTrue
    <3> QED
      BY <3>1, <3>2 DEF Linked
  <2> QED
    BY <2>1, <2>2
<1>11. KeysHome'
  <2>1. /\ \A s \in Scopes \ moved : OwnKeyHome(live[s])
        /\ \A v \in versions : v.scope \notin moved => OwnKeyHome(v.snapshot)
        /\ \A b \in Admins : KeyAsk(b, req[b], moved)
    BY DEF ConfigInv, KeysHome
  <2>2. /\ \A s \in Scopes \ moved' : OwnKeyHome(r.rows[s])
        /\ \A v \in r.news : v.scope \notin moved' => OwnKeyHome(v.snapshot)
    BY DEF KeyAsk
  <2>3. \A s \in Scopes \ moved' : OwnKeyHome(live'[s])
    BY <2>1, <2>2 DEF Commits
  <2>4. \A v \in versions' : v.scope \notin moved' => OwnKeyHome(v.snapshot)
    BY <2>1, <2>2 DEF Commits
  <2>5. \A b \in Admins : KeyAsk(b, req'[b], moved')
    BY <2>1, <1>4, <1>5, KeysStayKnown
  <2> QED
    BY <2>3, <2>4, <2>5 DEF KeysHome, KeyAsk, KeyJobs, KeyJob, OwnKeyHome
<1>12. PagesTrue'
  <2> SUFFICES ASSUME NEW b \in Admins, NEW s \in Scopes \ overlapped
               PROVE  PageTrue(req[b].page, s)'
    BY <1>1 DEF PagesTrue
  <2>1. PageTrue(req[b].page, s) /\ req[b].page \in SUBSET Version
    BY <1>2 DEF ConfigInv, PagesTrue, Asks
  <2>2. \A P \in SUBSET Version : PageTrue(P, s) => PageTrue(P, s)'
    BY PagesOutlive
  <2>3. req'[b].page = {} \/ req'[b].page = req[b].page
    BY <1>5, NothingYet
  <2>4. \A P : P = {} => PageTrue(P, s)'
    BY DEF PageTrue
  <2>5. \A q : q = req'[b].page => PageTrueNext(q, s)
    <3> TAKE q
    <3> HAVE q = req'[b].page
    <3>1. PageTrue(q, s)'
      BY <2>1, <2>2, <2>3, <2>4
    <3> QED
      BY <3>1 DEF PageTrue, PageTrueNext, Reach
  <2> QED
    BY <2>5 DEF PageTrue, PageTrueNext, Reach
<1> QED
  BY <1>6, <1>7, <1>8, <1>9, <1>10, <1>11, <1>12 DEF ConfigInv

-----------------------------------------------------------------------------
(* The steps that commit nothing.                                          *)

\* A request goes on as r, the configuration stays as it is.
LEMMA RequestKeeps ==
    ASSUME ConfigInv, NEW a \in Admins, NEW r \in Asks,
           OnceEach(r), r.at <= clock', r.pc \notin {"idle", "list"} => r.jobs # <<>>,
           r.pc \in {"record", "write"} =>
               /\ AskTrue(r)
               /\ \A b \in Admins \ {a} : InTransaction(b) =>
                      Reach(r) \cap Reach(req[b]) \subseteq overlapped'
               /\ r.at > clock \/ (InTransaction(a) /\ r.at = req[a].at
                                    /\ Reach(r) \subseteq Reach(req[a])),
           r.page \in {{}, req[a].page, versions},
           lost' \in BOOLEAN, lost => lost', lost' \/ PaidAsk(r),
           moved \subseteq moved', moved' \subseteq Scopes, KeyAsk(a, r, moved'),
           req' = [req EXCEPT ![a] = r], UNCHANGED <<live, versions>>,
           clock' \in 0..MaxRequests, clock <= clock',
           overlapped \subseteq overlapped', overlapped' \subseteq Scopes
    PROVE  ConfigInv'
<1>1. /\ ShapesHold /\ NobodyElsePays /\ Apart /\ AsksTrue /\ HistoryTrue
      /\ live' = live /\ versions' = versions
  BY DEF ConfigInv
<1>2. /\ live \in [Scopes -> Held] /\ versions \subseteq Version /\ IsFiniteSet(versions)
      /\ \A v \in versions : v.at <= clock
      /\ req \in [Admins -> Asks] /\ \A b \in Admins : RequestFine(req[b])
      /\ clock \in Nat
  BY <1>1 DEF ShapesHold
<1>3. /\ req'[a] = r /\ \A b \in Admins \ {a} : req'[b] = req[b]
      /\ req' \in [Admins -> Asks]
  BY <1>2
<1>4. ShapesHold'
  <2>1. \A v \in versions : v.at <= clock'
    BY <1>2 DEF Version
  <2>0. \A v \in req[a].page : v.at <= clock'
    <3>1. \A v \in req[a].page : v.at \in Nat /\ v.at <= clock
      BY <1>2 DEF RequestFine, Asks, Version
    <3> QED
      BY <3>1, <1>2
  <2>2. ASSUME NEW b \in Admins
        PROVE  /\ req'[b] \in Asks /\ req'[b].at <= clock' /\ OnceEach(req'[b])
               /\ req'[b].pc \notin {"idle", "list"} => req'[b].jobs # <<>>
               /\ \A v \in req'[b].page : v.at <= clock'
    <3>1. CASE b = a
      BY <3>1, <1>3, <2>0, <2>1
    <3>2. CASE b # a
      <4>1. RequestFine(req[b]) /\ req'[b] = req[b] /\ req[b].at \in Nat
        BY <3>2, <1>2, <1>3 DEF Asks
      <4>2. \A v \in req[b].page : v.at \in Nat /\ v.at <= clock
        BY <1>2, <4>1 DEF RequestFine, Asks, Version
      <4> QED
        BY <4>1, <4>2, <1>2 DEF RequestFine
    <3> QED
      BY <3>1, <3>2
  <2>3. \A b \in Admins : RequestFine(req[b])'
    BY <2>2 DEF RequestFine, OnceEach, Recorded
  <2> QED
    BY <2>1, <2>3, <1>1, <1>2, <1>3 DEF ShapesHold
<1>5. NobodyElsePays'
  <2>1. CASE lost'
    BY <2>1 DEF NobodyElsePays
  <2>2. CASE ~lost'
    <3>1. /\ PaidRow(live[Org]) /\ \A v \in versions : v.scope = Org => PaidRow(v.snapshot)
          /\ \A b \in Admins : PaidAsk(req'[b])
      BY <2>2, <1>1, <1>3 DEF NobodyElsePays
    <3> QED
      BY <3>1, <1>1 DEF NobodyElsePays, PaidRow, PaidAsk
  <2> QED
    BY <2>1, <2>2
<1>6. Apart'
  <2> SUFFICES ASSUME NEW b \in Admins, NEW c \in Admins, b # c,
                      InTransaction(b)', InTransaction(c)'
               PROVE  Reach(req'[b]) \cap Reach(req'[c]) \subseteq overlapped'
    BY DEF Apart, Reach
  <2>1. \A d \in Admins : d # a /\ InTransaction(d)' => InTransaction(d)
    BY <1>3 DEF InTransaction
  <2>2. InTransaction(a)' => r.pc \in {"record", "write"}
    BY <1>3 DEF InTransaction
  <2>3. CASE b = a
    BY <2>1, <2>2, <2>3, <1>3
  <2>4. CASE c = a
    BY <2>1, <2>2, <2>4, <1>3
  <2>5. CASE b # a /\ c # a
    BY <2>1, <2>5, <1>1, <1>3 DEF Apart
  <2> QED
    BY <2>3, <2>4, <2>5
<1>7. AsksTrue'
  <2> SUFFICES ASSUME NEW b \in Admins, InTransaction(b)'
               PROVE  AskTrue(req[b])'
    BY DEF AsksTrue
  <2>1. AskTrue(req'[b])
    <3>1. CASE b = a
      BY <3>1, <1>3 DEF InTransaction
    <3>2. CASE b # a
      BY <3>2, <1>1, <1>3 DEF InTransaction, AsksTrue
    <3> QED
      BY <3>1, <3>2
  <2> QED
    BY <2>1, <1>1 DEF AskTrue, Reach
<1>8. HistoryTrue'
  BY <1>1 DEF HistoryTrue, Linked
<1>9. KeysHome'
  <2>1. /\ \A s \in Scopes \ moved : OwnKeyHome(live[s])
        /\ \A v \in versions : v.scope \notin moved => OwnKeyHome(v.snapshot)
        /\ \A b \in Admins : KeyAsk(b, req[b], moved)
    BY DEF ConfigInv, KeysHome
  <2>2. \A b \in Admins : KeyAsk(b, req'[b], moved')
    BY <2>1, <1>3, KeysStayKnown
  <2> QED
    BY <2>1, <2>2, <1>1 DEF KeysHome, KeyAsk, KeyJobs, KeyJob, OwnKeyHome
<1>10. PagesTrue'
  <2> SUFFICES ASSUME NEW c \in Admins, NEW s \in Scopes, s \notin overlapped'
               PROVE  PageTrue(req[c].page, s)'
    BY DEF PagesTrue
  <2>1. s \notin overlapped /\ PagesTrue /\ Linked(s)
    BY <1>1 DEF ConfigInv, HistoryTrue
  <2>2. \A q : q = req'[c].page => PageTrueNext(q, s)
    <3> TAKE q
    <3> HAVE q = req'[c].page
    <3>1. q = {} \/ q = req[c].page \/ q = versions
      BY <1>3
    <3>2. CASE q = {}
      BY <3>2 DEF PageTrueNext
    <3>3. CASE q = req[c].page
      <4>1. PageTrue(q, s) /\ \A v \in q : v.at \in Nat /\ v.at <= clock
        BY <2>1, <3>3, <1>2 DEF PagesTrue, RequestFine, Asks, Version
      <4>2. ASSUME NEW b \in Admins, InTransaction(b)', s \in Reach(req'[b]),
                   NEW v \in q, v.scope = s
            PROVE  v.at < req'[b].at
        <5>1. CASE b # a
          BY <5>1, <4>1, <4>2, <1>3 DEF InTransaction, PageTrue
        <5>2. CASE b = a
          <6>1. r.pc \in {"record", "write"} /\ req'[b] = r /\ r.at \in Nat
            BY <5>2, <4>2, <1>3 DEF InTransaction, Asks
          <6>2. CASE r.at > clock
            BY <6>1, <6>2, <4>1, <1>2
          <6>3. CASE InTransaction(a) /\ r.at = req[a].at /\ Reach(r) \subseteq Reach(req[a])
            BY <6>1, <6>3, <4>1, <4>2 DEF PageTrue
          <6> QED
            BY <6>1, <6>2, <6>3
        <5> QED
          BY <5>1, <5>2
      <4> QED
        BY <4>1, <4>2, <1>1 DEF PageTrue, PageTrueNext
    <3>4. CASE q = versions
      <4>1. ASSUME NEW b \in Admins, InTransaction(b)', s \in Reach(req'[b]),
                   NEW v \in q, v.scope = s
            PROVE  v.at < req'[b].at
        <5>1. CASE b # a
          BY <5>1, <4>1, <3>4, <2>1, <1>1, <1>3 DEF InTransaction, AsksTrue, AskTrue
        <5>2. CASE b = a
          BY <5>2, <4>1, <3>4, <2>1, <1>3 DEF InTransaction, AskTrue
        <5> QED
          BY <5>1, <5>2
      <4>2. \A v \in q : v.scope = s /\ (\A w \in q : w.scope = s => w.at <= v.at) =>
                v.after = live'[s]
        BY <3>4, <2>1, <1>1 DEF Linked
      <4>3. \A v, w \in q :
                /\ v.scope = s /\ w.scope = s /\ v.at < w.at
                /\ \A x \in q : x.scope = s => x.at <= v.at \/ w.at <= x.at
                => v.after = w.snapshot
        BY <3>4, <2>1 DEF Linked
      <4> QED
        BY <4>1, <4>2, <4>3 DEF PageTrueNext
    <3> QED
      BY <3>1, <3>2, <3>3, <3>4
  <2> QED
    BY <2>2 DEF PageTrue, PageTrueNext, Reach
<1> QED
  BY <1>4, <1>5, <1>6, <1>7, <1>8, <1>9, <1>10 DEF ConfigInv

\* What a request starts with: each scope once, and nothing billed to others.
Fresh(jobs) ==
    /\ jobs \in Seq(Steps) /\ jobs # <<>>
    /\ \A i, j \in DOMAIN jobs : jobs[i].scope = jobs[j].scope => i = j
PaidJobs(jobs) == \A i \in DOMAIN jobs : jobs[i].scope = Org => PaidRow(jobs[i].new)

LEMMA FreshAsk ==
    ASSUME NEW r \in Asks, Fresh(r.jobs), r.pc # "write", r.news = {}, r.gone = {}, r.locks = {},
           r.rows = [s \in Scopes |-> None]
    PROVE  /\ OnceEach(r) /\ (PaidJobs(r.jobs) => PaidAsk(r)) /\ r.jobs # <<>>
           /\ \A a, M : KeyJobs(a, r.jobs, r.seen, M) => KeyAsk(a, r, M)
<1>1. OnceEach(r)
  BY FS_EmptySet DEF OnceEach, Recorded, Fresh
<1>2. PaidJobs(r.jobs) => PaidAsk(r)
  BY DEF PaidAsk, PaidJobs, PaidRow, Scopes
<1>3. \A a, M : KeyJobs(a, r.jobs, r.seen, M) => KeyAsk(a, r, M)
  BY DEF KeyAsk, OwnKeyHome
<1> QED
  BY <1>1, <1>2, <1>3 DEF Fresh

LEMMA OpenKeeps ==
    ASSUME ConfigInv, NEW a \in Admins, NEW jobs, Fresh(jobs), NEW seen \in Chains,
           Open(a, jobs, seen), UNCHANGED <<live, versions, moved>>,
           lost' \in BOOLEAN, lost => lost', lost' \/ PaidJobs(jobs),
           KeyJobs(a, jobs, seen, moved)
    PROVE  ConfigInv'
<1> DEFINE r == [NoRequest EXCEPT !.pc = "record", !.at = clock + 1,
                                  !.jobs = jobs, !.seen = seen]
<1>1. /\ clock \in 0..MaxRequests /\ overlapped \subseteq Scopes /\ moved \subseteq Scopes
      /\ versions \subseteq Version /\ \A v \in versions : v.at <= clock
  BY DEF ConfigInv, ShapesHold
<1>2. /\ clock' = clock + 1 /\ clock' \in 0..MaxRequests /\ clock + 1 \in Nat
      /\ req' = [req EXCEPT ![a] = r]
      /\ overlapped' = overlapped \cup
             ({jobs[i].scope : i \in DOMAIN jobs}
              \cap UNION {ScopesOf(b) : b \in {b \in Admins \ {a} : InTransaction(b)}})
  BY <1>1 DEF Open
<1>3. /\ r \in Asks /\ r.pc = "record" /\ r.at = clock + 1 /\ r.jobs = jobs /\ r.seen = seen
      /\ r.page = {} /\ r.news = {} /\ r.gone = {} /\ r.locks = {} /\ r.rows = [s \in Scopes |-> None]
  BY <1>2, NothingYet DEF Asks, Fresh
<1> HIDE DEF r
<1>4. OnceEach(r) /\ (PaidJobs(jobs) => PaidAsk(r)) /\ KeyAsk(a, r, moved')
  BY <1>3, FreshAsk
<1>5. \A i \in DOMAIN jobs : jobs[i].scope \in Scopes
  BY DEF Fresh, Steps
<1>6. overlapped \subseteq overlapped' /\ overlapped' \subseteq Scopes
  BY <1>1, <1>2, <1>5
<1>7. AskTrue(r)
  BY <1>1, <1>3 DEF AskTrue, Version
<1>8. \A b \in Admins \ {a} : InTransaction(b) => Reach(r) \cap Reach(req[b]) \subseteq overlapped'
  <2>1. Reach(r) = {jobs[i].scope : i \in DOMAIN jobs}
    BY <1>3 DEF Reach
  <2>2. \A b : ScopesOf(b) = Reach(req[b])
    BY DEF ScopesOf, Reach
  <2> QED
    BY <1>2, <2>1, <2>2
<1>9. r.jobs # <<>> /\ clock <= clock' /\ r.at <= clock' /\ r.at > clock
  BY <1>1, <1>2, <1>3 DEF Fresh
<1> QED
  BY <1>1, <1>2, <1>3, <1>6, <1>7, <1>8, <1>9, <1>4, RequestKeeps

LEMMA StartKeeps ==
    ASSUME ConfigInv, NEW a \in Admins, NEW jobs, Fresh(jobs), NEW seen \in Chains,
           Start(a, jobs, seen), UNCHANGED <<live, versions, moved>>,
           lost' \in BOOLEAN, lost => lost', lost' \/ PaidJobs(jobs),
           KeyJobs(a, jobs, seen, moved)
    PROVE  ConfigInv'
<1> DEFINE r == [NoRequest EXCEPT !.pc = "begin", !.jobs = jobs, !.seen = seen]
<1>1. clock \in 0..MaxRequests /\ overlapped \subseteq Scopes /\ moved \subseteq Scopes
  BY DEF ConfigInv, ShapesHold
<1>2. req' = [req EXCEPT ![a] = r] /\ clock' = clock /\ overlapped' = overlapped
  BY DEF Start
<1>3. /\ r \in Asks /\ r.pc = "begin" /\ r.at = 0 /\ r.jobs = jobs /\ r.seen = seen
      /\ r.page = {} /\ r.news = {} /\ r.gone = {} /\ r.locks = {} /\ r.rows = [s \in Scopes |-> None]
  BY NothingYet DEF Asks, Fresh
<1> HIDE DEF r
<1>4. OnceEach(r) /\ (PaidJobs(jobs) => PaidAsk(r)) /\ KeyAsk(a, r, moved')
  BY <1>3, FreshAsk
<1>5. r.jobs # <<>> /\ clock <= clock' /\ r.at <= clock'
  BY <1>1, <1>2, <1>3 DEF Fresh
<1> QED
  BY <1>1, <1>2, <1>3, <1>5, <1>4, RequestKeeps

\* A request that ends, or begins to list, leaves nothing behind.
LEMMA IdleKeeps ==
    ASSUME ConfigInv, NEW a \in Admins, NEW r \in {NoRequest, Listing},
           req' = [req EXCEPT ![a] = r],
           UNCHANGED <<live, versions, clock, overlapped, lost, moved>>
    PROVE  ConfigInv'
<1>1. /\ clock \in 0..MaxRequests /\ overlapped \subseteq Scopes /\ lost \in BOOLEAN
      /\ moved \subseteq Scopes /\ versions \subseteq Version
  BY DEF ConfigInv, ShapesHold
<1>2. RequestFine(NoRequest) /\ PaidAsk(NoRequest) /\ KeyAsk(a, NoRequest, moved)
  BY <1>1, NoRequestIsFine
<1>3. /\ r \in Asks /\ r.pc \in {"idle", "list"} /\ r.at = 0 /\ r.jobs = <<>> /\ r.seen = <<>>
      /\ r.page \in {{}, versions} /\ r.news = {} /\ r.gone = {} /\ r.locks = {}
      /\ r.rows = [s \in Scopes |-> None]
  <2>1. NoRequest.pc = "idle"
    BY DEF NoRequest
  <2>2. CASE r = NoRequest
    BY <2>1, <2>2, NothingYet
  <2>3. CASE r = Listing
    <3>1. Listing = [NoRequest EXCEPT !.pc = "list", !.page = versions]
      BY DEF Listing
    <3> HIDE DEF Listing
    <3>2. Listing \in Asks
      BY <1>1, <3>1, NothingYet DEF Asks
    <3>3. /\ Listing.pc = "list" /\ Listing.at = 0 /\ Listing.jobs = <<>> /\ Listing.seen = <<>>
          /\ Listing.page = versions /\ Listing.news = {} /\ Listing.gone = {}
          /\ Listing.locks = {} /\ Listing.rows = [s \in Scopes |-> None]
      BY <3>1, NothingYet DEF Asks
    <3> QED
      BY <2>3, <3>2, <3>3
  <2> QED
    BY <2>2, <2>3
<1> HIDE DEF Listing
<1>4. OnceEach(r)
  BY <1>3, FS_EmptySet DEF OnceEach, Recorded
<1>5. PaidAsk(r)
  BY <1>3 DEF PaidAsk, PaidRow, Scopes
<1>6. KeyAsk(a, r, moved')
  BY <1>3 DEF KeyAsk, KeyJobs, OwnKeyHome
<1>7. clock <= clock' /\ r.at <= clock' /\ clock' \in 0..MaxRequests
  BY <1>1, <1>3
<1> QED
  BY <1>1, <1>3, <1>4, <1>5, <1>6, <1>7, RequestKeeps

LEMMA AbortKeeps == ASSUME ConfigInv, NEW a \in Admins, Abort(a) PROVE ConfigInv'
BY IdleKeeps DEF Abort

LEMMA ReadVersionsKeeps == ASSUME ConfigInv, NEW a \in Admins, ReadVersions(a) PROVE ConfigInv'
BY IdleKeeps DEF ReadVersions, Listing

LEMMA ReadLiveKeeps == ASSUME ConfigInv, NEW a \in Admins, ReadLive(a) PROVE ConfigInv'
BY IdleKeeps DEF ReadLive

-----------------------------------------------------------------------------
(* The requests.                                                           *)

LEMMA OneJob ==
    ASSUME NEW job \in Steps
    PROVE  /\ Fresh(<<job>>) /\ ((job.scope = Org => PaidRow(job.new)) => PaidJobs(<<job>>))
           /\ \A a, seen, M : KeyJob(a, job, seen, M) => KeyJobs(a, <<job>>, seen, M)
<1>1. <<job>> \in Seq(Steps) /\ <<job>> # <<>> /\ DOMAIN <<job>> = {1} /\ <<job>>[1] = job
  OBVIOUS
<1> QED
  BY <1>1 DEF Fresh, PaidJobs, KeyJobs

LEMMA TwoJobs ==
    ASSUME NEW j1 \in Steps, NEW j2 \in Steps, j1.scope = Org, j2.scope # Org
    PROVE  /\ Fresh(<<j1, j2>>) /\ (PaidRow(j1.new) => PaidJobs(<<j1, j2>>))
           /\ \A a, seen, M : KeyJob(a, j1, seen, M) /\ KeyJob(a, j2, seen, M) =>
                              KeyJobs(a, <<j1, j2>>, seen, M)
<1>1. /\ <<j1, j2>> \in Seq(Steps) /\ <<j1, j2>> # <<>> /\ DOMAIN <<j1, j2>> = {1, 2}
      /\ <<j1, j2>>[1] = j1 /\ <<j1, j2>>[2] = j2
  OBVIOUS
<1> QED
  BY <1>1 DEF Fresh, PaidJobs, KeyJobs

LEMMA JobIsStep ==
    ASSUME NEW s \in Scopes, NEW do \in Edits, NEW new \in Held,
           do \in {"put", "preset", "price"} => new # None, do = "prune" => new = None,
           do = "preset" => new.ref = None
    PROVE  /\ Job(s, do, new) \in Steps /\ Job(s, do, new).scope = s
           /\ Job(s, do, new).do = do /\ Job(s, do, new).new = new
BY DEF Job, Steps

LEMMA RowsAreHeld == \A row \in HomeRow : row \in Held /\ row # None /\ row \in Row
BY RowAssumption DEF Held, HomeRow

\* A job that is no save is at home if its row is.
LEMMA NoSave ==
    ASSUME NEW job, job.do # "put", NEW M, job.scope \notin M => OwnKeyHome(job.new)
    PROVE  \A a, seen : KeyJob(a, job, seen, M)
BY DEF KeyJob

\* The whole default: its chain holds keys of its own and is paid for.
LEMMA PutOrgKeeps == ASSUME ConfigInv, NEW a \in Admins, PutOrg(a) PROVE ConfigInv'
<1> DEFINE seen == FallbacksOf(live[Org])
<1>1. /\ live[Org] \in Held /\ lost \in BOOLEAN /\ seen \in Chains
      /\ \A i \in DOMAIN seen : AtHome(seen[i].provider, seen[i].ref)
  <2>1. live[Org] \in Held /\ lost \in BOOLEAN
    BY DEF ConfigInv, ShapesHold, Scopes
  <2>2. CASE live[Org] = None
    BY <2>1, <2>2, NoChain DEF FallbacksOf
  <2>3. CASE live[Org] # None
    <3>1. live[Org] \in HomeRow /\ live[Org] \in Row /\ seen = live[Org].chain
      BY <2>1, <2>3 DEF Held, HomeRow, FallbacksOf
    <3> QED
      BY <2>1, <3>1, RowParts DEF HomeRow
  <2> QED
    BY <2>2, <2>3
<1> HIDE DEF seen
<1>2. PICK body \in Bodies :
          LET chain == BuildChain(body.chain, seen, a)
          IN  /\ PaidFor(chain)
              /\ Start(a, <<SaveOf(a, body, chain)>>, seen)
  BY DEF PutOrg, seen
<1> DEFINE e     == body.own
           chain == BuildChain(body.chain, seen, a)
           new   == [OwnKey(e, a) EXCEPT !.chain = chain]
           job   == Job(Org, "put", new)
<1>3. e \in Asked /\ body.chain \in AskedChains
  BY BodiesAssumption
<1>4. /\ new \in HomeRow /\ new.chain = chain /\ OwnKeyHome(new)
      /\ new.ref \in {None, Typed(new.provider, a)}
      /\ \A k \in DOMAIN chain \cap DOMAIN seen :
             chain[k].provider = seen[k].provider =>
                 chain[k].ref \in {seen[k].ref, Typed(chain[k].provider, a)}
  <2> HIDE DEF e
  <2> QED
    BY <1>1, <1>3, BuiltIsHome
<1>5. /\ PaidFor(chain) /\ Start(a, <<job>>, seen) /\ lost' = lost
      /\ UNCHANGED <<live, versions, moved>>
  BY <1>2 DEF PutOrg, SaveOf
<1> HIDE DEF chain, new, e
<1>6. job \in Steps /\ job.new = new /\ job.scope = Org /\ job.do = "put"
  BY <1>4, JobIsStep, RowsAreHeld DEF Edits, Scopes
<1> HIDE DEF job
<1>7. KeyJob(a, job, seen, moved)
  BY <1>4, <1>6 DEF KeyJob
<1>8. Fresh(<<job>>) /\ PaidJobs(<<job>>) /\ KeyJobs(a, <<job>>, seen, moved)
  BY <1>4, <1>5, <1>6, <1>7, OneJob DEF PaidRow
<1> QED
  BY <1>1, <1>5, <1>8, StartKeeps

\* A request of one scope whose row brings no fallback.
LEMMA SingleKeeps ==
    ASSUME ConfigInv, NEW a \in Admins, NEW job \in Steps, PaidRow(job.new),
           KeyJob(a, job, <<>>, moved), Request(a, <<job>>)
    PROVE  ConfigInv'
<1>1. Open(a, <<job>>, <<>>) /\ lost' = lost /\ UNCHANGED <<live, versions, moved>> /\ lost \in BOOLEAN
  BY DEF Request, ConfigInv, ShapesHold
<1>2. Fresh(<<job>>) /\ PaidJobs(<<job>>) /\ KeyJobs(a, <<job>>, <<>>, moved)
  BY OneJob
<1> QED
  BY <1>1, <1>2, NoChain, OpenKeeps

LEMMA PutAgentKeeps == ASSUME ConfigInv, NEW a \in Admins, PutAgent(a) PROVE ConfigInv'
<1>1. PICK s \in Personas, e \in Asked : Request(a, <<Job(s, "put", OwnKey(e, a))>>)
  BY DEF PutAgent
<1> DEFINE new == OwnKey(e, a)
           job == Job(s, "put", new)
<1>2. /\ new \in HomeRow /\ new.chain = <<>> /\ OwnKeyHome(new)
      /\ new.ref \in {None, Typed(new.provider, a)}
  BY OwnKeyIsHome
<1>3. Request(a, <<job>>)
  BY <1>1
<1> HIDE DEF new
<1>4. job \in Steps /\ job.new = new /\ job.scope = s /\ job.do = "put"
  BY <1>2, JobIsStep, RowsAreHeld DEF Edits, Scopes
<1> HIDE DEF job
<1>5. PaidRow(job.new) /\ KeyJob(a, job, <<>>, moved)
  BY <1>2, <1>4 DEF KeyJob, PaidRow, PaidFor
<1> QED
  BY <1>3, <1>4, <1>5, SingleKeeps

LEMMA ApplyPresetKeeps == ASSUME ConfigInv, NEW a \in Admins, ApplyPreset(a) PROVE ConfigInv'
<1>1. PICK p \in Providers : Request(a, <<Job(Org, "preset", Plain(p, None))>>)
  BY DEF ApplyPreset
<1> DEFINE new == Plain(p, None)
           job == Job(Org, "preset", new)
<1>2. new \in HomeRow /\ PaidRow(new) /\ new.ref = None /\ OwnKeyHome(new)
  <2>1. new.ref = None
    BY DEF Plain
  <2> HIDE DEF new
  <2>2. OwnKeyHome(new)
    BY <2>1 DEF OwnKeyHome, AtHome
  <2> QED
    BY <2>1, <2>2, PlainIsHome DEF PaidRow, new
<1>3. Request(a, <<job>>)
  BY <1>1
<1> HIDE DEF new
<1>4. job \in Steps /\ job.new = new /\ job.do = "preset"
  BY <1>2, JobIsStep, RowsAreHeld DEF Edits, Scopes
<1> HIDE DEF job
<1>5. KeyJob(a, job, <<>>, moved)
  BY <1>2, <1>4, NoSave
<1> QED
  BY <1>2, <1>3, <1>4, <1>5, SingleKeeps

LEMMA ClearKeyKeeps == ASSUME ConfigInv, NEW a \in Admins, ClearKey(a) PROVE ConfigInv'
<1>1. PICK s \in Scopes : Request(a, <<Job(s, "clear", None)>>)
  BY DEF ClearKey
<1> DEFINE job == Job(s, "clear", None)
<1>2. job \in Steps /\ job.new = None /\ job.do = "clear"
  BY JobIsStep DEF Edits, Held
<1>3. Request(a, <<job>>)
  BY <1>1
<1> HIDE DEF job
<1>4. KeyJob(a, job, <<>>, moved)
  BY <1>2, NoSave DEF OwnKeyHome
<1> QED
  BY <1>2, <1>3, <1>4, SingleKeeps DEF PaidRow

LEMMA DeleteAgentKeeps == ASSUME ConfigInv, NEW a \in Admins, DeleteAgent(a) PROVE ConfigInv'
<1>1. PICK s \in Personas : Request(a, <<Job(s, "restore", None)>>)
  BY DEF DeleteAgent
<1> DEFINE job == Job(s, "restore", None)
<1>2. job \in Steps /\ job.new = None /\ job.do = "restore"
  BY JobIsStep DEF Edits, Held, Scopes
<1>3. Request(a, <<job>>)
  BY <1>1
<1> HIDE DEF job
<1>4. KeyJob(a, job, <<>>, moved)
  BY <1>2, NoSave DEF OwnKeyHome
<1> QED
  BY <1>2, <1>3, <1>4, SingleKeeps DEF PaidRow

LEMMA PutPricesKeeps == ASSUME ConfigInv, NEW a \in Admins, PutPrices(a) PROVE ConfigInv'
<1> DEFINE p == CHOOSE p \in Providers : TRUE
           New(sheet) == [Plain(p, None) EXCEPT !.price = sheet]
<1>1. PICK sheet \in BOOLEAN : Request(a, <<Job(Org, "price", New(sheet))>>)
  BY DEF PutPrices
<1>2. p \in Providers
  OBVIOUS
<1> HIDE DEF p
<1>3. Plain(p, None) \in HomeRow /\ Plain(p, None).chain = <<>>
  BY <1>2, PlainIsHome
<1>4. New(sheet) \in HomeRow
  BY <1>3, ColumnSet, RowParts, <1>2
<1>5. New(sheet).chain = <<>> /\ New(sheet).ref = None
  BY <1>3 DEF HomeRow, Row, Plain
<1> DEFINE job == Job(Org, "price", New(sheet))
<1>8. Request(a, <<job>>)
  BY <1>1
<1> HIDE DEF New
<1>6. PaidRow(New(sheet)) /\ OwnKeyHome(New(sheet))
  BY <1>5 DEF PaidRow, PaidFor, OwnKeyHome, AtHome
<1>7. job \in Steps /\ job.new = New(sheet) /\ job.do = "price"
  BY <1>4, JobIsStep, RowsAreHeld DEF Edits, Scopes
<1> HIDE DEF job
<1>9. KeyJob(a, job, <<>>, moved)
  BY <1>6, <1>7, NoSave
<1> QED
  BY <1>6, <1>7, <1>8, <1>9, SingleKeeps

\* A rolled-back row is the recorded one, or a key of it was lost.
LEMMA RollbackKeeps == ASSUME ConfigInv, NEW a \in Admins, Rollback(a) PROVE ConfigInv'
<1>1. PICK v \in versions : \E good \in Resolvable(v.snapshot) :
          LET new == IF v.snapshot = None THEN None ELSE Restorable(v.snapshot, good)
          IN  /\ Open(a, <<Job(v.scope, "restore", new)>>, <<>>)
              /\ lost' = (lost \/ new # v.snapshot)
  BY DEF Rollback
<1>0. PICK good \in Resolvable(v.snapshot) :
          LET new == IF v.snapshot = None THEN None ELSE Restorable(v.snapshot, good)
          IN  /\ Open(a, <<Job(v.scope, "restore", new)>>, <<>>)
              /\ lost' = (lost \/ new # v.snapshot)
  BY <1>1
<1> DEFINE new == IF v.snapshot = None THEN None ELSE Restorable(v.snapshot, good)
           job == Job(v.scope, "restore", new)
<1>2. /\ Open(a, <<job>>, <<>>) /\ lost' = (lost \/ new # v.snapshot)
      /\ UNCHANGED <<live, versions, moved>>
  BY <1>0 DEF Rollback
<1>3. /\ v.scope \in Scopes /\ v.snapshot \in Held /\ lost \in BOOLEAN
      /\ lost \/ (v.scope = Org => PaidRow(v.snapshot))
      /\ v.scope \notin moved => OwnKeyHome(v.snapshot)
  BY DEF ConfigInv, ShapesHold, Version, NobodyElsePays, KeysHome
<1>4. new \in Held /\ (OwnKeyHome(v.snapshot) => OwnKeyHome(new))
  <2>1. CASE v.snapshot = None
    BY <2>1 DEF Held, OwnKeyHome
  <2>2. CASE v.snapshot # None
    <3>1. v.snapshot \in HomeRow /\ new = Restorable(v.snapshot, good)
      BY <2>2, <1>3 DEF Held
    <3> HIDE DEF new
    <3> QED
      BY <3>1, RestorableIsHome DEF Held
  <2> QED
    BY <2>1, <2>2
<1> HIDE DEF new
<1>5. job \in Steps /\ job.new = new /\ job.scope = v.scope /\ job.do = "restore"
  BY <1>3, <1>4, JobIsStep DEF Edits
<1> HIDE DEF job
<1>8. KeyJob(a, job, <<>>, moved)
  BY <1>3, <1>4, <1>5, NoSave
<1>6. /\ Fresh(<<job>>) /\ ((job.scope = Org => PaidRow(job.new)) => PaidJobs(<<job>>))
      /\ KeyJobs(a, <<job>>, <<>>, moved)
  BY <1>5, <1>8, OneJob
<1>7. lost' \in BOOLEAN /\ (lost => lost') /\ (lost' \/ PaidJobs(<<job>>))
  BY <1>2, <1>3, <1>5, <1>6
<1> QED
  BY <1>2, <1>6, <1>7, NoChain, OpenKeeps

\* A scope's share of an import: its row, its removal or nothing.
Share(scope, doc, replace, resolves) ==
    IF doc # None THEN <<Job(scope, "restore", Planned(doc, resolves))>>
    ELSE IF replace THEN <<Job(scope, "prune", None)>> ELSE <<>>

LEMMA ShareIsOneJob ==
    ASSUME NEW scope \in Scopes, NEW doc \in Documents \cup Overrides \cup {None},
           NEW replace \in BOOLEAN, NEW resolves \in BOOLEAN
    PROVE  \/ Share(scope, doc, replace, resolves) = <<>>
           \/ \E job \in Steps :
                  /\ Share(scope, doc, replace, resolves) = <<job>> /\ job.scope = scope
                  /\ job.do # "put" /\ OwnKeyHome(job.new)
                  /\ job.new = None \/ (doc # None /\ job.new = Planned(doc, resolves))
<1>1. CASE doc # None
  <2>1. Planned(doc, resolves) \in Held /\ OwnKeyHome(Planned(doc, resolves))
    BY <1>1, ImportableIsHome, PlannedIsHome DEF Held
  <2>2. /\ Job(scope, "restore", Planned(doc, resolves)) \in Steps
        /\ Job(scope, "restore", Planned(doc, resolves)).scope = scope
        /\ Job(scope, "restore", Planned(doc, resolves)).new = Planned(doc, resolves)
        /\ Job(scope, "restore", Planned(doc, resolves)).do = "restore"
    BY <2>1, JobIsStep DEF Edits
  <2> QED
    BY <1>1, <2>1, <2>2 DEF Share
<1>2. CASE doc = None /\ replace
  <2>1. /\ Job(scope, "prune", None) \in Steps /\ Job(scope, "prune", None).scope = scope
        /\ Job(scope, "prune", None).new = None /\ Job(scope, "prune", None).do = "prune"
    BY JobIsStep DEF Edits, Held
  <2> QED
    BY <1>2, <2>1 DEF Share, OwnKeyHome
<1>3. CASE doc = None /\ ~replace
  BY <1>3 DEF Share
<1> QED
  BY <1>1, <1>2, <1>3

LEMMA TwoInOne == ASSUME NEW S, NEW x \in S, NEW y \in S PROVE <<x>> \o <<y>> = <<x, y>>
<1>1. <<x>> \in Seq(S) /\ <<y>> \in Seq(S) /\ <<x, y>> \in Seq(S)
  OBVIOUS
<1>2. Len(<<x>> \o <<y>>) = 2 /\ Len(<<x, y>>) = 2 /\ <<x>> \o <<y>> \in Seq(S)
  BY <1>1
<1>3. \A i \in 1..2 : (<<x>> \o <<y>>)[i] = <<x, y>>[i]
  BY <1>1
<1> QED
  BY <1>1, <1>2, <1>3, SeqEqual

LEMMA ImportKeeps == ASSUME ConfigInv, NEW a \in Admins, Import(a) PROVE ConfigInv'
<1>1. PICK org \in Documents \cup {None}, s \in Personas, agent \in Overrides \cup {None},
           replace \in BOOLEAN, resolves \in BOOLEAN :
               LET jobs == Share(Org, org, replace, resolves) \o Share(s, agent, replace, resolves)
               IN  /\ org # None => Acceptable(org)
                   /\ jobs # <<>>
                   /\ Start(a, jobs, <<>>)
                   /\ lost' = (lost \/ (org # None /\ ~resolves))
  BY Zenon DEF Import, Share
<1> DEFINE p == Share(Org, org, replace, resolves)
           q == Share(s, agent, replace, resolves)
<1>2. /\ org # None => PaidFor(Planned(org, TRUE).chain)
      /\ p \o q # <<>> /\ Start(a, p \o q, <<>>) /\ UNCHANGED <<live, versions, moved>>
      /\ lost' = (lost \/ (org # None /\ ~resolves))
  BY <1>1 DEF Import, Acceptable
<1>3. lost \in BOOLEAN /\ Org \in Scopes /\ s \in Scopes /\ s # Org
  BY DEF ConfigInv, ShapesHold, Scopes
<1>9. \A job : job.do # "put" /\ OwnKeyHome(job.new) => KeyJob(a, job, <<>>, moved)
  BY DEF KeyJob
<1>4. \/ p = <<>>
      \/ \E job \in Steps : /\ p = <<job>> /\ job.scope = Org /\ KeyJob(a, job, <<>>, moved)
                            /\ job.new = None \/ (org # None /\ job.new = Planned(org, resolves))
  <2>1. \/ p = <<>>
        \/ \E job \in Steps :
               /\ p = <<job>> /\ job.scope = Org
               /\ job.do # "put" /\ OwnKeyHome(job.new)
               /\ job.new = None \/ (org # None /\ job.new = Planned(org, resolves))
    BY <1>3, ShareIsOneJob
  <2> HIDE DEF p
  <2> QED
    BY <2>1, <1>9
<1>5. q = <<>> \/ \E job \in Steps : q = <<job>> /\ job.scope = s /\ KeyJob(a, job, <<>>, moved)
  <2>1. \/ q = <<>>
        \/ \E job \in Steps : q = <<job>> /\ job.scope = s /\ job.do # "put" /\ OwnKeyHome(job.new)
    BY <1>3, ShareIsOneJob
  <2> HIDE DEF q
  <2> QED
    BY <2>1, <1>9
<1> HIDE DEF p, q
<1>6. ASSUME NEW job \in Steps, job.scope = Org,
             job.new = None \/ (org # None /\ job.new = Planned(org, resolves))
      PROVE  lost' \/ PaidRow(job.new)
  BY <1>2, <1>6 DEF PaidRow
<1>7. Fresh(p \o q) /\ (lost' \/ PaidJobs(p \o q)) /\ KeyJobs(a, p \o q, <<>>, moved)
  <2>1. CASE p = <<>>
    <3>1. PICK job \in Steps : q = <<job>> /\ job.scope = s /\ KeyJob(a, job, <<>>, moved)
      BY <2>1, <1>2, <1>5
    <3>2. p \o q = <<job>>
      BY <2>1, <3>1
    <3>3. Fresh(<<job>>) /\ KeyJobs(a, <<job>>, <<>>, moved)
      BY <3>1, OneJob
    <3>4. PaidJobs(<<job>>)
      BY <3>1, <1>3, OneJob
    <3> QED
      BY <3>2, <3>3, <3>4
  <2>2. CASE p # <<>> /\ q = <<>>
    <3>1. PICK job \in Steps : /\ p = <<job>> /\ job.scope = Org /\ KeyJob(a, job, <<>>, moved)
                               /\ job.new = None \/ (org # None /\ job.new = Planned(org, resolves))
      BY <2>2, <1>4
    <3>2. p \o q = <<job>>
      BY <2>2, <3>1
    <3>3. Fresh(<<job>>) /\ KeyJobs(a, <<job>>, <<>>, moved)
      BY <3>1, OneJob
    <3>4. lost' \/ PaidJobs(<<job>>)
      BY <3>1, <1>6, OneJob
    <3> QED
      BY <3>2, <3>3, <3>4
  <2>3. CASE p # <<>> /\ q # <<>>
    <3>1. PICK j1 \in Steps : /\ p = <<j1>> /\ j1.scope = Org /\ KeyJob(a, j1, <<>>, moved)
                              /\ j1.new = None \/ (org # None /\ j1.new = Planned(org, resolves))
      BY <2>3, <1>4
    <3>2. PICK j2 \in Steps : q = <<j2>> /\ j2.scope = s /\ KeyJob(a, j2, <<>>, moved)
      BY <2>3, <1>5
    <3>3. p \o q = <<j1, j2>>
      BY <3>1, <3>2, TwoInOne
    <3>4. j1.scope = Org /\ j2.scope # Org
      BY <3>1, <3>2, <1>3
    <3>5. Fresh(<<j1, j2>>) /\ KeyJobs(a, <<j1, j2>>, <<>>, moved)
      BY <3>1, <3>2, <3>4, TwoJobs
    <3>6. lost' \/ PaidJobs(<<j1, j2>>)
      BY <3>1, <3>4, <1>6, TwoJobs
    <3> QED
      BY <3>3, <3>5, <3>6
  <2> QED
    BY <2>1, <2>2, <2>3
<1>8. lost' \in BOOLEAN /\ (lost => lost')
  BY <1>2, <1>3
<1> QED
  BY <1>2, <1>7, <1>8, NoChain, StartKeeps

-----------------------------------------------------------------------------
(* The steps of a transaction.                                             *)

LEMMA BeginKeeps == ASSUME ConfigInv, NEW a \in Admins, Begin(a) PROVE ConfigInv'
<1> DEFINE jobs == req[a].jobs
           seen == req[a].seen
<1>1. /\ Open(a, jobs, seen) /\ UNCHANGED <<live, versions, moved>> /\ lost' = lost
      /\ req[a].pc = "begin"
  BY DEF Begin
<1>2. /\ RequestFine(req[a]) /\ req[a] \in Asks /\ lost \in BOOLEAN
      /\ seen \in Chains /\ KeyJobs(a, jobs, seen, moved)
  BY DEF ConfigInv, ShapesHold, Asks, KeysHome, KeyAsk
<1>3. Fresh(jobs)
  BY <1>1, <1>2 DEF RequestFine, OnceEach, Fresh, Asks
<1>4. lost \/ PaidJobs(jobs)
  BY DEF ConfigInv, NobodyElsePays, PaidAsk, PaidJobs
<1> QED
  BY <1>1, <1>2, <1>3, <1>4, OpenKeeps

\* Where a transaction goes on.
LEMMA StepKeeps ==
    ASSUME ConfigInv, NEW a \in Admins, InTransaction(a), NEW r, Sound(r),
           r.pc \in {"record", "write"}, r.jobs # <<>>,
           r.at = req[a].at, r.page = req[a].page,
           Reach(r) \subseteq Reach(req[a]), lost \/ PaidAsk(r),
           req' = [req EXCEPT ![a] = r],
           UNCHANGED <<live, versions, clock, overlapped, lost>>,
           moved \subseteq moved', moved' \subseteq Scopes, KeyAsk(a, r, moved')
    PROVE  ConfigInv'
<1>1. clock \in 0..MaxRequests /\ overlapped \subseteq Scopes /\ lost \in BOOLEAN /\ Apart
  BY DEF ConfigInv, ShapesHold
<1>2. r \in Asks /\ OnceEach(r) /\ r.at <= clock /\ AskTrue(r)
  BY DEF Sound
<1>3. \A b \in Admins \ {a} : InTransaction(b) => Reach(r) \cap Reach(req[b]) \subseteq overlapped
  BY <1>1 DEF Apart
<1>4. r.at <= clock' /\ clock <= clock' /\ clock' \in 0..MaxRequests
  BY <1>1, <1>2
<1> QED
  BY <1>1, <1>2, <1>3, <1>4, RequestKeeps

\* Recording, passing over and writing bring no fallback that bills others.
LEMMA RecordingIsPaid ==
    ASSUME NEW r \in Asks, PaidAsk(r), PaidRow(live[Org])
    PROVE  PaidAsk(Recording(r))
<1>1. /\ Recording(r).jobs = r.jobs /\ Recording(r).rows = r.rows
      /\ Recording(r).news = r.news \cup {Own(r)}
  BY DEF Recording, Asks
<1>2. Own(r).scope = Org => Own(r).snapshot = live[Org]
  BY DEF Own
<1> QED
  BY <1>1, <1>2 DEF PaidAsk

LEMMA PassingIsPaid ==
    ASSUME NEW r \in Asks, r.jobs # <<>>, PaidAsk(r)
    PROVE  PaidAsk(Passing(r))
<1>1. /\ Passing(r).jobs = Tail(r.jobs) /\ Passing(r).rows = r.rows
      /\ Passing(r).news = r.news
  BY DEF Passing, Asks
<1>2. \A i \in DOMAIN Tail(r.jobs) : i + 1 \in DOMAIN r.jobs /\ Tail(r.jobs)[i] = r.jobs[i + 1]
  BY FirstJob
<1> QED
  BY <1>1, <1>2 DEF PaidAsk

LEMMA WritingIsPaid ==
    ASSUME ShapesHold, NEW r \in Asks, r.jobs # <<>>, PaidAsk(r), PaidRow(live[Org])
    PROVE  PaidAsk(Writing(r))
<1>1. /\ Writing(r).jobs = Tail(r.jobs) /\ Writing(r).rows = Upsert(r)
      /\ Writing(r).news = Noted(r)
  BY DEF Writing, Asks
<1>2. \A i \in DOMAIN Tail(r.jobs) : i + 1 \in DOMAIN r.jobs /\ Tail(r.jobs)[i] = r.jobs[i + 1]
  BY FirstJob
<1>3. \A v \in Noted(r) : v.scope = Org => PaidRow(v.snapshot)
  <2> TAKE w \in Noted(r)
  <2>1. PICK v \in r.news :
            w = IF v.scope = Head(r.jobs).scope THEN [v EXCEPT !.after = Upsert(r)[v.scope]] ELSE v
    BY DEF Noted
  <2>2. v \in Version
    BY DEF Asks
  <2>3. w.scope = v.scope /\ w.snapshot = v.snapshot
    BY <2>1, <2>2 DEF Version
  <2> QED
    BY <2>3 DEF PaidAsk
<1>4. PaidRow(Upsert(r)[Org])
  <2>1. /\ Head(r.jobs) \in Steps /\ Head(r.jobs) = r.jobs[1] /\ 1 \in DOMAIN r.jobs
        /\ Head(r.jobs).scope \in Scopes
    BY FirstJob
  <2>2. live \in [Scopes -> Held] /\ r.rows \in [Scopes -> Held] /\ Org \in Scopes
    BY DEF ShapesHold, Asks, Scopes
  <2>3. CASE Head(r.jobs).scope = Org
    <3>1. Upsert(r)[Org] = Written(Head(r.jobs), live[Org])
      BY <2>2, <2>3 DEF Upsert
    <3>2. PaidRow(Head(r.jobs).new)
      BY <2>1, <2>3 DEF PaidAsk
    <3> QED
      BY <3>1, <3>2, <2>1, <2>2, WrittenIsHeld
  <2>4. CASE Head(r.jobs).scope # Org
    <3>1. Upsert(r)[Org] = r.rows[Org]
      BY <2>2, <2>4 DEF Upsert
    <3> QED
      BY <3>1 DEF PaidAsk
  <2> QED
    BY <2>3, <2>4
<1> QED
  BY <1>1, <1>2, <1>3, <1>4 DEF PaidAsk

\* Nor any own key of another provider, but for the scopes that have moved.
LEMMA RecordingIsHome ==
    ASSUME NEW a, NEW r \in Asks, NEW M, KeyAsk(a, r, M), \A s \in Scopes \ M : OwnKeyHome(live[s]),
           r.jobs # <<>>
    PROVE  /\ KeyAsk(a, Recording(r), M)
           /\ Recording(r).at = r.at /\ Recording(r).page = r.page
<1>1. /\ Recording(r).jobs = r.jobs /\ Recording(r).rows = r.rows /\ Recording(r).seen = r.seen
      /\ Recording(r).news = r.news \cup {Own(r)}
      /\ Recording(r).at = r.at /\ Recording(r).page = r.page
  BY DEF Recording, Asks
<1>2. Own(r).scope \in Scopes /\ Own(r).snapshot = live[Own(r).scope]
  BY FirstJob DEF Own
<1> QED
  BY <1>1, <1>2 DEF KeyAsk

LEMMA PassingIsHome ==
    ASSUME NEW a, NEW r \in Asks, NEW M, KeyAsk(a, r, M), r.jobs # <<>>
    PROVE  /\ KeyAsk(a, Passing(r), M)
           /\ Passing(r).at = r.at /\ Passing(r).page = r.page
<1>1. /\ Passing(r).jobs = Tail(r.jobs) /\ Passing(r).rows = r.rows /\ Passing(r).seen = r.seen
      /\ Passing(r).news = r.news
      /\ Passing(r).at = r.at /\ Passing(r).page = r.page
  BY DEF Passing, Asks
<1>2. \A i \in DOMAIN Tail(r.jobs) : i + 1 \in DOMAIN r.jobs /\ Tail(r.jobs)[i] = r.jobs[i + 1]
  BY FirstJob
<1>3. KeyJobs(a, Tail(r.jobs), r.seen, M)
  BY <1>2 DEF KeyAsk, KeyJobs
<1> QED
  BY <1>1, <1>3 DEF KeyAsk

\* The scopes that have moved once a transaction has written its next one.
MovedBy(r) ==
    IF Moves(Head(r.jobs), live[Head(r.jobs).scope]) THEN moved \cup {Head(r.jobs).scope} ELSE moved

LEMMA WritingIsHome ==
    ASSUME ShapesHold, NEW a, NEW r \in Asks, KeyAsk(a, r, moved),
           \A s \in Scopes \ moved : OwnKeyHome(live[s]), r.jobs # <<>>
    PROVE  /\ KeyAsk(a, Writing(r), MovedBy(r))
           /\ Writing(r).at = r.at /\ Writing(r).page = r.page
           /\ moved \subseteq MovedBy(r) /\ MovedBy(r) \subseteq Scopes
<1>1. /\ Writing(r).jobs = Tail(r.jobs) /\ Writing(r).rows = Upsert(r) /\ Writing(r).seen = r.seen
      /\ Writing(r).news = Noted(r)
      /\ Writing(r).at = r.at /\ Writing(r).page = r.page
  BY DEF Writing, Asks
<1>2. \A i \in DOMAIN Tail(r.jobs) : i + 1 \in DOMAIN r.jobs /\ Tail(r.jobs)[i] = r.jobs[i + 1]
  BY FirstJob
<1>3. /\ Head(r.jobs) \in Steps /\ Head(r.jobs) = r.jobs[1] /\ 1 \in DOMAIN r.jobs
      /\ Head(r.jobs).scope \in Scopes
  BY FirstJob
<1> DEFINE M == MovedBy(r)
<1>4. /\ moved \subseteq M /\ M \subseteq Scopes
      /\ Head(r.jobs).scope \notin M =>
             /\ Head(r.jobs).scope \notin moved
             /\ ~Moves(Head(r.jobs), live[Head(r.jobs).scope])
  BY <1>3 DEF MovedBy, ShapesHold
<1> HIDE DEF M
<1>5. KeyAsk(a, r, M)
  BY <1>4, KeysStayKnown
<1>6. KeyJobs(a, Tail(r.jobs), r.seen, M)
  BY <1>2, <1>5 DEF KeyAsk, KeyJobs
<1>7. \A w \in Noted(r) : w.scope \notin M => OwnKeyHome(w.snapshot)
  <2> TAKE w \in Noted(r)
  <2>1. PICK v \in r.news :
            w = IF v.scope = Head(r.jobs).scope THEN [v EXCEPT !.after = Upsert(r)[v.scope]] ELSE v
    BY DEF Noted
  <2>2. v \in Version
    BY DEF Asks
  <2>3. w.scope = v.scope /\ w.snapshot = v.snapshot
    BY <2>1, <2>2 DEF Version
  <2> QED
    BY <2>3, <1>5 DEF KeyAsk
<1>8. ASSUME NEW s \in Scopes \ M PROVE OwnKeyHome(Upsert(r)[s])
  <2>1. live \in [Scopes -> Held] /\ r.rows \in [Scopes -> Held]
    BY DEF ShapesHold, Asks
  <2>2. CASE Head(r.jobs).scope = s
    <3>1. Upsert(r)[s] = Written(Head(r.jobs), live[s])
      BY <2>1, <2>2 DEF Upsert
    <3>2. OwnKeyHome(live[s]) /\ ~Moves(Head(r.jobs), live[s])
      BY <1>4, <2>2
    <3>3. OwnKeyHome(Head(r.jobs).new)
      BY <1>3, <1>5, <2>2 DEF KeyAsk, KeyJobs, KeyJob
    <3>4. OwnKeyHome(Written(Head(r.jobs), live[s]))
      BY <3>2, <3>3, <1>3, <2>1, WrittenIsHome
    <3> QED
      BY <3>1, <3>4
  <2>3. CASE Head(r.jobs).scope # s
    <3>1. Upsert(r)[s] = r.rows[s]
      BY <2>1, <2>3 DEF Upsert
    <3> QED
      BY <3>1, <1>5 DEF KeyAsk
  <2> QED
    BY <2>2, <2>3
<1> QED
  BY <1>1, <1>4, <1>6, <1>7, <1>8 DEF KeyAsk, M

\* A transaction as the steps find it.
LEMMA InTransactionIsSound ==
    ASSUME ConfigInv, NEW a \in Admins, InTransaction(a)
    PROVE  /\ Sound(req[a]) /\ req[a] \in Asks /\ req[a].jobs # <<>> /\ ShapesHold
           /\ lost \/ (PaidAsk(req[a]) /\ PaidRow(live[Org]))
           /\ KeyAsk(a, req[a], moved) /\ \A s \in Scopes \ moved : OwnKeyHome(live[s])
           /\ moved \subseteq Scopes
<1>1. /\ RequestFine(req[a]) /\ AskTrue(req[a]) /\ ShapesHold /\ req[a].pc \in {"record", "write"}
      /\ moved \subseteq Scopes
  BY DEF ConfigInv, ShapesHold, InTransaction, AsksTrue
<1>2. lost \/ (PaidAsk(req[a]) /\ PaidRow(live[Org]))
  BY DEF ConfigInv, NobodyElsePays
<1>3. KeyAsk(a, req[a], moved) /\ \A s \in Scopes \ moved : OwnKeyHome(live[s])
  BY DEF ConfigInv, KeysHome
<1> QED
  BY <1>1, <1>2, <1>3 DEF RequestFine, Sound

LEMMA MoreThanOne ==
    ASSUME NEW S, NEW jobs \in Seq(S), jobs # <<>>
    PROVE  Len(jobs) > 1 <=> Tail(jobs) # <<>>
<1>1. Tail(jobs) \in Seq(S) /\ Len(Tail(jobs)) = Len(jobs) - 1
  BY HeadTailProperties
<1>2. /\ Tail(jobs) = <<>> => Len(Tail(jobs)) = 0
      /\ Tail(jobs) # <<>> => Len(Tail(jobs)) \in Nat \ {0}
  BY <1>1, EmptySeq
<1>3. Len(jobs) \in Nat
  BY LenProperties
<1> DEFINE n == Len(jobs)
           m == Len(Tail(jobs))
<1>4. n \in Nat /\ m = n - 1 /\ (Tail(jobs) = <<>> => m = 0) /\ (Tail(jobs) # <<>> => m \in Nat \ {0})
  BY <1>1, <1>2, <1>3
<1> HIDE DEF n, m
<1>5. n > 1 <=> m # 0
  BY <1>4
<1> QED
  BY <1>4, <1>5 DEF n

LEMMA MoreJobs ==
    ASSUME NEW r \in Asks, r.jobs # <<>>
    PROVE  Len(r.jobs) > 1 <=> Tail(r.jobs) # <<>>
<1>1. r.jobs \in Seq(Steps)
  BY DEF Asks
<1> QED
  BY <1>1, MoreThanOne

LEMMA RecordKeeps == ASSUME ConfigInv, NEW a \in Admins, Record(a) PROVE ConfigInv'
<1> DEFINE r == req[a]
<1>1. /\ r.pc = "record" /\ InTransaction(a) /\ UNCHANGED <<clock, overlapped, lost>>
      /\ req \in [Admins -> Asks] /\ moved' = moved
  BY DEF Record, InTransaction, ConfigInv, ShapesHold
<1>2. /\ Sound(r) /\ r \in Asks /\ r.jobs # <<>> /\ ShapesHold
      /\ lost \/ (PaidAsk(r) /\ PaidRow(live[Org]))
      /\ KeyAsk(a, r, moved) /\ \A s \in Scopes \ moved : OwnKeyHome(live[s])
      /\ moved \subseteq Scopes
  BY <1>1, InTransactionIsSound
<1>3. CASE RecordVersion(a) /\ UNCHANGED <<live, versions>>
  <2>1. req' = [req EXCEPT ![a] = Recording(r)]
    BY <1>3, Zenon DEF RecordVersion, Recording, Own, Seen, Expired
  <2>2. /\ Sound(Recording(r)) /\ Recording(r).pc = "write"
        /\ Recording(r).jobs = r.jobs /\ Reach(Recording(r)) = Reach(r)
    BY <1>1, <1>2, RecordingIsSound
  <2>3. lost \/ PaidAsk(Recording(r))
    BY <1>2, RecordingIsPaid
  <2>4. /\ KeyAsk(a, Recording(r), moved) /\ Recording(r).at = r.at
        /\ Recording(r).page = r.page /\ Recording(r).jobs # <<>>
    BY <1>2, <2>2, RecordingIsHome
  <2> QED
    BY <2>1, <2>2, <2>3, <2>4, <1>1, <1>2, <1>3, StepKeeps
<1>4. /\ Sound(Passing(r)) /\ Passing(r).pc = "record"
      /\ Passing(r).jobs = Tail(r.jobs) /\ Reach(Passing(r)) \subseteq Reach(r)
      /\ lost \/ PaidAsk(Passing(r))
  BY <1>1, <1>2, PassingIsSound, PassingIsPaid
<1>7. /\ KeyAsk(a, Passing(r), moved) /\ Passing(r).at = r.at /\ Passing(r).page = r.page
  BY <1>2, PassingIsHome
<1>5. CASE Len(r.jobs) > 1 /\ req' = [req EXCEPT ![a].jobs = Tail(@)] /\ UNCHANGED <<live, versions>>
  <2>1. req' = [req EXCEPT ![a] = Passing(r)]
    BY <1>5, Zenon DEF Passing
  <2>2. Passing(r).jobs # <<>>
    BY <1>2, <1>4, <1>5, MoreJobs
  <2> QED
    BY <2>1, <2>2, <1>1, <1>2, <1>4, <1>5, <1>7, StepKeeps
<1>6. CASE /\ live' = [s \in Scopes |-> IF s \in r.locks THEN r.rows[s] ELSE live[s]]
           /\ versions' = (versions \cup r.news) \ r.gone
           /\ req' = [req EXCEPT ![a] = NoRequest]
  <2>1. /\ Passing(r).locks = r.locks /\ Passing(r).rows = r.rows
        /\ Passing(r).news = r.news /\ Passing(r).gone = r.gone
    BY <1>2 DEF Passing, Asks
  <2>2. Commits(a, Passing(r))
    BY <2>1, <1>1, <1>6 DEF Commits
  <2> QED
    BY <2>2, <1>1, <1>2, <1>4, <1>7, CommitKeeps
<1> QED
  BY <1>1, <1>3, <1>5, <1>6, Zenon DEF Record

LEMMA WriteKeeps == ASSUME ConfigInv, NEW a \in Admins, Write(a) PROVE ConfigInv'
<1> DEFINE r    == req[a]
           job  == Head(r.jobs)
           rows == [r.rows EXCEPT ![job.scope] = Written(job, live[job.scope])]
           held == r.locks \cup {job.scope}
           news == {IF v.scope = job.scope THEN [v EXCEPT !.after = rows[v.scope]] ELSE v :
                       v \in r.news}
<1>1. /\ r.pc = "write" /\ InTransaction(a) /\ UNCHANGED <<clock, overlapped, lost>>
      /\ req \in [Admins -> Asks]
  BY DEF Write, InTransaction, ConfigInv, ShapesHold
<1>2. /\ Sound(r) /\ r \in Asks /\ r.jobs # <<>> /\ ShapesHold
      /\ lost \/ (PaidAsk(r) /\ PaidRow(live[Org]))
      /\ KeyAsk(a, r, moved) /\ \A s \in Scopes \ moved : OwnKeyHome(live[s])
      /\ moved \subseteq Scopes
  BY <1>1, InTransactionIsSound
<1>3. /\ Sound(Writing(r)) /\ Writing(r).pc = "record"
      /\ Writing(r).jobs = Tail(r.jobs) /\ Reach(Writing(r)) \subseteq Reach(r)
      /\ lost \/ PaidAsk(Writing(r))
  BY <1>1, <1>2, WritingIsSound, WritingIsPaid
<1>4. rows = Upsert(r) /\ news = Noted(r)
  BY Zenon DEF Upsert, Noted
<1>7. moved' = MovedBy(r)
  BY Zenon DEF Write, MovedBy
<1>8. /\ KeyAsk(a, Writing(r), moved') /\ moved \subseteq moved' /\ moved' \subseteq Scopes
      /\ Writing(r).at = r.at /\ Writing(r).page = r.page
  BY <1>2, <1>7, WritingIsHome
<1>5. CASE /\ Len(r.jobs) > 1 /\ UNCHANGED <<live, versions>>
           /\ req' = [req EXCEPT ![a].pc = "record", ![a].jobs = Tail(@),
                                 ![a].rows = rows, ![a].locks = held, ![a].news = news]
  <2>1. req' = [req EXCEPT ![a] = [r EXCEPT !.pc = "record", !.jobs = Tail(r.jobs), !.rows = rows,
                                            !.locks = held, !.news = news]]
    BY <1>5, Zenon
  <2>2. req' = [req EXCEPT ![a] = Writing(r)]
    BY <2>1, <1>4, Zenon DEF Writing
  <2>3. Writing(r).jobs # <<>>
    BY <1>2, <1>3, <1>5, MoreJobs
  <2> QED
    BY <2>2, <2>3, <1>1, <1>3, <1>5, <1>8, StepKeeps
<1>6. CASE /\ live' = [s \in Scopes |-> IF s \in held THEN rows[s] ELSE live[s]]
           /\ versions' = (versions \cup news) \ r.gone
           /\ req' = [req EXCEPT ![a] = NoRequest]
  <2>1. /\ Writing(r).locks = held /\ Writing(r).rows = rows
        /\ Writing(r).news = news /\ Writing(r).gone = r.gone
    <3> HIDE DEF rows, news
    <3> QED
      BY <1>2, <1>4 DEF Writing, Asks
  <2> HIDE DEF rows, news, held
  <2>2. Commits(a, Writing(r))
    BY <2>1, <1>1, <1>6 DEF Commits
  <2> QED
    BY <2>2, <1>1, <1>3, <1>8, CommitKeeps
<1> QED
  BY <1>1, <1>5, <1>6, Zenon DEF Write

-----------------------------------------------------------------------------
(* The theorems.                                                           *)

\* The seeds are states the routes leave behind.
LEMMA ConfigInitHolds == ConfigInit => ConfigInv
<1> SUFFICES ASSUME ConfigInit PROVE ConfigInv
  OBVIOUS
<1>1. PICK seed \in Seeds : live = seed.live /\ versions = seed.versions
  BY DEF ConfigInit
<1>2. /\ live \in [Scopes -> Held] /\ (live[Org] # None => PaidFor(live[Org].chain))
      /\ \A s \in Scopes : OwnKeyHome(live[s])
      /\ IsFiniteSet(versions)
      /\ \A v \in versions :
             /\ v \in Version /\ v.at = 0 /\ v.after = live[v.scope]
             /\ v.scope = Org /\ v.snapshot # None => PaidFor(v.snapshot.chain)
             /\ OwnKeyHome(v.snapshot)
             /\ \A w \in versions : w.scope = v.scope => w = v
  BY <1>1, SeedsAssumption
<1>3. /\ req = [a \in Admins |-> NoRequest] /\ clock = 0 /\ overlapped = {} /\ lost = FALSE
      /\ moved = {}
  BY DEF ConfigInit
<1>4. /\ RequestFine(NoRequest) /\ PaidAsk(NoRequest) /\ NoRequest.pc = "idle"
      /\ \A a, M : KeyAsk(a, NoRequest, M)
      /\ NoRequest.page = {}
  BY <1>3, NoRequestIsFine, NothingYet
<1>5. ShapesHold
  <2>1. req \in [Admins -> Asks] /\ \A a \in Admins : RequestFine(req[a])
    BY <1>3, <1>4 DEF RequestFine
  <2>2. clock \in 0..MaxRequests
    BY <1>3
  <2>4. overlapped \subseteq Scopes /\ moved \subseteq Scopes
    BY <1>3
  <2>5. lost \in BOOLEAN
    BY <1>3
  <2>3. versions \subseteq Version /\ \A v \in versions : v.at <= clock
    BY <1>2, <1>3
  <2> QED
    BY <2>1, <2>2, <2>3, <2>4, <2>5, <1>2 DEF ShapesHold
<1>6. NobodyElsePays
  BY <1>2, <1>3, <1>4 DEF NobodyElsePays, PaidRow
<1>7. \A a \in Admins : ~InTransaction(a)
  BY <1>3, <1>4 DEF InTransaction
<1>8. Apart /\ AsksTrue
  BY <1>7 DEF Apart, AsksTrue
<1>9. HistoryTrue
  BY <1>2, <1>3 DEF HistoryTrue, Linked
<1>10. KeysHome
  BY <1>2, <1>3, <1>4 DEF KeysHome
<1>11. PagesTrue
  <2>1. \A a \in Admins : req[a].page = {}
    BY <1>3, <1>4
  <2> QED
    BY <2>1 DEF PagesTrue, PageTrue
<1> QED
  BY <1>5, <1>6, <1>8, <1>9, <1>10, <1>11 DEF ConfigInv

LEMMA ConfigStepKeeps == ConfigInv /\ [ConfigNext]_configVars => ConfigInv'
<1> SUFFICES ASSUME ConfigInv, [ConfigNext]_configVars PROVE ConfigInv'
  OBVIOUS
<1>1. CASE UNCHANGED configVars
  <2> USE <1>1 DEF configVars, ConfigInv
  <2>1. ShapesHold'
    BY DEF ShapesHold, RequestFine, OnceEach, Recorded
  <2>2. NobodyElsePays'
    BY DEF NobodyElsePays, PaidRow, PaidAsk
  <2>3. Apart'
    BY DEF Apart, InTransaction, Reach
  <2>4. AsksTrue'
    BY DEF AsksTrue, AskTrue, InTransaction, Reach
  <2>5. HistoryTrue'
    BY DEF HistoryTrue, Linked
  <2>6. KeysHome'
    <3>1. /\ \A s \in Scopes \ moved' : OwnKeyHome(live'[s])
          /\ \A v \in versions' : v.scope \notin moved' => OwnKeyHome(v.snapshot)
          /\ \A b \in Admins : KeyAsk(b, req'[b], moved')
      BY DEF KeysHome
    <3> QED
      BY <3>1 DEF KeysHome, KeyAsk, KeyJobs, KeyJob, OwnKeyHome
  <2>7. PagesTrue'
    BY DEF PagesTrue, PageTrue, InTransaction, Reach
  <2> QED
    BY <2>1, <2>2, <2>3, <2>4, <2>5, <2>6, <2>7
<1>2. CASE ConfigNext
  <2>1. PICK a \in Admins :
            \/ PutOrg(a) \/ PutAgent(a) \/ ApplyPreset(a) \/ ClearKey(a) \/ DeleteAgent(a)
            \/ PutPrices(a) \/ Import(a) \/ Rollback(a)
            \/ Begin(a) \/ Record(a) \/ Write(a) \/ Abort(a)
            \/ ReadVersions(a) \/ ReadLive(a)
    BY <1>2 DEF ConfigNext
  <2> QED
    BY <2>1, PutOrgKeeps, PutAgentKeeps, ApplyPresetKeeps, ClearKeyKeeps, DeleteAgentKeeps,
       PutPricesKeeps, ImportKeeps, RollbackKeeps, BeginKeeps, RecordKeeps, WriteKeeps,
       AbortKeeps, ReadVersionsKeeps, ReadLiveKeeps
<1> QED
  BY <1>1, <1>2

\* Whatever requests are at work on whatever scopes: rows and records have
\* their shape, transactions know the prior rows of the scopes they are alone
\* with, and the history of such a scope is a chain that ends in its live row.
THEOREM ConfigHolds == ConfigSpec => []ConfigInv
<1> QED
  BY ConfigInitHolds, ConfigStepKeeps, PTL DEF ConfigSpec

\* An export is accepted unless an env-keyed fallback's key stays behind, and
\* imported again gives every key it may back to the same provider.
LEMMA ExportsComeBack ==
    ASSUME NEW row \in HomeRow
    PROVE  LET back == Planned(Exported(row), TRUE)
               Same(new, old) == new.provider = old.provider /\
                                 (new.ref = old.ref \/ (new.ref = None /\ old.ref # Pointer)
                                  \/ (new.ref = None /\ old.provider \in Keyless))
           IN  /\ Acceptable(Exported(row)) <=>
                      \A i \in DOMAIN row.chain :
                          row.chain[i].provider \in EnvKeyed => row.chain[i].ref = Pointer
               /\ Same(back, row) /\ back.price = row.price
               /\ DOMAIN back.chain = DOMAIN row.chain
               /\ \A i \in DOMAIN back.chain : Same(back.chain[i], row.chain[i])
<1> DEFINE out  == Exported(row)
           back == Planned(out, TRUE)
<1>1. row \in Row
  BY DEF HomeRow
<1>2. /\ out.provider = row.provider /\ out.ref = Hint(row.ref) /\ out.price = row.price
      /\ out.chain = [i \in DOMAIN row.chain |-> [provider |-> row.chain[i].provider,
                                                  ref |-> Hint(row.chain[i].ref)]]
      /\ DOMAIN out = {"provider", "ref", "chain", "price"}
  BY <1>1 DEF Exported, EachKey, Row
<1> HIDE DEF out
<1>3. \A i \in DOMAIN row.chain : out.chain[i].provider = row.chain[i].provider
                                  /\ out.chain[i].ref = Hint(row.chain[i].ref)
  BY <1>2
<1>4. DOMAIN out.chain = DOMAIN row.chain
  BY <1>2
<1>5. /\ back.provider = out.provider /\ back.price = out.price
      /\ back.ref = IF out.provider \notin Keyless THEN out.ref ELSE None
      /\ back.chain = [i \in DOMAIN out.chain |->
             [provider |-> out.chain[i].provider,
              ref |-> IF out.chain[i].provider \notin Keyless THEN out.chain[i].ref ELSE None]]
  BY <1>2 DEF Planned, EachKey
<1> HIDE DEF back
<1>6. /\ DOMAIN back.chain = DOMAIN row.chain
      /\ \A i \in DOMAIN row.chain :
             /\ back.chain[i].provider = row.chain[i].provider
             /\ back.chain[i].ref = IF row.chain[i].provider \notin Keyless
                                    THEN Hint(row.chain[i].ref) ELSE None
  BY <1>3, <1>4, <1>5
<1>7. Acceptable(out) <=> PaidFor(back.chain)
  BY DEF Acceptable, back
<1>8. PaidFor(back.chain) <=>
          \A i \in DOMAIN row.chain :
              row.chain[i].provider \in EnvKeyed => row.chain[i].ref = Pointer
  <2>1. Pointer # None
    <3>1. Pointer \in Refs
      BY DEF Refs
    <3> QED
      BY <3>1, RowAssumption
  <2>2. ASSUME NEW i \in DOMAIN row.chain
        PROVE  Billed(back.chain[i]) = "operator" <=>
                   row.chain[i].provider \in EnvKeyed /\ row.chain[i].ref # Pointer
    <3>1. row.chain[i].provider \in EnvKeyed => row.chain[i].provider \notin Keyless
      OBVIOUS
    <3>2. /\ back.chain[i].provider = row.chain[i].provider
          /\ back.chain[i].ref = IF row.chain[i].provider \notin Keyless
                                 THEN Hint(row.chain[i].ref) ELSE None
      BY <1>6
    <3>3. Billed(back.chain[i]) = "operator" <=>
              back.chain[i].ref = None /\ back.chain[i].provider \in EnvKeyed
      BY DEF Billed
    <3>4. Hint(row.chain[i].ref) = None <=> row.chain[i].ref # Pointer
      BY <2>1 DEF Hint
    <3> QED
      BY <3>1, <3>2, <3>3, <3>4
  <2> QED
    BY <1>6, <2>2 DEF PaidFor
<1>9. /\ out.provider = row.provider /\ back.provider = row.provider /\ back.price = row.price
      /\ back.ref = row.ref \/ (back.ref = None /\ row.ref # Pointer)
             \/ (back.ref = None /\ row.provider \in Keyless)
  BY <1>2, <1>5 DEF Hint
<1>10. ASSUME NEW i \in DOMAIN back.chain
       PROVE  /\ back.chain[i].provider = row.chain[i].provider
              /\ \/ back.chain[i].ref = row.chain[i].ref
                 \/ back.chain[i].ref = None /\ row.chain[i].ref # Pointer
                 \/ back.chain[i].ref = None /\ row.chain[i].provider \in Keyless
  BY <1>6 DEF Hint
<1> QED
  BY <1>6, <1>7, <1>8, <1>9, <1>10 DEF out, back

LEMMA HomeFollows == ConfigInv => KeysStayHome
<1> SUFFICES ASSUME ConfigInv PROVE KeysStayHome
  OBVIOUS
<1>1. /\ live \in [Scopes -> Held] /\ versions \subseteq Version
      /\ \A v \in versions : v.at <= clock
      /\ req \in [Admins -> Asks] /\ \A a \in Admins : RequestFine(req[a])
      /\ clock \in 0..MaxRequests /\ overlapped \subseteq Scopes /\ lost \in BOOLEAN
      /\ moved \subseteq Scopes /\ NobodyElsePays /\ Org \in Scopes
  BY DEF ConfigInv, ShapesHold, Scopes
<1>2. ConfigTypeOK
  <2>1. \A s \in Scopes : live[s] = None \/ live[s] \in Row
    BY <1>1 DEF Held, HomeRow
  <2>2. \A v \in versions : v.at \in 0..MaxRequests /\ v.scope \in Scopes
    <3> TAKE v \in versions
    <3>1. v.at \in Nat /\ v.at <= clock /\ v.scope \in Scopes
      BY <1>1 DEF Version
    <3> QED
      BY <3>1, <1>1
  <2>3. ASSUME NEW a \in Admins
        PROVE  /\ req[a].pc \in {"idle", "begin", "record", "write", "list"}
               /\ \A i \in DOMAIN req[a].jobs : req[a].jobs[i].scope \in Scopes
               /\ \A v \in req[a].news : v.scope \in Scopes /\ v.at = req[a].at
               /\ req[a].locks \subseteq Scopes
    <3> DEFINE r == req[a]
    <3>1. r \in Asks /\ OnceEach(r)
      BY <1>1 DEF RequestFine
    <3> HIDE DEF r
    <3>2. /\ r.pc \in {"idle", "begin", "record", "write", "list"} /\ r.jobs \in Seq(Steps)
          /\ r.news \subseteq Version /\ r.locks \subseteq Scopes
      BY <3>1 DEF Asks
    <3>3. \A i \in DOMAIN r.jobs : r.jobs[i].scope \in Scopes
      BY <3>2 DEF Steps
    <3>4. \A v \in r.news : v.scope \in Scopes /\ v.at = r.at
      BY <3>1, <3>2 DEF OnceEach, Version
    <3> QED
      BY <3>2, <3>3, <3>4 DEF r
  <2> QED
    BY <2>1, <2>2, <2>3, <1>1 DEF ConfigTypeOK
<1>3. ChainKeysMatch
  <2>1. \A row \in Held : row # None =>
            \A i \in DOMAIN row.chain : AtHome(row.chain[i].provider, row.chain[i].ref)
    BY DEF Held, HomeRow
  <2>2. live[Org] \in Held /\ \A v \in versions : v.snapshot \in Held
    BY <1>1 DEF Version
  <2> QED
    BY <2>1, <2>2 DEF ChainKeysMatch
<1>4. OperatorPaysOnlyAfterLoss
  BY <1>1 DEF NobodyElsePays, PaidRow, OperatorPaysOnlyAfterLoss
<1>5. RoundTrip
  <2>1. live[Org] # None => live[Org] \in HomeRow
    BY <1>1 DEF Held
  <2> QED
    BY <2>1, ExportsComeBack DEF RoundTrip
<1>6. OwnKeysMatch
  BY DEF ConfigInv, KeysHome, OwnKeysMatch
<1> QED
  BY <1>2, <1>3, <1>4, <1>5, <1>6 DEF KeysStayHome

\* A fallback's key stays with its provider, a row's own too unless its
\* provider was changed under it, no fallback bills the operator unless a key
\* was lost, and an export comes back as it was but for typed keys, or is
\* refused for them, however saves, rollbacks and imports interleave
\* (record_version, the upserts, _build_chain, export_models, _plan_import).
THEOREM KeysStayHomeAlways == ConfigSpec => []KeysStayHome
<1> QED
  BY ConfigHolds, HomeFollows, PTL

LEMMA LeastAt ==
    ASSUME NEW G \in SUBSET Nat, G # {}
    PROVE  \E x \in G : \A y \in G : x <= y
<1>1. PICK x \in G : \A y \in G : ~(<<y, x>> \in OpToRel(<, Nat))
  BY NatLessThanWellFounded, WFMin
<1>2. \A y \in G : ~(y < x)
  BY <1>1 DEF OpToRel
<1> QED
  BY <1>2

\* What list_versions pairs a version with is what its change left behind,
\* unless a later one was committed between its two statements.
LEMMA TrueAfter ==
    ASSUME ConfigInv, NEW a \in Admins, NEW v \in req[a].page, v.scope \notin overlapped,
           ~Superseded(v, req[a].page)
    PROVE  AfterOf(v, req[a].page) = v.after
<1> DEFINE P == req[a].page
           G == NextNewer(v, P)
<1>1. P \in SUBSET Version /\ versions \subseteq Version
  BY DEF ConfigInv, ShapesHold, Asks
<1>2. v \in P /\ v.scope \in Scopes /\ v.at \in Nat /\ \A w \in P : w.at \in Nat
  BY <1>1 DEF Version
<1>3. PageTrue(P, v.scope)
  BY <1>2 DEF ConfigInv, PagesTrue
<1> HIDE DEF P
<1>4. CASE G = {}
  <2>1. \A w \in P : w.scope = v.scope => w.at <= v.at
    BY <1>2, <1>4 DEF NextNewer
  <2>2. v.after = live[v.scope] \/ \E w \in versions : w.scope = v.scope /\ w.at > v.at
    BY <2>1, <1>2, <1>3 DEF PageTrue
  <2>3. ~Superseded(v, P)
    BY DEF P
  <2>4. v.after = live[v.scope]
    BY <2>2, <2>3, <1>4 DEF Superseded
  <2> QED
    BY <2>4, <1>4 DEF AfterOf, P
<1>5. CASE G # {}
  <2> DEFINE next == CHOOSE w \in G : \A x \in G : w.at <= x.at
  <2>1. {w.at : w \in G} \in SUBSET Nat /\ {w.at : w \in G} # {}
    BY <1>2, <1>5 DEF NextNewer
  <2>2. PICK t \in {w.at : w \in G} : \A y \in {w.at : w \in G} : t <= y
    BY <2>1, LeastAt
  <2>3. \E w \in G : \A x \in G : w.at <= x.at
    BY <2>2
  <2>4. next \in G /\ \A x \in G : next.at <= x.at
    BY <2>3, Zenon
  <2>5. AfterOf(v, P) = next.snapshot
    BY <1>5 DEF AfterOf
  <2> HIDE DEF next
  <2>6. next \in P /\ next.scope = v.scope /\ v.at < next.at
    BY <2>4, <1>2 DEF NextNewer
  <2>7. \A x \in P : x.scope = v.scope => x.at <= v.at \/ next.at <= x.at
    BY <2>4, <1>2 DEF NextNewer
  <2>8. v.after = next.snapshot
    BY <2>6, <2>7, <1>2, <1>3 DEF PageTrue
  <2> QED
    BY <2>5, <2>8 DEF P
<1> QED
  BY <1>4, <1>5

\* The differences the console shows are the changes that were made, for every
\* scope no two transactions were open over at once and every version that no
\* commit between the two statements replaced as the latest: record_version's
\* retention takes the oldest only, and whichever handler changed the scope
\* recorded it first (list_versions, config_diff).
THEOREM DiffsAreTrueAlways == ConfigSpec => []DiffsAreTrue
<1>1. ConfigInv => DiffsAreTrue
  BY TrueAfter DEF DiffsAreTrue
<1> QED
  BY ConfigHolds, <1>1, PTL

-----------------------------------------------------------------------------
(* Keys and edits.                                                         *)

\* The upsert leaves the key of a row alone but for a request about it.
LEMMA WrittenKeepsKey ==
    ASSUME NEW job \in Steps, NEW row \in Held, row # None, Written(job, row) # None,
           Written(job, row).ref # row.ref,
           NEW a, job.do = "put" => job.new.ref \in {None, Typed(job.new.provider, a)}
    PROVE  \/ job.do \in {"clear", "restore"}
           \/ Written(job, row).ref = Typed(Written(job, row).provider, a)
<1>1. /\ row \in Row /\ job.do \in Edits
      /\ job.do = "put" => job.new \in Row
      /\ job.do = "prune" => job.new = None
  BY DEF Held, HomeRow, Steps
<1>2. CASE job.do = "put"
  <2> DEFINE ref == IF job.new.ref = None THEN row.ref ELSE job.new.ref
             new == [job.new EXCEPT !.ref = ref, !.price = row.price]
  <2>1. Written(job, row) = new
    BY <1>1, <1>2 DEF Written, Row
  <2>2. new.ref = ref /\ new.provider = job.new.provider
    <3> HIDE DEF ref
    <3> QED
      BY <1>1, <1>2 DEF Row
  <2> HIDE DEF new
  <2> QED
    BY <2>1, <2>2, <1>2
<1>3. CASE job.do = "preset"
  <2>1. Written(job, row) = [row EXCEPT !.provider = job.new.provider]
    BY <1>3 DEF Written
  <2> QED
    BY <2>1, <1>1 DEF Row
<1>4. CASE job.do = "price"
  <2>1. Written(job, row) = [row EXCEPT !.price = job.new.price]
    BY <1>4 DEF Written
  <2> QED
    BY <2>1, <1>1 DEF Row
<1>5. CASE job.do = "prune"
  BY <1>1, <1>5 DEF Written
<1> QED
  BY <1>1, <1>2, <1>3, <1>4, <1>5 DEF Edits

\* And the fallbacks, but for a save, which brings its own, and a whole row.
LEMMA WrittenChain ==
    ASSUME NEW job \in Steps, NEW row \in Held
    PROVE  \/ job.do = "restore"
           \/ FallbacksOf(Written(job, row)) = FallbacksOf(row)
           \/ FallbacksOf(Written(job, row)) = <<>>
           \/ job.do = "put" /\ FallbacksOf(Written(job, row)) = job.new.chain
           \/ job.do = "preset" /\ FallbacksOf(Written(job, row)) = job.new.chain /\ row = None
<1>1. /\ row # None => row \in Row
      /\ job.do \in Edits /\ (job.do \in {"put", "preset"} => job.new \in Row /\ job.new # None)
      /\ job.do = "prune" => job.new = None
  BY DEF Held, HomeRow, Steps
<1>2. CASE job.do = "put" /\ row # None
  <2> DEFINE ref == IF job.new.ref = None THEN row.ref ELSE job.new.ref
             new == [job.new EXCEPT !.ref = ref, !.price = row.price]
  <2>1. Written(job, row) = new
    BY <1>1, <1>2 DEF Written, Row
  <2>2. new.chain = job.new.chain /\ new \in Row
    <3>1. ref \in Refs \cup {None} /\ row.price \in BOOLEAN
      BY <1>1, <1>2, RowParts
    <3> HIDE DEF ref
    <3> QED
      BY <1>1, <1>2, <3>1 DEF Row
  <2> HIDE DEF new
  <2> QED
    BY <2>1, <2>2, <1>2, RowAssumption DEF FallbacksOf
<1>3. CASE job.do = "preset" /\ row # None
  <2> DEFINE new == [row EXCEPT !.provider = job.new.provider]
  <2>1. Written(job, row) = new
    BY <1>3 DEF Written
  <2>2. new \in Row /\ new.chain = row.chain
    BY <1>1, <1>3 DEF Row
  <2> HIDE DEF new
  <2> QED
    BY <2>1, <2>2, <1>3, RowAssumption DEF FallbacksOf
<1>4. CASE job.do = "price" /\ row # None
  <2> DEFINE new == [row EXCEPT !.price = job.new.price]
  <2>1. Written(job, row) = new /\ new.chain = row.chain
    BY <1>1, <1>4 DEF Written, Row
  <2> HIDE DEF new
  <2> QED
    BY <2>1, <1>4 DEF FallbacksOf
<1>5. CASE job.do = "clear" /\ row # None
  <2> DEFINE new == [row EXCEPT !.ref = None]
  <2>1. Written(job, row) = new /\ new.chain = row.chain
    BY <1>1, <1>5 DEF Written, Row
  <2> HIDE DEF new
  <2> QED
    BY <2>1, <1>5 DEF FallbacksOf
<1>6. CASE job.do \in {"clear", "price"} /\ row = None
  BY <1>6 DEF Written
<1>7. CASE job.do = "put" /\ row = None
  BY <1>1, <1>7 DEF Written, FallbacksOf
<1>8. CASE job.do = "preset" /\ row = None
  BY <1>1, <1>8 DEF Written, FallbacksOf
<1>9. CASE job.do = "prune"
  BY <1>1, <1>9 DEF Written, FallbacksOf
<1> QED
  BY <1>1, <1>2, <1>3, <1>4, <1>5, <1>6, <1>7, <1>8, <1>9 DEF Edits

\* What changes a row is the last write of a transaction, or the end of one
\* that passes over its last scope.
LEMMA WhoChanges ==
    ASSUME ConfigInv, ConfigNext, live' # live
    PROVE  \E a \in Admins :
               /\ req[a].jobs # <<>> /\ req[a] \in Asks /\ req'[a] = NoRequest
               /\ KeyAsk(a, req[a], moved)
               /\ \A s \in Scopes :
                      \/ s \in req[a].locks
                      \/ live'[s] = live[s]
                      \/ /\ s = Head(req[a].jobs).scope
                         /\ live'[s] = Written(Head(req[a].jobs), live[s])
<1>1. PICK a \in Admins : Record(a) \/ Write(a)
  BY DEF ConfigNext, PutOrg, PutAgent, ApplyPreset, ClearKey, DeleteAgent, PutPrices,
     Import, Rollback, Request, Begin, Abort, ReadVersions, ReadLive
<1>2. /\ live \in [Scopes -> Held] /\ req \in [Admins -> Asks] /\ RequestFine(req[a])
      /\ KeyAsk(a, req[a], moved)
  BY DEF ConfigInv, ShapesHold, KeysHome
<1>3. req[a].pc \in {"record", "write"} /\ req[a].jobs # <<>> /\ req[a] \in Asks
  BY <1>1, <1>2 DEF Record, Write, RequestFine
<1>4. CASE Record(a)
  <2>1. /\ live' = [t \in Scopes |-> IF t \in req[a].locks THEN req[a].rows[t] ELSE live[t]]
        /\ req' = [req EXCEPT ![a] = NoRequest]
    BY <1>4, Zenon DEF Record
  <2>2. req'[a] = NoRequest
    BY <2>1, <1>2
  <2>3. \A s \in Scopes : s \in req[a].locks \/ live'[s] = live[s]
    BY <2>1
  <2> QED
    BY <2>2, <2>3, <1>2, <1>3
<1>5. CASE Write(a)
  <2> DEFINE r    == req[a]
             job  == Head(r.jobs)
             rows == [r.rows EXCEPT ![job.scope] = Written(job, live[job.scope])]
  <2>1. /\ live' = [t \in Scopes |-> IF t \in r.locks \cup {job.scope} THEN rows[t] ELSE live[t]]
        /\ req' = [req EXCEPT ![a] = NoRequest]
    BY <1>5, Zenon DEF Write
  <2>2. r.rows \in [Scopes -> Held] /\ job.scope \in Scopes
    BY <1>3, FirstJob DEF Asks
  <2>3. req'[a] = NoRequest
    BY <2>1, <1>2
  <2>4. ASSUME NEW s \in Scopes
        PROVE  \/ s \in r.locks
               \/ live'[s] = live[s]
               \/ s = job.scope /\ live'[s] = Written(job, live[s])
    <3>1. CASE s = job.scope
      BY <3>1, <2>1, <2>2
    <3>2. CASE s # job.scope
      BY <3>2, <2>1, <2>2
    <3> QED
      BY <3>1, <3>2
  <2> QED
    BY <2>3, <2>4, <1>2, <1>3
<1> QED
  BY <1>1, <1>4, <1>5

LEMMA StepKeepsKeys ==
    ConfigInv /\ [ConfigNext]_configVars => [OwnKeysKept /\ FallbackKeysKept]_configVars
<1> SUFFICES ASSUME ConfigInv, ConfigNext PROVE OwnKeysKept /\ FallbackKeysKept
  OBVIOUS
<1>1. CASE live' = live
  BY <1>1 DEF OwnKeysKept, FallbackKeysKept
<1>2. CASE live' # live
  <2>1. PICK a \in Admins :
            /\ req[a].jobs # <<>> /\ req[a] \in Asks /\ req'[a] = NoRequest
            /\ KeyAsk(a, req[a], moved)
            /\ \A s \in Scopes :
                   \/ s \in req[a].locks
                   \/ live'[s] = live[s]
                   \/ /\ s = Head(req[a].jobs).scope
                      /\ live'[s] = Written(Head(req[a].jobs), live[s])
    BY <1>2, WhoChanges
  <2> DEFINE job == Head(req[a].jobs)
             seen == req[a].seen
  <2>2. live \in [Scopes -> Held] /\ Org \in Scopes
    BY DEF ConfigInv, ShapesHold, Scopes
  <2>3. job \in Steps /\ KeyJob(a, job, seen, moved)
    <3>1. 1 \in DOMAIN req[a].jobs /\ Head(req[a].jobs) = req[a].jobs[1] /\ Head(req[a].jobs) \in Steps
      BY <2>1, FirstJob
    <3> QED
      BY <3>1, <2>1 DEF KeyAsk, KeyJobs
  <2>4. \A s \in Scopes : \/ s \in req[a].locks
                          \/ live'[s] = live[s]
                          \/ s = job.scope /\ live'[s] = Written(job, live[s])
    BY <2>1
  <2> HIDE DEF job, seen
  <2>5. OwnKeysKept
    <3> SUFFICES ASSUME NEW s \in Scopes, live[s] # None, live'[s] # None,
                        live[s].ref # live'[s].ref
                 PROVE  \/ s \in req[a].locks
                        \/ Head(req[a].jobs).do \in {"clear", "restore"}
                        \/ live'[s].ref = Typed(live'[s].provider, a)
      BY <2>1, Zenon DEF OwnKeysKept
    <3>1. CASE s \in req[a].locks
      BY <3>1
    <3>2. CASE live'[s] = Written(job, live[s])
      <4>1. job.do = "put" => job.new.ref \in {None, Typed(job.new.provider, a)}
        BY <2>3 DEF KeyJob
      <4>2. \/ job.do \in {"clear", "restore"}
            \/ Written(job, live[s]).ref = Typed(Written(job, live[s]).provider, a)
        BY <3>2, <4>1, <2>2, <2>3, WrittenKeepsKey
      <4> QED
        BY <4>2, <3>2 DEF job
    <3> QED
      BY <2>4, <3>1, <3>2
  <2>6. FallbackKeysKept
    <3> DEFINE old == FallbacksOf(live[Org])
               new == FallbacksOf(live'[Org])
    <3> SUFFICES ASSUME NEW i \in DOMAIN old \cap DOMAIN new,
                        old[i].provider = new[i].provider, old[i].ref # new[i].ref
                 PROVE  \/ Org \in req[a].locks
                        \/ Head(req[a].jobs).do = "restore"
                        \/ new[i].ref = Typed(new[i].provider, a)
                        \/ req[a].seen # old
      BY <2>1, Zenon DEF FallbackKeysKept
    <3>1. CASE Org \in req[a].locks
      BY <3>1
    <3>2. CASE live'[Org] = live[Org]
      BY <3>2
    <3>3. CASE Org = job.scope /\ live'[Org] = Written(job, live[Org])
      <4>1. \/ job.do = "restore"
            \/ FallbacksOf(Written(job, live[Org])) = FallbacksOf(live[Org])
            \/ FallbacksOf(Written(job, live[Org])) = <<>>
            \/ job.do = "put" /\ FallbacksOf(Written(job, live[Org])) = job.new.chain
            \/ live[Org] = None
        BY <2>2, <2>3, WrittenChain
      <4>2. CASE job.do = "restore"
        BY <4>2 DEF job
      <4>3. CASE FallbacksOf(Written(job, live[Org])) = FallbacksOf(live[Org])
        BY <4>3, <3>3
      <4>4. CASE FallbacksOf(Written(job, live[Org])) = <<>>
        <5>1. DOMAIN new = {}
          BY <4>4, <3>3
        <5> QED
          BY <5>1
      <4>5. CASE live[Org] = None
        <5>1. DOMAIN old = {}
          BY <4>5 DEF FallbacksOf
        <5> QED
          BY <5>1
      <4>6. CASE job.do = "put" /\ new = job.new.chain
        <5>1. CASE seen # old
          BY <5>1 DEF seen
        <5>2. CASE seen = old
          <6>1. \A k \in DOMAIN job.new.chain \cap DOMAIN seen :
                    job.new.chain[k].provider = seen[k].provider =>
                        job.new.chain[k].ref \in {seen[k].ref, Typed(job.new.chain[k].provider, a)}
            BY <2>3, <3>3, <4>6 DEF KeyJob
          <6>2. \A k \in DOMAIN new \cap DOMAIN old :
                    new[k].provider = old[k].provider =>
                        new[k].ref \in {old[k].ref, Typed(new[k].provider, a)}
            BY <6>1, <5>2, <4>6
          <6> QED
            BY <6>2
        <5> QED
          BY <5>1, <5>2
      <4> QED
        BY <4>1, <4>2, <4>3, <4>4, <4>5, <4>6, <3>3
    <3> QED
      BY <2>2, <2>4, <3>1, <3>2, <3>3
  <2> QED
    BY <2>5, <2>6
<1> QED
  BY <1>1, <1>2

\* A row's own key changes only for a request that types one in for the
\* provider it names, removes it or puts back a whole row; a fallback's under
\* the same provider only for one that types it in, puts back a whole row or
\* was built on a chain replaced since (the upserts of set_org_default,
\* apply_preset, put_overrides and import_models, _build_chain).
THEOREM EditsKeepKeysAlways == ConfigSpec => EditsKeepKeys
<1> QED
  BY ConfigHolds, StepKeepsKeys, PTL DEF ConfigSpec, EditsKeepKeys
=============================================================================

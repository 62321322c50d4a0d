----------------------------- MODULE Clickstream -----------------------------
(***************************************************************************)
(* The clickstream of one engine process and the budget alerts computed on *)
(* its drain path: threads of the process put events into a bounded queue, *)
(* a drain thread takes batches, writes them to the sink, and compares the *)
(* month's spend of the organization with its budget.  Other processes do  *)
(* the same to the same tables; what they do there is AnotherWorker.       *)
(* One organization.  Every spend event is one unit.                       *)
(***************************************************************************)
EXTENDS Integers, Sequences, FiniteSetsExt, SequencesExt, Nothing

CONSTANTS
    Emitters,    \* threads of the process that emit
    Cap,         \* max_queue
    BatchMax,    \* 200
    Sinks,       \* subset of {"postgres", "stream"}: the stream is jsonl or firehose
    Budgets,     \* records [limit, pcts] an admin may set
    Interval,    \* _CHECK_INTERVAL_S in ticks
    MaxSpend,    \* bound: the sum of a month saturates
    MaxMonth     \* bound on months

ASSUME ClickstreamAssumption ==
    /\ {Cap, BatchMax, Interval, MaxMonth} \subseteq Nat \ {0}
    /\ MaxSpend \in Nat
    /\ \A b \in Budgets : b.limit \in Nat \ {0} /\ b.pcts \subseteq Nat
    /\ Sinks \subseteq {"postgres", "stream"}

VARIABLES
    sink,     \* clickstream_sink
    queue,    \* ClickstreamEmitter._q
    putter,   \* the call of emit_envelope in each thread
    drain,    \* the drain thread
    since,    \* ticks since _last_check of the organization
    month,    \* the calendar
    spend,    \* of each month, in the events table
    budget,   \* the org_budgets row
    ledger,   \* org_budget_alerts: <<month, pct>>
    sent,     \* ghost: how often budget.threshold was emitted for each
    ever      \* ghost: budgets that have been in force

vars == <<sink, queue, putter, drain, since, month, spend, budget, ledger, sent, ever>>
tables == <<spend, budget, ledger>>
ghosts == <<sent, ever>>

-----------------------------------------------------------------------------
Months == 1 .. MaxMonth
Pcts   == UNION {b.pcts : b \in Budgets}
Alerts == Months \X Pcts

\* A spend event is the month of its timestamp; 0 is a budget.threshold event.
Events  == 0 .. MaxMonth
Threads == Emitters \cup {"drain"}

Free     == [pc |-> "idle", event |-> None]
Waiting  == [pc |-> "get", batch |-> <<>>, of |-> None, alerts |-> {}]
Queued(e) == queue' = Append(queue, e)

Init ==
    /\ sink \in Sinks
    /\ queue = <<>>
    /\ putter = [x \in Threads |-> Free]
    /\ drain = Waiting
    /\ since = Interval
    /\ month = 1
    /\ spend = [m \in Months |-> 0]
    /\ budget \in Budgets \cup {None}
    /\ ledger = {}
    /\ sent = [a \in Alerts |-> 0]
    /\ ever = {budget} \ {None}

-----------------------------------------------------------------------------
(* emit_envelope: put, and if the queue is full take the oldest event out  *)
(* and put once more.                                                      *)

\* Whoever was about to put again has been overtaken.
Overtaking(x, p) ==
    [y \in Threads |-> IF y # x /\ p[y].pc = "again" THEN [p[y] EXCEPT !.pc = "beaten"] ELSE p[y]]

\* One attempt of thread x to put e; `after` is where it goes on if that fails.
Put(x, e, after) ==
    IF Len(queue) < Cap
    THEN /\ Queued(e)
         /\ putter' = Overtaking(x, [putter EXCEPT ![x] = Free])
    ELSE /\ putter' = [putter EXCEPT ![x] = [pc |-> after, event |-> e]]
         /\ UNCHANGED queue

Emit(x) ==
    /\ x \in Emitters /\ putter[x].pc = "idle"
    /\ Put(x, month, "full")
    /\ UNCHANGED <<sink, drain, since, month, tables, ghosts>>

\* Mutant: nothing is taken out.
DropOldest_Not(x) ==
    /\ putter[x].pc = "full"
    /\ putter' = [putter EXCEPT ![x].pc = "again"]
    /\ UNCHANGED <<sink, queue, drain, since, month, tables, ghosts>>

\* get_nowait, from whatever the queue holds by now.
DropOldest(x) ==
    /\ putter[x].pc = "full"
    /\ queue' = IF queue = <<>> THEN queue ELSE Tail(queue)
    /\ putter' = [putter EXCEPT ![x].pc = "again"]
    /\ UNCHANGED <<sink, drain, since, month, tables, ghosts>>

\* Mutant: the second attempt does not look.
PutAgain_Blindly(x) ==
    /\ putter[x].pc \in {"again", "beaten"}
    /\ Queued(putter[x].event)
    /\ putter' = Overtaking(x, [putter EXCEPT ![x] = Free])
    /\ UNCHANGED <<sink, drain, since, month, tables, ghosts>>

\* The queue may have filled again: then the event itself is given up.
PutAgain(x) ==
    /\ putter[x].pc \in {"again", "beaten"}
    /\ IF Len(queue) < Cap
       THEN /\ Queued(putter[x].event)
            /\ putter' = Overtaking(x, [putter EXCEPT ![x] = Free])
       ELSE /\ putter' = [putter EXCEPT ![x] = Free]
            /\ UNCHANGED queue
    /\ UNCHANGED <<sink, drain, since, month, tables, ghosts>>

-----------------------------------------------------------------------------
(* _drain                                                                  *)

Take ==
    /\ drain.pc = "get" /\ queue # <<>>
    /\ LET n == Min({Len(queue), BatchMax}) IN
       /\ drain' = [drain EXCEPT !.pc = "write", !.batch = SubSeq(queue, 1, n)]
       /\ queue' = SubSeq(queue, n + 1, Len(queue))
    /\ UNCHANGED <<sink, putter, since, month, tables, ghosts>>

CountIn(m, batch) == Cardinality({i \in DOMAIN batch : batch[i] = m})
Land(batch) == [m \in Months |-> Min({MaxSpend, spend[m] + CountIn(m, batch)})]

\* The Postgres sink writes the whole batch in one transaction, the others
\* write it where no budget looks.
Write ==
    /\ drain.pc = "write"
    /\ spend' = IF sink = "postgres" THEN Land(drain.batch) ELSE spend
    /\ drain' = [drain EXCEPT !.pc = "check"]
    /\ UNCHANGED <<sink, queue, putter, since, month, budget, ledger, ghosts>>

\* A failed write loses the batch and is only logged.
WriteFails ==
    /\ drain.pc = "write"
    /\ drain' = [drain EXCEPT !.pc = "check"]
    /\ UNCHANGED <<sink, queue, putter, since, month, tables, ghosts>>

-----------------------------------------------------------------------------
(* check_budgets and _evaluate                                             *)

Spending(batch) == \E i \in DOMAIN batch : batch[i] # 0

\* At most one evaluation per interval; the month is fixed before anything is
\* read.
Check ==
    /\ drain.pc = "check"
    /\ IF Spending(drain.batch) /\ since = Interval
       THEN /\ since' = 0
            /\ drain' = [Waiting EXCEPT !.pc = "evaluate", !.of = month]
       ELSE /\ drain' = Waiting
            /\ UNCHANGED since
    /\ UNCHANGED <<sink, queue, putter, month, tables, ghosts>>

\* Everything from the first of month m on counts.
SpentSince(m) ==
    LET upto[k \in 0 .. MaxMonth] ==
            IF k = 0 THEN 0 ELSE upto[k - 1] + (IF k >= m THEN spend[k] ELSE 0)
    IN upto[MaxMonth]

\* Mutant: the threshold is taken for crossed one unit early.
thresholds_crossed_Early(m) ==
    IF budget = None THEN {}
    ELSE {p \in budget.pcts : /\ <<m, p>> \notin ledger
                              /\ 100 * (SpentSince(m) + 1) >= budget.limit * p}

\* Mutant: a threshold is crossed only when it is exceeded.
thresholds_crossed_Above(m) ==
    IF budget = None THEN {}
    ELSE {p \in budget.pcts : <<m, p>> \notin ledger /\ 100 * SpentSince(m) > budget.limit * p}

thresholds_crossed(m) ==
    IF budget = None THEN {}
    ELSE {p \in budget.pcts : <<m, p>> \notin ledger /\ 100 * SpentSince(m) >= budget.limit * p}

Evaluate ==
    /\ drain.pc = "evaluate"
    /\ LET crossed == {<<drain.of, p>> : p \in thresholds_crossed(drain.of)} IN
       drain' = IF crossed = {} THEN Waiting
                ELSE [drain EXCEPT !.pc = "record", !.alerts = crossed]
    /\ UNCHANGED <<sink, queue, putter, since, month, tables, ghosts>>

\* Mutant: every threshold that was crossed is reported, whoever recorded it.
Record_All ==
    /\ drain.pc = "record"
    /\ ledger' = ledger \cup drain.alerts
    /\ drain' = [drain EXCEPT !.pc = "report"]
    /\ UNCHANGED <<sink, queue, putter, since, month, spend, budget, ghosts>>

\* insert .. on conflict do nothing returning, and the commit: what was in the
\* ledger by then is somebody else's to report.
Record ==
    /\ drain.pc = "record"
    /\ ledger' = ledger \cup drain.alerts
    /\ drain' = IF drain.alerts \subseteq ledger THEN Waiting
                ELSE [drain EXCEPT !.pc = "report", !.alerts = @ \ ledger]
    /\ UNCHANGED <<sink, queue, putter, since, month, spend, budget, ghosts>>

\* The database fails before the commit: nothing is recorded, and nothing is
\* tried again before the interval has passed.
EvaluateFails ==
    /\ drain.pc \in {"evaluate", "record"}
    /\ drain' = Waiting
    /\ UNCHANGED <<sink, queue, putter, since, month, tables, ghosts>>

\* The drain thread emits to its own queue, one event after the other.
Report ==
    /\ drain.pc = "report" /\ putter["drain"].pc = "idle"
    /\ IF drain.alerts = {}
       THEN drain' = Waiting /\ UNCHANGED <<queue, putter, sent>>
       ELSE \E a \in drain.alerts :
                /\ \A b \in drain.alerts : a[2] <= b[2]
                /\ Put("drain", 0, "full")
                /\ sent' = [sent EXCEPT ![a] = Min({2, @ + 1})]
                /\ drain' = [drain EXCEPT !.alerts = @ \ {a}]
    /\ UNCHANGED <<sink, since, month, tables, ever>>

-----------------------------------------------------------------------------
\* Another worker's batch lands, or its evaluation records and reports thresholds.
\* (That it may die in between is Restart, seen from here.)
AnotherWorker ==
    /\ sink = "postgres"
    /\ \/ spend' = Land(<<month>>) /\ UNCHANGED <<ledger, sent>>
       \/ LET mine == {<<month, p>> : p \in thresholds_crossed(month)} IN
          /\ mine # {}
          /\ ledger' = ledger \cup mine
          /\ sent' = [a \in Alerts |-> IF a \in mine THEN Min({2, sent[a] + 1}) ELSE sent[a]]
          /\ UNCHANGED spend
    /\ UNCHANGED <<sink, queue, putter, drain, since, month, budget, ever>>

put_budget ==
    /\ \E b \in Budgets \ {budget} : budget' = b /\ ever' = ever \cup {b}
    /\ UNCHANGED <<sink, queue, putter, drain, since, month, spend, ledger, sent>>

Tick ==
    /\ since < Interval
    /\ since' = since + 1
    /\ UNCHANGED <<sink, queue, putter, drain, month, tables, ghosts>>

NextMonth ==
    /\ month < MaxMonth
    /\ month' = month + 1
    /\ UNCHANGED <<sink, queue, putter, drain, since, tables, ghosts>>

\* What is in the queue, in a batch or about to be reported goes with the process.
Restart ==
    /\ queue' = <<>>
    /\ putter' = [x \in Threads |-> Free]
    /\ drain' = Waiting
    /\ since' = Interval
    /\ UNCHANGED <<sink, month, tables, ghosts>>

emit_envelope(x) == Emit(x) \/ DropOldest(x) \/ PutAgain(x)

Next ==
    \/ Take \/ Write \/ WriteFails \/ Check \/ Evaluate \/ Record \/ EvaluateFails \/ Report
    \/ \E x \in Threads : emit_envelope(x)
    \/ AnotherWorker \/ put_budget \/ Tick \/ NextMonth \/ Restart

\* Threads run and time passes, the organization keeps spending, the drain
\* thread is not kept from the queue's lock for ever, and neither the sink nor
\* the database fails for ever.
Fairness ==
    /\ \A x \in Threads : WF_vars(emit_envelope(x))
    /\ WF_vars(Report) /\ WF_vars(Tick)
    /\ SF_vars(Take) /\ SF_vars(Write) /\ SF_vars(Check) /\ SF_vars(Evaluate) /\ SF_vars(Record)

Spec == Init /\ [][Next]_vars /\ Fairness

-----------------------------------------------------------------------------
TypeOK ==
    /\ sink \in Sinks /\ month \in Months /\ since \in 0 .. Interval
    /\ Len(queue) <= Cap /\ \A i \in DOMAIN queue : queue[i] \in Events
    /\ \A x \in Threads :
           /\ putter[x].pc \in {"idle", "full", "again", "beaten"}
           /\ putter[x].event \in Events \cup {None}
    /\ drain.pc \in {"get", "write", "check", "evaluate", "record", "report"}
    /\ Len(drain.batch) <= BatchMax
    /\ drain.of \in Months \cup {None} /\ drain.alerts \subseteq Alerts
    /\ spend \in [Months -> 0 .. MaxSpend]
    /\ budget \in Budgets \cup {None} /\ ever \subseteq Budgets
    /\ ledger \subseteq Alerts /\ sent \in [Alerts -> 0 .. 2]

\* However many workers evaluate at a time, and whichever of them dies, a
\* threshold is reported at most once a month, and not before it is recorded.
AlertedOnce == \A a \in Alerts : sent[a] <= (IF a \in ledger THEN 1 ELSE 0)

\* A recorded alert was earned: under some budget that has been in force the
\* spend since the first of its month reaches the threshold.
AlertsAreTrue ==
    \A a \in ledger : \E b \in ever : a[2] \in b.pcts /\ 100 * SpentSince(a[1]) >= b.limit * a[2]

\* No alert without the spend that earns it.
AlertsAreEarned == TypeOK /\ AlertsAreTrue

\* Under overload it is the oldest event that goes: a thread gives up its own
\* only if another one has put an event since it made room (or the process dies).
OldestGoFirst ==
    [][\A x \in Threads :
           (putter[x].pc = "again" /\ putter'[x].pc = "idle") =>
               queue' \in {Append(queue, putter[x].event), <<>>}]_vars

\* While an organization keeps spending no threshold stays crossed without
\* being recorded, over failures of the sink and the database, lost batches,
\* skipped checks and restarts.
Unrecorded(p) ==
    /\ budget # None /\ p \in budget.pcts /\ 100 * SpentSince(month) >= budget.limit * p
    /\ <<month, p>> \notin ledger
CrossingsAreRecorded == \A p \in Pcts : []<>~Unrecorded(p)
=============================================================================

---------------------------- MODULE RecordsProofs -----------------------------
(***************************************************************************)
(* The records of the engine.  The clickstream, for any number of emitting *)
(* threads, any queue, any budgets and months, whatever the other workers  *)
(* do and whenever a process dies: a budget threshold is reported at most  *)
(* once a month; it is recorded only when its month's spend earned it; and *)
(* a thread that has made room in the full queue is not the one whose      *)
(* event is lost.  And the tasks and transcripts of the projects, for any  *)
(* number of turns, imports and branches: plans are whole, waits declared, *)
(* ids shared only after an overlap, transcripts in order.                 *)
(***************************************************************************)
EXTENDS Clickstream, Stores, SequenceTheorems, FiniteSetTheorems, WellFoundedInduction, TLAPS

\* Not inductive by itself: what the drain thread is about to report it has
\* recorded itself and not reported yet, and nobody else can.
DrainIsRecord ==
    drain = [pc |-> drain.pc, batch |-> drain.batch, of |-> drain.of, alerts |-> drain.alerts]

ReportsAreItsOwn ==
    drain.pc = "report" => \A a \in drain.alerts \cap Alerts : a \in ledger /\ sent[a] = 0

OnceInv ==
    /\ DrainIsRecord
    /\ sent \in [Alerts -> 0 .. 2]
    /\ AlertedOnce
    /\ ReportsAreItsOwn

\* What the model's saturating counter does to a threshold never reported.
LEMMA FirstIsOne == \A n \in 0 .. 2 : Min({2, n + 1}) \in 0 .. 2 /\ (n = 0 => Min({2, n + 1}) = 1)
<1> SUFFICES ASSUME NEW n \in 0 .. 2
             PROVE  Min({2, n + 1}) \in 0 .. 2 /\ (n = 0 => Min({2, n + 1}) = 1)
  OBVIOUS
<1>1. Min({2, n + 1}) \in {2, n + 1} /\ \A y \in {2, n + 1} : Min({2, n + 1}) =< y
  <2>1. \E x \in {2, n + 1} : \A y \in {2, n + 1} : x =< y
    <3>1. CASE n = 2  BY <3>1
    <3>2. CASE n # 2
      <4>1. n + 1 =< 2 BY <3>2
      <4> QED BY <4>1
    <3> QED BY <3>1, <3>2
  <2> QED BY <2>1, Zenon DEF Min
<1> QED BY <1>1

\* A drain thread that is not about to report has nothing to keep.
LEMMA Quiet ==
    ASSUME OnceInv, UNCHANGED <<ledger, sent>>, NEW m, NEW S,
           \/ drain' = Waiting
           \/ drain' = [Waiting EXCEPT !.pc = "evaluate", !.of = m]
           \/ drain' = [drain EXCEPT !.pc = "record", !.alerts = S]
    PROVE  OnceInv'
<1>1. DrainIsRecord' /\ drain'.pc # "report"
  <2>1. CASE drain' = Waiting
    BY <2>1 DEF Waiting, DrainIsRecord
  <2>2. CASE drain' = [Waiting EXCEPT !.pc = "evaluate", !.of = m]
    <3>1. drain' = [pc |-> "evaluate", batch |-> <<>>, of |-> m, alerts |-> {}]
      BY <2>2 DEF Waiting
    <3> QED BY <3>1 DEF DrainIsRecord
  <2>3. CASE drain' = [drain EXCEPT !.pc = "record", !.alerts = S]
    <3>1. drain' = [pc |-> "record", batch |-> drain.batch, of |-> drain.of, alerts |-> S]
      BY <2>3 DEF OnceInv, DrainIsRecord
    <3> QED BY <3>1 DEF DrainIsRecord
  <2> QED BY <2>1, <2>2, <2>3
<1> QED BY <1>1 DEF OnceInv, AlertedOnce, ReportsAreItsOwn

LEMMA OnceInit == Init => OnceInv
BY DEF Init, OnceInv, DrainIsRecord, AlertedOnce, ReportsAreItsOwn, Waiting

LEMMA OnceNext == OnceInv /\ [Next]_vars => OnceInv'
<1> SUFFICES ASSUME OnceInv, [Next]_vars PROVE OnceInv'
  OBVIOUS
<1> USE DEF OnceInv, DrainIsRecord, AlertedOnce, ReportsAreItsOwn
<1>1. CASE Take
  BY <1>1 DEF Take, tables, ghosts
<1>2. CASE Write
  BY <1>2 DEF Write, ghosts
<1>3. CASE WriteFails
  BY <1>3 DEF WriteFails, tables, ghosts
<1>4. CASE Check
  <2>1. drain' = Waiting \/ drain' = [Waiting EXCEPT !.pc = "evaluate", !.of = month]
    BY <1>4 DEF Check
  <2>2. UNCHANGED <<ledger, sent>>
    BY <1>4 DEF Check, tables, ghosts
  <2> QED BY <2>1, <2>2, Quiet
<1>5. CASE Evaluate
  <2>1. drain' = Waiting \/ \E S : drain' = [drain EXCEPT !.pc = "record", !.alerts = S]
    BY <1>5 DEF Evaluate
  <2>2. UNCHANGED <<ledger, sent>>
    BY <1>5 DEF Evaluate, tables, ghosts
  <2> QED BY <2>1, <2>2, Quiet
<1>6. CASE Record
  <2>1. sent' = sent /\ ledger' = ledger \cup drain.alerts
    BY <1>6 DEF Record, ghosts
  <2>2. AlertedOnce'
    BY <2>1
  <2>3. CASE drain' = Waiting
    BY <2>1, <2>2, <2>3 DEF Waiting
  <2>4. CASE drain' = [drain EXCEPT !.pc = "report", !.alerts = @ \ ledger]
    <3>1. drain'.alerts = drain.alerts \ ledger
      BY <2>4
    <3>2. \A a \in drain'.alerts \cap Alerts : a \in ledger' /\ sent'[a] = 0
      BY <2>1, <3>1
    <3> QED BY <2>1, <2>2, <2>4, <3>2
  <2> QED BY <1>6, <2>3, <2>4 DEF Record
<1>7. CASE EvaluateFails
  BY <1>7 DEF EvaluateFails, Waiting, tables, ghosts
<1>8. CASE Report
  <2>1. ledger' = ledger
    BY <1>8 DEF Report, tables
  <2>2. CASE drain.alerts = {}
    BY <1>8, <2>1, <2>2 DEF Report, Waiting
  <2>3. CASE drain.alerts # {}
    <3>1. PICK a \in drain.alerts :
              /\ sent' = [sent EXCEPT ![a] = Min({2, @ + 1})]
              /\ drain' = [drain EXCEPT !.alerts = @ \ {a}]
      BY <1>8, <2>3 DEF Report
    <3>2. drain.pc = "report"
      BY <1>8 DEF Report
    <3>3. CASE a \in Alerts
      <4>1. a \in ledger /\ sent[a] = 0
        BY <3>2, <3>3
      <4>2. sent' = [sent EXCEPT ![a] = 1]
        BY <3>1, <3>3, <4>1, FirstIsOne
      <4>3. drain'.alerts = drain.alerts \ {a} /\ drain'.pc = "report"
        BY <3>1, <3>2
      <4>4. AlertedOnce' /\ sent' \in [Alerts -> 0 .. 2]
        <5>1. \A b \in Alerts : sent'[b] = IF b = a THEN 1 ELSE sent[b]
          BY <4>2
        <5>2. sent' = [b \in Alerts |-> IF b = a THEN 1 ELSE sent[b]]
          BY <4>2
        <5>3. \A b \in Alerts : (IF b = a THEN 1 ELSE sent[b]) \in 0 .. 2
          OBVIOUS
        <5>4. sent' \in [Alerts -> 0 .. 2]
          BY <5>2, <5>3
        <5> QED BY <2>1, <4>1, <5>1, <5>4
      <4>5. \A b \in drain'.alerts \cap Alerts : b \in ledger' /\ sent'[b] = 0
        BY <2>1, <3>2, <4>2, <4>3
      <4> QED BY <3>1, <4>4, <4>5
    <3>4. CASE a \notin Alerts
      <4>1. sent' = sent
        BY <3>1, <3>4
      <4> QED BY <2>1, <3>1, <3>2, <4>1
    <3> QED BY <3>3, <3>4
  <2> QED BY <2>2, <2>3
<1>9. CASE \E x \in Threads : emit_envelope(x)
  BY <1>9 DEF emit_envelope, Emit, DropOldest, PutAgain, tables, ghosts
<1>10. CASE AnotherWorker
  <2> DEFINE mine == {<<month, p>> : p \in thresholds_crossed(month)}
  <2>1. drain' = drain
    BY <1>10 DEF AnotherWorker
  <2>2. CASE UNCHANGED <<ledger, sent>>
    BY <2>1, <2>2
  <2>3. CASE /\ ledger' = ledger \cup mine
             /\ sent' = [a \in Alerts |-> IF a \in mine THEN Min({2, sent[a] + 1}) ELSE sent[a]]
    <3>1. \A a \in mine : a \notin ledger
      BY DEF thresholds_crossed
    <3>2. \A a \in Alerts : a \in mine => sent[a] = 0 /\ sent'[a] = 1
      BY <2>3, <3>1, FirstIsOne
    <3>3. \A a \in Alerts : a \notin mine => sent'[a] = sent[a]
      BY <2>3
    <3> HIDE DEF mine
    <3>4. sent' \in [Alerts -> 0 .. 2]
      <4>1. \A a \in Alerts : sent'[a] \in 0 .. 2
        BY <3>2, <3>3
      <4> QED BY <2>3, <4>1
    <3>5. AlertedOnce'
      BY <2>3, <3>2, <3>3
    <3>6. ReportsAreItsOwn'
      BY <2>1, <2>3, <3>1, <3>3
    <3> QED BY <2>1, <3>4, <3>5, <3>6
  <2> QED BY <1>10, <2>2, <2>3 DEF AnotherWorker
<1>11. CASE put_budget
  BY <1>11 DEF put_budget
<1>12. CASE Tick
  BY <1>12 DEF Tick, tables, ghosts
<1>13. CASE NextMonth
  BY <1>13 DEF NextMonth, tables, ghosts
<1>14. CASE Restart
  BY <1>14 DEF Restart, Waiting, tables, ghosts
<1>15. CASE UNCHANGED vars
  BY <1>15 DEF vars
<1> QED
  BY <1>1, <1>2, <1>3, <1>4, <1>5, <1>6, <1>7, <1>8, <1>9, <1>10, <1>11, <1>12, <1>13, <1>14,
     <1>15 DEF Next

\* However many workers evaluate one budget, a threshold is reported at most once
\* a month and only after its row is in the ledger: _evaluate and emit_envelope.
THEOREM ThresholdsAreReportedOnce == Spec => []AlertedOnce
<1>1. OnceInv => AlertedOnce
  BY DEF OnceInv
<1> QED BY <1>1, OnceInit, OnceNext, PTL DEF Spec

-----------------------------------------------------------------------------
\* Why the newest event is never the one to go.  A thread that has made room and
\* was not overtaken finds room, so it has nothing to give up: this is what the
\* lock of queue.Queue and the put after get_nowait come to.
Puts == {Free} \cup [pc : {"full", "again", "beaten"}, event : Events]

RoomWasMade ==
    /\ month \in Months
    /\ putter \in [Threads -> Puts]
    /\ queue \in Seq(Events) /\ Len(queue) <= Cap
    /\ \A x \in Threads : putter[x].pc = "again" => Len(queue) < Cap

\* What one attempt to put does, of Emit, of Report and of the second attempt.
LEMMA PutKeepsRoom ==
    ASSUME RoomWasMade, NEW x \in Threads, NEW e \in Events, Put(x, e, "full"), UNCHANGED month
    PROVE  RoomWasMade'
<1>1. CASE Len(queue) < Cap
  <2> DEFINE p == [putter EXCEPT ![x] = Free]
  <2>1. queue' = Append(queue, e) /\ putter' = Overtaking(x, p)
    BY <1>1 DEF Put, Queued
  <2>2. queue' \in Seq(Events) /\ Len(queue') = Len(queue) + 1
    BY <2>1 DEF RoomWasMade
  <2>3. \A y \in Threads : putter'[y] \in Puts /\ putter'[y].pc # "again"
    <3>1. Free \in Puts /\ Free.pc = "idle" BY DEF Free, Puts
    <3>2. p[x] = Free /\ \A y \in Threads \ {x} : p[y] = putter[y] BY DEF RoomWasMade
    <3> HIDE DEF p
    <3>3. putter'[x] = Free BY <2>1, <3>1, <3>2 DEF Overtaking
    <3>4. ASSUME NEW y \in Threads \ {x} PROVE putter'[y] \in Puts /\ putter'[y].pc # "again"
      <4>1. putter[y] \in Puts BY DEF RoomWasMade
      <4>2. CASE putter[y].pc = "again"
        <5>1. putter'[y] = [putter[y] EXCEPT !.pc = "beaten"]
          BY <2>1, <3>2, <4>2 DEF Overtaking
        <5> QED BY <4>1, <4>2, <5>1, <3>1 DEF Puts
      <4>3. CASE putter[y].pc # "again"
        <5>1. putter'[y] = putter[y] BY <2>1, <3>2, <4>3 DEF Overtaking
        <5> QED BY <4>1, <4>3, <5>1
      <4> QED BY <4>2, <4>3
    <3> QED BY <3>1, <3>3, <3>4
  <2>4. putter' \in [Threads -> Puts] BY <2>1, <2>3 DEF Overtaking
  <2>5. Len(queue') <= Cap BY <1>1, <2>2, ClickstreamAssumption DEF RoomWasMade
  <2> QED BY <2>2, <2>3, <2>4, <2>5 DEF RoomWasMade
<1>2. CASE ~(Len(queue) < Cap)
  <2>1. queue' = queue /\ putter' = [putter EXCEPT ![x] = [pc |-> "full", event |-> e]]
    BY <1>2 DEF Put
  <2>2. [pc |-> "full", event |-> e] \in Puts BY DEF Puts
  <2> QED BY <2>1, <2>2 DEF RoomWasMade
<1> QED BY <1>1, <1>2

\* A step that only takes events out, or leaves queue and threads alone.
LEMMA LessKeepsRoom ==
    ASSUME RoomWasMade, queue' \in Seq(Events), Len(queue') <= Len(queue),
           UNCHANGED <<putter, month>>
    PROVE  RoomWasMade'
<1>1. Len(queue) \in Nat /\ Len(queue') \in Nat /\ Cap \in Nat
  BY ClickstreamAssumption DEF RoomWasMade
<1> QED BY <1>1 DEF RoomWasMade

LEMMA FreeIsAPut == Free \in Puts /\ Free.pc = "idle"
BY DEF Free, Puts

\* A thread that stops trying has nothing to keep.
LEMMA GivingUpKeepsRoom ==
    ASSUME RoomWasMade, NEW x, putter' = [putter EXCEPT ![x] = Free],
           UNCHANGED <<queue, month>>
    PROVE  RoomWasMade'
BY FreeIsAPut DEF RoomWasMade

LEMMA RestartKeepsRoom == ASSUME RoomWasMade, Restart PROVE RoomWasMade'
<1>1. Cap \in Nat \ {0} BY ClickstreamAssumption
<1>2. queue' = <<>> /\ UNCHANGED month /\ \A x \in Threads : putter'[x] = Free BY DEF Restart
<1>3. putter' \in [Threads -> Puts] BY FreeIsAPut DEF Restart
<1>4. <<>> \in Seq(Events) /\ Len(<<>>) = 0 OBVIOUS
<1> QED BY <1>1, <1>2, <1>3, <1>4, FreeIsAPut DEF RoomWasMade

LEMMA DropKeepsRoom ==
    ASSUME RoomWasMade, NEW x \in Threads, DropOldest(x)
    PROVE  RoomWasMade'
<1>1. Cap \in Nat \ {0} BY ClickstreamAssumption
<1>2. queue' \in Seq(Events) /\ Len(queue') < Cap
  <2>1. CASE queue = <<>> BY <1>1, <2>1 DEF DropOldest, RoomWasMade
  <2>2. CASE queue # <<>>
    <3>1. queue' = Tail(queue) BY <2>2 DEF DropOldest
    <3>2. queue' \in Seq(Events) /\ Len(queue') = Len(queue) - 1 BY <2>2, <3>1 DEF RoomWasMade
    <3> QED BY <1>1, <3>2 DEF RoomWasMade
  <2> QED BY <2>1, <2>2
<1>3. putter' = [putter EXCEPT ![x].pc = "again"] BY DEF DropOldest
<1>4. [putter[x] EXCEPT !.pc = "again"] \in Puts
  BY FreeIsAPut DEF RoomWasMade, Puts, DropOldest
<1>5. putter' \in [Threads -> Puts] BY <1>3, <1>4 DEF RoomWasMade
<1>6. UNCHANGED month BY DEF DropOldest
<1> QED BY <1>1, <1>2, <1>5, <1>6 DEF RoomWasMade

LEMMA AgainKeepsRoom ==
    ASSUME RoomWasMade, NEW x \in Threads, PutAgain(x)
    PROVE  RoomWasMade'
<1>1. CASE Len(queue) < Cap
  <2>1. putter[x].event \in Events BY DEF PutAgain, RoomWasMade, Puts, Free
  <2>2. Put(x, putter[x].event, "full") BY <1>1 DEF PutAgain, Put
  <2> QED BY <2>1, <2>2, PutKeepsRoom DEF PutAgain
<1>2. CASE ~(Len(queue) < Cap)
  BY <1>2, GivingUpKeepsRoom DEF PutAgain
<1> QED BY <1>1, <1>2

LEMMA TakeKeepsRoom == ASSUME RoomWasMade, Take PROVE RoomWasMade'
<1> DEFINE n == Min({Len(queue), BatchMax})
<1>1. Len(queue) \in Nat /\ BatchMax \in Nat /\ queue \in Seq(Events)
  BY ClickstreamAssumption DEF RoomWasMade
<1>2. n \in Nat /\ n <= Len(queue)
  <2>1. \E x \in {Len(queue), BatchMax} : \A y \in {Len(queue), BatchMax} : x =< y
    <3>1. CASE Len(queue) =< BatchMax BY <1>1, <3>1
    <3>2. CASE ~(Len(queue) =< BatchMax)
      <4>1. BatchMax =< Len(queue) BY <1>1, <3>2
      <4> QED BY <1>1, <4>1
    <3> QED BY <3>1, <3>2
  <2>2. n \in {Len(queue), BatchMax} /\ \A y \in {Len(queue), BatchMax} : n =< y
    BY <2>1, Zenon DEF Min
  <2> QED BY <1>1, <2>2
<1>3. queue' = SubSeq(queue, n + 1, Len(queue)) /\ UNCHANGED <<putter, month>>
  BY DEF Take
<1> HIDE DEF n
<1>4. queue' \in Seq(Events) /\ Len(queue') <= Len(queue)
  BY <1>1, <1>2, <1>3, SubSeqProperties
<1> QED BY <1>3, <1>4, LessKeepsRoom

LEMMA RoomInit == Init => RoomWasMade
<1> SUFFICES ASSUME Init PROVE RoomWasMade OBVIOUS
<1>1. Cap \in Nat \ {0} /\ MaxMonth \in Nat \ {0} BY ClickstreamAssumption
<1>2. \A x \in Threads : putter[x] = Free BY DEF Init
<1>3. putter \in [Threads -> Puts] BY FreeIsAPut DEF Init
<1>4. queue = <<>> /\ month = 1 BY DEF Init
<1> QED BY <1>1, <1>2, <1>3, <1>4, FreeIsAPut DEF RoomWasMade, Months

LEMMA RoomNext == RoomWasMade /\ [Next]_vars => RoomWasMade'
<1> SUFFICES ASSUME RoomWasMade, [Next]_vars PROVE RoomWasMade'
  OBVIOUS
<1>0. \A m \in Months : m \in Events BY ClickstreamAssumption DEF Months, Events
<1>1. ASSUME UNCHANGED <<queue, putter, month>> PROVE RoomWasMade'
  BY <1>1 DEF RoomWasMade
<1>2. CASE Take
  BY <1>2, TakeKeepsRoom
<1>3. CASE Write \/ WriteFails \/ Check \/ Evaluate \/ Record \/ EvaluateFails
  BY <1>1, <1>3 DEF Write, WriteFails, Check, Evaluate, Record, EvaluateFails
<1>4. CASE Report
  <2>1. CASE drain.alerts = {}
    BY <1>1, <1>4, <2>1 DEF Report
  <2>2. CASE drain.alerts # {}
    <3>1. Put("drain", 0, "full") /\ UNCHANGED month BY <1>4, <2>2 DEF Report
    <3>2. "drain" \in Threads /\ 0 \in Events BY ClickstreamAssumption DEF Threads, Events
    <3> QED BY <3>1, <3>2, PutKeepsRoom
  <2> QED BY <2>1, <2>2
<1>5. ASSUME NEW x \in Threads, emit_envelope(x) PROVE RoomWasMade'
  <2>1. CASE Emit(x)
    <3>1. Put(x, month, "full") /\ UNCHANGED month BY <2>1 DEF Emit
    <3>2. month \in Events BY <1>0 DEF RoomWasMade
    <3> QED BY <3>1, <3>2, PutKeepsRoom
  <2> QED BY <1>5, <2>1, DropKeepsRoom, AgainKeepsRoom DEF emit_envelope
<1>6. CASE AnotherWorker \/ put_budget \/ Tick
  BY <1>1, <1>6 DEF AnotherWorker, put_budget, Tick
<1>7. CASE NextMonth
  <2>1. month' = month + 1 /\ month < MaxMonth /\ UNCHANGED <<queue, putter>>
    BY <1>7 DEF NextMonth
  <2>2. month' \in Months BY <2>1, ClickstreamAssumption DEF RoomWasMade, Months
  <2> QED BY <2>1, <2>2 DEF RoomWasMade
<1>8. CASE Restart
  BY <1>8, RestartKeepsRoom
<1>9. CASE UNCHANGED vars
  BY <1>1, <1>9 DEF vars
<1> QED BY <1>2, <1>3, <1>4, <1>5, <1>6, <1>7, <1>8, <1>9 DEF Next

\* A thread that stops after it made room has put its event, or the process died:
\* nobody else can stop it, and its own second attempt finds room.
LEMMA OldestGoes ==
    ASSUME RoomWasMade, [Next]_vars, NEW x \in Threads,
           putter[x].pc = "again", putter'[x].pc = "idle"
    PROVE  queue' \in {Append(queue, putter[x].event), <<>>}
<1>0. putter \in [Threads -> Puts] BY DEF RoomWasMade
<1>1. ASSUME putter'[x] = putter[x] PROVE FALSE
  BY <1>1
<1>2. ASSUME NEW y \in Threads, NEW e, Put(y, e, "full"), y # x PROVE FALSE
  <2>1. CASE Len(queue) < Cap
    <3> DEFINE p == [putter EXCEPT ![y] = Free]
    <3>1. putter' = Overtaking(y, p) /\ p[x] = putter[x] BY <1>0, <1>2, <2>1 DEF Put
    <3> HIDE DEF p
    <3>2. putter'[x] = [putter[x] EXCEPT !.pc = "beaten"] BY <1>2, <3>1 DEF Overtaking
    <3> QED BY <1>0, <3>2 DEF Puts
  <2>2. CASE ~(Len(queue) < Cap)
    <3>1. putter'[x] = putter[x] BY <1>0, <1>2, <2>2 DEF Put
    <3> QED BY <1>1, <3>1
  <2> QED BY <2>1, <2>2
<1>3. CASE \/ Take \/ Write \/ WriteFails \/ Check \/ Evaluate \/ Record \/ EvaluateFails
           \/ AnotherWorker \/ put_budget \/ Tick \/ NextMonth \/ UNCHANGED vars
  <2>1. UNCHANGED putter
    BY <1>3 DEF Take, Write, WriteFails, Check, Evaluate, Record, EvaluateFails,
       AnotherWorker, put_budget, Tick, NextMonth, vars
  <2> QED BY <1>1, <2>1
<1>4. CASE Report
  <2>1. CASE drain.alerts = {}
    BY <1>1, <1>4, <2>1 DEF Report
  <2>2. CASE drain.alerts # {}
    <3>1. Put("drain", 0, "full") /\ putter["drain"].pc = "idle" BY <1>4, <2>2 DEF Report
    <3>2. "drain" \in Threads BY DEF Threads
    <3>3. x # "drain" BY <3>1
    <3> QED BY <1>2, <3>1, <3>2, <3>3
  <2> QED BY <2>1, <2>2
<1>5. ASSUME NEW y \in Threads, emit_envelope(y)
      PROVE  queue' \in {Append(queue, putter[x].event), <<>>}
  <2>1. CASE Emit(y)
    <3>1. Put(y, month, "full") /\ putter[y].pc = "idle" BY <2>1 DEF Emit
    <3>2. y # x BY <3>1
    <3> QED BY <1>2, <3>1, <3>2
  <2>2. CASE DropOldest(y)
    <3>1. putter'[x].pc = "again" BY <1>0, <2>2 DEF DropOldest
    <3> QED BY <3>1
  <2>3. CASE PutAgain(y) /\ y # x
    <3>1. CASE Len(queue) < Cap
      <4>1. Put(y, putter[y].event, "full") BY <2>3, <3>1 DEF PutAgain, Put
      <4> QED BY <1>2, <2>3, <4>1
    <3>2. CASE ~(Len(queue) < Cap)
      <4>1. putter'[x] = putter[x] BY <1>0, <2>3, <3>2 DEF PutAgain
      <4> QED BY <1>1, <4>1
    <3> QED BY <3>1, <3>2
  <2>4. CASE PutAgain(y) /\ y = x
    <3>1. Len(queue) < Cap BY DEF RoomWasMade
    <3> QED BY <2>4, <3>1 DEF PutAgain, Queued
  <2> QED BY <1>5, <2>1, <2>2, <2>3, <2>4 DEF emit_envelope
<1>6. CASE Restart
  BY <1>6 DEF Restart
<1> QED BY <1>3, <1>4, <1>5, <1>6 DEF Next

\* Whatever threads emit at once: emit_envelope gives up an event it made room for
\* only when another thread took the room, or the process dies.
THEOREM OldestGoFirstAlways == Spec => OldestGoFirst
<1>1. RoomWasMade /\ [Next]_vars =>
          [\A x \in Threads : (putter[x].pc = "again" /\ putter'[x].pc = "idle") =>
               queue' \in {Append(queue, putter[x].event), <<>>}]_vars
  BY OldestGoes
<1> QED BY <1>1, RoomInit, RoomNext, PTL DEF Spec, OldestGoFirst

-----------------------------------------------------------------------------
(* What a month has spent only grows.                                      *)

LEMMA Induct ==
    ASSUME NEW G, 0 \in G, \A k \in Nat : k \in G => k + 1 \in G
    PROVE  Nat \subseteq G
<1> SUFFICES ASSUME Nat \ G # {} PROVE FALSE
  OBVIOUS
<1>1. PICK x \in Nat \ G : \A y \in Nat \ G : ~(<<y, x>> \in OpToRel(<, Nat))
  <2>1. Nat \ G \subseteq Nat
    OBVIOUS
  <2> QED BY <2>1, NatLessThanWellFounded, WFMin
<1>2. x # 0 /\ x - 1 \in Nat
  OBVIOUS
<1>3. <<x - 1, x>> \in OpToRel(<, Nat)
  BY <1>2 DEF OpToRel
<1>4. x - 1 \in G
  BY <1>1, <1>2, <1>3
<1>5. x - 1 + 1 = x
  BY <1>2
<1> QED BY <1>2, <1>4, <1>5

\* The sums of the months from m on that sp has spent, one month after the other.
Part(sp, m, k) == IF k >= m THEN sp[k] ELSE 0
Sums(g, sp, m) ==
    /\ g \in [0 .. MaxMonth -> Nat] /\ g[0] = 0
    /\ \A k \in 1 .. MaxMonth : g[k] = g[k - 1] + Part(sp, m, k)

LEMMA SumsExist ==
    ASSUME NEW sp \in [Months -> Nat], NEW m
    PROVE  \E g : Sums(g, sp, m)
<1> DEFINE Upto(n, g) == /\ g \in [0 .. n -> Nat] /\ g[0] = 0
                         /\ \A k \in 1 .. n : g[k] = g[k - 1] + Part(sp, m, k)
           G == {n \in Nat : n <= MaxMonth => \E g : Upto(n, g)}
<1>0. MaxMonth \in Nat /\ \A k \in 1 .. MaxMonth : Part(sp, m, k) \in Nat
  BY ClickstreamAssumption DEF Months, Part
<1>1. 0 \in G
  <2>1. Upto(0, [k \in 0 .. 0 |-> 0])
    OBVIOUS
  <2> QED BY <2>1
<1>2. ASSUME NEW n \in Nat, n \in G PROVE n + 1 \in G
  <2> SUFFICES ASSUME n + 1 <= MaxMonth PROVE \E g : Upto(n + 1, g)
    OBVIOUS
  <2>1. n <= MaxMonth
    BY <1>0
  <2>2. PICK h : Upto(n, h)
    BY <1>2, <2>1
  <2> DEFINE x == h[n] + Part(sp, m, n + 1)
             g == [k \in 0 .. n + 1 |-> IF k = n + 1 THEN x ELSE h[k]]
  <2>3. x \in Nat
    <3>1. n + 1 \in 1 .. MaxMonth /\ n \in 0 .. n
      BY <1>0
    <3>2. Part(sp, m, n + 1) \in Nat /\ h[n] \in Nat
      BY <1>0, <2>2, <3>1
    <3> QED BY <3>2
  <2>4. \A k \in 0 .. n : g[k] = h[k] /\ h[k] \in Nat
    BY <2>2
  <2>5. g[n + 1] = x
    OBVIOUS
  <2>6. g \in [0 .. n + 1 -> Nat]
    <3>1. \A k \in 0 .. n + 1 : k \in 0 .. n \/ k = n + 1
      OBVIOUS
    <3>2. \A k \in 0 .. n + 1 : g[k] \in Nat
      <4> HIDE DEF g
      <4> QED BY <2>3, <2>4, <2>5, <3>1
    <3> HIDE DEF x
    <3> QED BY <3>2
  <2>7. ASSUME NEW k \in 1 .. n + 1 PROVE g[k] = g[k - 1] + Part(sp, m, k)
    <3>1. CASE k = n + 1
      <4>1. k - 1 = n /\ n \in 0 .. n
        BY <3>1
      <4>2. g[k - 1] = h[n]
        BY <2>4, <4>1
      <4> HIDE DEF g
      <4> QED BY <2>5, <3>1, <4>2
    <3>2. CASE k \in 1 .. n
      <4>1. k \in 0 .. n /\ k - 1 \in 0 .. n
        BY <3>2
      <4>2. g[k] = h[k] /\ g[k - 1] = h[k - 1]
        BY <2>4, <4>1
      <4> HIDE DEF g
      <4> QED BY <2>2, <3>2, <4>2
    <3> QED BY <3>1, <3>2
  <2>8. g[0] = 0
    BY <2>2, <2>4
  <2> HIDE DEF g
  <2> QED BY <2>6, <2>7, <2>8
<1> HIDE DEF G
<1>3. MaxMonth \in G
  BY <1>0, <1>1, <1>2, Induct
<1>4. MaxMonth <= MaxMonth => \E g : Upto(MaxMonth, g)
  BY <1>3 DEF G
<1>5. \E g : Upto(MaxMonth, g)
  <2> HIDE DEF Upto
  <2> QED BY <1>0, <1>4
<1> QED BY <1>5, Zenon DEF Sums

\* Two such sums of the same spending are one.
LEMMA SumsAreOne ==
    ASSUME NEW sp \in [Months -> Nat], NEW m, NEW g, Sums(g, sp, m), NEW h,
           h[0] = 0, \A k \in 1 .. MaxMonth : h[k] = h[k - 1] + Part(sp, m, k)
    PROVE  h[MaxMonth] = g[MaxMonth]
<1> DEFINE G == {n \in Nat : n <= MaxMonth => h[n] = g[n]}
<1>0. MaxMonth \in Nat
  BY ClickstreamAssumption
<1>1. 0 \in G
  BY DEF Sums
<1>2. ASSUME NEW n \in Nat, n \in G PROVE n + 1 \in G
  <2> SUFFICES ASSUME n + 1 <= MaxMonth PROVE h[n + 1] = g[n + 1]
    OBVIOUS
  <2>1. n <= MaxMonth /\ n + 1 \in 1 .. MaxMonth /\ n + 1 - 1 = n
    BY <1>0
  <2>2. h[n] = g[n]
    BY <1>2, <2>1
  <2>3. g[n + 1] = g[n + 1 - 1] + Part(sp, m, n + 1)
    BY <2>1 DEF Sums
  <2>4. h[n + 1] = h[n + 1 - 1] + Part(sp, m, n + 1)
    BY <2>1
  <2> QED BY <2>1, <2>2, <2>3, <2>4
<1> HIDE DEF G
<1>3. MaxMonth \in G
  BY <1>0, <1>1, <1>2, Induct
<1> QED BY <1>0, <1>3 DEF G

\* The sum _month_spend asks the events table for.
SpentOf(sp, m) ==
    LET upto[k \in 0 .. MaxMonth] ==
            IF k = 0 THEN 0 ELSE upto[k - 1] + (IF k >= m THEN sp[k] ELSE 0)
    IN upto[MaxMonth]

LEMMA SpentIsSum ==
    ASSUME NEW sp \in [Months -> Nat], NEW m
    PROVE  \E g : Sums(g, sp, m) /\ SpentOf(sp, m) = g[MaxMonth]
<1> DEFINE Body(g, k) == IF k = 0 THEN 0 ELSE g[k - 1] + (IF k >= m THEN sp[k] ELSE 0)
           Is(g) == g = [k \in 0 .. MaxMonth |-> Body(g, k)]
           u == CHOOSE g : Is(g)
<1>0. MaxMonth \in Nat
  BY ClickstreamAssumption
<1>1. PICK g : Sums(g, sp, m)
  BY SumsExist
<1>2. \A k \in 0 .. MaxMonth : g[k] = Body(g, k)
  <2>1. \A k \in 0 .. MaxMonth : k = 0 \/ k \in 1 .. MaxMonth
    BY <1>0
  <2> QED BY <1>1, <2>1 DEF Sums, Part
<1>3. Is(g)
  <2>1. g \in [0 .. MaxMonth -> Nat]
    BY <1>1 DEF Sums
  <2> HIDE DEF Body
  <2> QED BY <1>2, <2>1
<1>4. \A k \in 0 .. MaxMonth : u[k] = Body(u, k)
  <2>1. Is(u)
    BY <1>3
  <2> HIDE DEF u, Body
  <2> QED BY <2>1
<1>5. SpentOf(sp, m) = u[MaxMonth]
  BY DEF SpentOf
<1> HIDE DEF u
<1>6. u[0] = 0 /\ \A k \in 1 .. MaxMonth : u[k] = u[k - 1] + Part(sp, m, k)
  <2>1. 0 \in 0 .. MaxMonth /\ \A k \in 1 .. MaxMonth : k \in 0 .. MaxMonth /\ k # 0
    BY <1>0
  <2> QED BY <1>4, <2>1 DEF Part
<1>7. u[MaxMonth] = g[MaxMonth]
  BY <1>1, <1>6, SumsAreOne
<1> QED BY <1>1, <1>5, <1>7

LEMMA SpentGrows ==
    ASSUME NEW m, spend \in [Months -> Nat], spend' \in [Months -> Nat],
           \A k \in Months : spend[k] <= spend'[k]
    PROVE  SpentSince(m) \in Nat /\ SpentSince(m)' \in Nat /\ SpentSince(m) <= SpentSince(m)'
<1>0. MaxMonth \in Nat /\ Months = 1 .. MaxMonth
  BY ClickstreamAssumption DEF Months
<1>1. PICK g : Sums(g, spend, m) /\ SpentOf(spend, m) = g[MaxMonth]
  BY SpentIsSum
<1>2. PICK h : Sums(h, spend', m) /\ SpentOf(spend', m) = h[MaxMonth]
  BY SpentIsSum
<1>8. SpentSince(m) = SpentOf(spend, m) /\ SpentSince(m)' = SpentOf(spend', m)
  BY DEF SpentSince, SpentOf
<1> DEFINE G == {n \in Nat : n <= MaxMonth => g[n] <= h[n]}
<1>3. 0 \in G
  BY <1>1, <1>2 DEF Sums
<1>4. ASSUME NEW n \in Nat, n \in G PROVE n + 1 \in G
  <2> SUFFICES ASSUME n + 1 <= MaxMonth PROVE g[n + 1] <= h[n + 1]
    OBVIOUS
  <2>1. n <= MaxMonth /\ n + 1 \in 1 .. MaxMonth /\ n + 1 - 1 = n /\ n \in 0 .. MaxMonth
    BY <1>0
  <2>2. g[n] <= h[n] /\ g[n] \in Nat /\ h[n] \in Nat
    BY <1>1, <1>2, <1>4, <2>1 DEF Sums
  <2>3. g[n + 1] = g[n] + Part(spend, m, n + 1) /\ h[n + 1] = h[n] + Part(spend', m, n + 1)
    <3>1. g[n + 1] = g[n + 1 - 1] + Part(spend, m, n + 1)
      BY <1>1, <2>1 DEF Sums
    <3>2. h[n + 1] = h[n + 1 - 1] + Part(spend', m, n + 1)
      BY <1>2, <2>1 DEF Sums
    <3> QED BY <2>1, <3>1, <3>2
  <2>4. /\ Part(spend, m, n + 1) \in Nat /\ Part(spend', m, n + 1) \in Nat
        /\ Part(spend, m, n + 1) <= Part(spend', m, n + 1)
    BY <1>0, <2>1 DEF Part
  <2> QED BY <2>2, <2>3, <2>4
<1> HIDE DEF G
<1>5. MaxMonth \in G
  BY <1>0, <1>3, <1>4, Induct
<1>6. g[MaxMonth] <= h[MaxMonth]
  BY <1>0, <1>5 DEF G
<1>7. g[MaxMonth] \in Nat /\ h[MaxMonth] \in Nat
  BY <1>0, <1>1, <1>2 DEF Sums
<1> QED BY <1>1, <1>2, <1>6, <1>7, <1>8

-----------------------------------------------------------------------------
(* Why no alert is there before its time.  A threshold found to be crossed *)
(* stays crossed until it is recorded: spend only grows, and the budget    *)
(* under which it was found is one that has been in force.                 *)

Earned(a) == \E b \in ever : a[2] \in b.pcts /\ 100 * SpentSince(a[1]) >= b.limit * a[2]

TablesHold ==
    /\ sink \in Sinks /\ since \in 0 .. Interval
    /\ spend \in [Months -> 0 .. MaxSpend]
    /\ budget \in Budgets \cup {None} /\ ever \subseteq Budgets
    /\ budget # None => budget \in ever
    /\ ledger \subseteq Alerts

Draining(d) ==
    /\ d \in [pc     : {"get", "write", "check", "evaluate", "record", "report"},
              batch  : Seq(Events),
              of     : Months \cup {None},
              alerts : SUBSET Alerts]
    /\ Len(d.batch) <= BatchMax
    /\ d.pc = "evaluate" => d.of \in Months

EarnInv ==
    /\ TablesHold /\ Draining(drain)
    /\ \A a \in ledger : Earned(a)
    /\ drain.pc = "record" => \A a \in drain.alerts : Earned(a)

LEMMA LeastOfTwo ==
    ASSUME NEW m \in Nat, NEW n \in Nat
    PROVE  Min({m, n}) \in {m, n} /\ Min({m, n}) <= m /\ Min({m, n}) <= n
<1>1. \E x \in {m, n} : \A y \in {m, n} : x =< y
  <2>1. CASE m <= n BY <2>1
  <2>2. CASE n <= m BY <2>2
  <2> QED BY <2>1, <2>2
<1>2. Min({m, n}) \in {m, n} /\ \A y \in {m, n} : Min({m, n}) =< y
  BY <1>1, Zenon DEF Min
<1> QED BY <1>2

\* A batch that lands takes nothing from any month.
LEMMA LandAdds ==
    ASSUME TablesHold, NEW batch \in Seq(Events)
    PROVE  /\ Land(batch) \in [Months -> 0 .. MaxSpend]
           /\ \A k \in Months : spend[k] <= Land(batch)[k]
<1>1. MaxSpend \in Nat
  BY ClickstreamAssumption
<1>2. ASSUME NEW k \in Months
      PROVE  Land(batch)[k] \in 0 .. MaxSpend /\ spend[k] <= Land(batch)[k]
  <2> DEFINE n == CountIn(k, batch)
  <2>1. n \in Nat
    <3>1. IsFiniteSet(1 .. Len(batch))
      BY FS_Interval
    <3>2. {i \in DOMAIN batch : batch[i] = k} \subseteq 1 .. Len(batch)
      OBVIOUS
    <3> QED BY <3>1, <3>2, FS_Subset, FS_CardinalityType DEF CountIn
  <2>2. spend[k] \in Nat /\ spend[k] <= MaxSpend
    BY <1>1 DEF TablesHold
  <2>3. Land(batch)[k] = Min({MaxSpend, spend[k] + n})
    BY DEF Land
  <2> HIDE DEF n
  <2>4. spend[k] + n \in Nat /\ spend[k] <= spend[k] + n
    BY <2>1, <2>2
  <2> DEFINE s == spend[k] + n
  <2>5. s \in Nat /\ spend[k] <= s /\ Land(batch)[k] = Min({MaxSpend, s})
    BY <2>3, <2>4
  <2> HIDE DEF s
  <2>6. Min({MaxSpend, s}) \in {MaxSpend, s} /\ Min({MaxSpend, s}) <= MaxSpend
    BY <1>1, <2>5, LeastOfTwo
  <2> QED BY <1>1, <2>2, <2>5, <2>6
<1> QED BY <1>2 DEF Land

\* What was earned is still earned when the months have spent more.
LEMMA EarnedStays ==
    ASSUME TablesHold, TablesHold', \A k \in Months : spend[k] <= spend'[k],
           ever \subseteq ever', NEW a \in Alerts, Earned(a)
    PROVE  Earned(a)'
<1>1. PICK b \in ever : a[2] \in b.pcts /\ 100 * SpentSince(a[1]) >= b.limit * a[2]
  BY DEF Earned
<1>2. b.limit \in Nat /\ a[2] \in Nat
  BY <1>1, ClickstreamAssumption DEF TablesHold
<1> DEFINE n == b.limit * a[2]
<1>3. n \in Nat
  BY <1>2
<1>4. /\ SpentSince(a[1]) \in Nat /\ SpentSince(a[1])' \in Nat
      /\ SpentSince(a[1]) <= SpentSince(a[1])'
  <2>1. spend \in [Months -> Nat] /\ spend' \in [Months -> Nat]
    BY ClickstreamAssumption DEF TablesHold
  <2> QED BY <2>1, SpentGrows
<1>5. 100 * SpentSince(a[1]) >= n
  BY <1>1
<1> HIDE DEF n
<1>6. 100 * SpentSince(a[1])' >= n
  BY <1>3, <1>4, <1>5
<1> QED BY <1>1, <1>6 DEF Earned, n

\* So a step may record or hold ready whatever was earned before it.
LEMMA EarnKept ==
    ASSUME EarnInv, TablesHold', Draining(drain'),
           \A k \in Months : spend[k] <= spend'[k], ever \subseteq ever',
           \A a \in ledger' \ ledger : Earned(a),
           drain'.pc = "record" => \A a \in drain'.alerts : Earned(a)
    PROVE  EarnInv'
<1>1. \A a \in Alerts : Earned(a) => Earned(a)'
  BY EarnedStays DEF EarnInv
<1>2. \A a \in ledger' : Earned(a)'
  <2>1. \A a \in ledger' : a \in Alerts /\ Earned(a)
    BY DEF EarnInv, TablesHold
  <2> QED BY <1>1, <2>1
<1>3. drain'.pc = "record" => \A a \in drain'.alerts : Earned(a)'
  <2>1. drain'.alerts \subseteq Alerts
    BY DEF Draining
  <2> QED BY <1>1, <2>1
<1> QED BY <1>2, <1>3 DEF EarnInv

\* _evaluate finds crossed only what was earned.
LEMMA CrossedIsEarned ==
    ASSUME EarnInv, NEW m \in Months, NEW p \in thresholds_crossed(m)
    PROVE  <<m, p>> \in Alerts /\ Earned(<<m, p>>)
<1>1. /\ budget # None /\ p \in budget.pcts /\ budget \in ever /\ budget \in Budgets
      /\ 100 * SpentSince(m) >= budget.limit * p
  BY DEF thresholds_crossed, EarnInv, TablesHold
<1>2. <<m, p>> \in Alerts
  BY <1>1 DEF Alerts, Pcts
<1> QED BY <1>1, <1>2 DEF Earned

LEMMA WaitingDrains ==
    /\ Draining(Waiting) /\ Waiting.pc = "get"
    /\ \A d : \A m \in Months :
           d = [Waiting EXCEPT !.pc = "evaluate", !.of = m] =>
               Draining(d) /\ d.pc = "evaluate"
<1>1. BatchMax \in Nat /\ <<>> \in Seq(Events) /\ Len(<<>>) = 0
  BY ClickstreamAssumption
<1>2. Waiting = [pc |-> "get", batch |-> <<>>, of |-> None, alerts |-> {}]
  BY DEF Waiting
<1>3. Draining(Waiting) /\ Waiting.pc = "get"
  BY <1>1, <1>2 DEF Draining
<1>4. ASSUME NEW m \in Months, NEW d, d = [Waiting EXCEPT !.pc = "evaluate", !.of = m]
      PROVE  Draining(d) /\ d.pc = "evaluate"
  <2>1. d = [pc |-> "evaluate", batch |-> <<>>, of |-> m, alerts |-> {}]
    BY <1>4 DEF Waiting
  <2> QED BY <1>1, <2>1 DEF Draining
<1> QED BY <1>3, <1>4

LEMMA EarnInit == Init => EarnInv
<1> SUFFICES ASSUME Init PROVE EarnInv
  OBVIOUS
<1>1. Interval \in Nat /\ MaxSpend \in Nat
  BY ClickstreamAssumption
<1>2. TablesHold
  BY <1>1 DEF Init, TablesHold
<1>3. Draining(drain) /\ drain.pc = "get"
  BY WaitingDrains DEF Init
<1> QED BY <1>2, <1>3 DEF EarnInv, Init

LEMMA EarnNext == EarnInv /\ RoomWasMade /\ [Next]_vars => EarnInv'
<1> SUFFICES ASSUME EarnInv, RoomWasMade, [Next]_vars PROVE EarnInv'
  OBVIOUS
<1>0. /\ TablesHold /\ Draining(drain) /\ Interval \in Nat /\ BatchMax \in Nat
      /\ \A k \in Months : spend[k] \in Nat
  BY ClickstreamAssumption DEF EarnInv, TablesHold
\* A step that leaves the tables alone, and holds nothing ready that it did not.
<1>1. ASSUME UNCHANGED <<sink, tables, ever>>, since' \in 0 .. Interval, Draining(drain'),
             drain'.pc = "record" => \A a \in drain'.alerts : Earned(a)
      PROVE  EarnInv'
  <2>1. TablesHold' /\ ledger' \ ledger = {} /\ ever \subseteq ever'
    BY <1>0, <1>1 DEF TablesHold, tables
  <2>2. \A k \in Months : spend[k] <= spend'[k]
    BY <1>0, <1>1 DEF tables
  <2> QED BY <1>1, <2>1, <2>2, EarnKept
<1>2. ASSUME UNCHANGED <<sink, tables, ever, since, drain>> PROVE EarnInv'
  BY <1>0, <1>1, <1>2 DEF EarnInv, TablesHold
<1>3. CASE Take
  <2> DEFINE n == Min({Len(queue), BatchMax})
  <2>1. queue \in Seq(Events) /\ Len(queue) \in Nat
    BY DEF RoomWasMade
  <2>2. n \in Nat /\ n <= Len(queue) /\ n <= BatchMax
    BY <1>0, <2>1, LeastOfTwo
  <2>3. drain' = [drain EXCEPT !.pc = "write", !.batch = SubSeq(queue, 1, n)]
        /\ UNCHANGED <<sink, since, tables, ever>>
    BY <1>3 DEF Take, ghosts
  <2> HIDE DEF n
  <2>4. SubSeq(queue, 1, n) \in Seq(Events) /\ Len(SubSeq(queue, 1, n)) <= BatchMax
    BY <1>0, <2>1, <2>2, SubSeqProperties
  <2>5. Draining(drain') /\ drain'.pc = "write"
    BY <1>0, <2>3, <2>4 DEF Draining
  <2> QED BY <1>0, <1>1, <2>3, <2>5 DEF TablesHold
<1>4. CASE Write
  <2>1. /\ spend' \in [Months -> 0 .. MaxSpend] /\ \A k \in Months : spend[k] <= spend'[k]
    <3>1. CASE spend' = Land(drain.batch)
      BY <1>0, <3>1, LandAdds DEF Draining
    <3>2. CASE spend' = spend
      BY <1>0, <3>2 DEF TablesHold
    <3> QED BY <1>4, <3>1, <3>2 DEF Write
  <2>2. UNCHANGED <<sink, since, budget, ever, ledger>> /\ ledger' \ ledger = {}
    BY <1>4 DEF Write, ghosts
  <2>3. TablesHold' /\ ever \subseteq ever'
    BY <1>0, <2>1, <2>2 DEF TablesHold
  <2>4. Draining(drain') /\ drain'.pc = "check"
    BY <1>0, <1>4 DEF Write, Draining
  <2> QED BY <2>1, <2>2, <2>3, <2>4, EarnKept
<1>5. CASE WriteFails
  <2>1. Draining(drain') /\ drain'.pc = "check"
    BY <1>0, <1>5 DEF WriteFails, Draining
  <2> QED BY <1>0, <1>1, <1>5, <2>1 DEF WriteFails, ghosts, TablesHold
<1>6. CASE Check
  <2>1. Draining(drain') /\ drain'.pc # "record"
    <3>1. drain' = Waiting \/ drain' = [Waiting EXCEPT !.pc = "evaluate", !.of = month]
      BY <1>6 DEF Check
    <3>2. month \in Months
      BY DEF RoomWasMade
    <3> QED BY <3>1, <3>2, WaitingDrains
  <2>2. since' \in 0 .. Interval /\ UNCHANGED <<sink, tables, ever>>
    BY <1>0, <1>6 DEF Check, ghosts, TablesHold
  <2> QED BY <1>1, <2>1, <2>2
<1>7. CASE Evaluate
  <2> DEFINE crossed == {<<drain.of, p>> : p \in thresholds_crossed(drain.of)}
  <2>1. drain.of \in Months
    BY <1>0, <1>7 DEF Evaluate, Draining
  <2>2. \A a \in crossed : a \in Alerts /\ Earned(a)
    BY <2>1, CrossedIsEarned
  <2>3. drain' = Waiting \/ drain' = [drain EXCEPT !.pc = "record", !.alerts = crossed]
    BY <1>7 DEF Evaluate
  <2> HIDE DEF crossed
  <2>4. /\ Draining(drain')
        /\ drain'.pc = "record" => drain'.alerts = crossed
    <3>1. CASE drain' = Waiting
      BY <3>1, WaitingDrains
    <3>2. CASE drain' = [drain EXCEPT !.pc = "record", !.alerts = crossed]
      BY <1>0, <2>2, <3>2 DEF Draining
    <3> QED BY <2>3, <3>1, <3>2
  <2>5. UNCHANGED <<sink, since, tables, ever>>
    BY <1>7 DEF Evaluate, ghosts
  <2> QED BY <1>0, <1>1, <2>2, <2>4, <2>5 DEF TablesHold
<1>8. CASE Record
  <2>1. drain.pc = "record" /\ UNCHANGED <<sink, since, spend, budget, ever>>
        /\ ledger' = ledger \cup drain.alerts
    BY <1>8 DEF Record, ghosts
  <2>2. TablesHold' /\ ever \subseteq ever'
    BY <1>0, <2>1 DEF TablesHold, Draining
  <2>3. \A k \in Months : spend[k] <= spend'[k]
    BY <1>0, <2>1
  <2>4. \A a \in ledger' \ ledger : Earned(a)
    BY <2>1 DEF EarnInv
  <2>5. Draining(drain') /\ drain'.pc # "record"
    <3>1. CASE drain' = Waiting
      BY <3>1, WaitingDrains
    <3>2. CASE drain' = [drain EXCEPT !.pc = "report", !.alerts = @ \ ledger]
      BY <1>0, <3>2 DEF Draining
    <3> QED BY <1>8, <3>1, <3>2 DEF Record
  <2> QED BY <2>2, <2>3, <2>4, <2>5, EarnKept
<1>9. CASE EvaluateFails \/ Restart
  <2>1. drain' = Waiting /\ UNCHANGED <<sink, tables, ever>> /\ since' \in {since, Interval}
    BY <1>9 DEF EvaluateFails, Restart, ghosts
  <2>2. since' \in 0 .. Interval
    BY <1>0, <2>1 DEF TablesHold
  <2> QED BY <1>1, <2>1, <2>2, WaitingDrains
<1>10. CASE Report
  <2>1. drain' = Waiting \/ \E a : drain' = [drain EXCEPT !.alerts = @ \ {a}]
    BY <1>10 DEF Report
  <2>2. drain.pc = "report" /\ UNCHANGED <<sink, since, tables, ever>>
    BY <1>10 DEF Report
  <2>3. Draining(drain') /\ drain'.pc # "record"
    <3>1. CASE drain' = Waiting
      BY <3>1, WaitingDrains
    <3>2. CASE \E a : drain' = [drain EXCEPT !.alerts = @ \ {a}]
      BY <1>0, <2>2, <3>2 DEF Draining
    <3> QED BY <2>1, <3>1, <3>2
  <2> QED BY <1>0, <1>1, <2>2, <2>3 DEF TablesHold
<1>11. CASE \E x \in Threads : emit_envelope(x)
  BY <1>2, <1>11 DEF emit_envelope, Emit, DropOldest, PutAgain, ghosts
<1>12. CASE AnotherWorker
  <2> DEFINE mine == {<<month, p>> : p \in thresholds_crossed(month)}
  <2>1. month \in Months /\ month \in Events
    BY ClickstreamAssumption DEF RoomWasMade, Months, Events
  <2>2. UNCHANGED <<sink, since, drain, budget, ever>>
    BY <1>12 DEF AnotherWorker
  <2>3. drain'.pc = "record" => \A a \in drain'.alerts : Earned(a)
    BY <2>2 DEF EarnInv
  <2>4. CASE spend' = Land(<<month>>) /\ ledger' = ledger
    <3>1. <<month>> \in Seq(Events)
      BY <2>1
    <3>2. spend' \in [Months -> 0 .. MaxSpend] /\ \A k \in Months : spend[k] <= spend'[k]
      BY <1>0, <2>4, <3>1, LandAdds
    <3>3. TablesHold' /\ ever \subseteq ever' /\ ledger' \ ledger = {}
      BY <1>0, <2>2, <2>4, <3>2 DEF TablesHold
    <3> QED BY <1>0, <2>2, <2>3, <3>2, <3>3, EarnKept
  <2>5. CASE ledger' = ledger \cup mine /\ spend' = spend
    <3>1. \A a \in mine : a \in Alerts /\ Earned(a)
      BY <2>1, CrossedIsEarned
    <3> HIDE DEF mine
    <3>2. TablesHold' /\ ever \subseteq ever'
      BY <1>0, <2>2, <2>5, <3>1 DEF TablesHold
    <3>3. \A k \in Months : spend[k] <= spend'[k]
      BY <1>0, <2>5
    <3>4. \A a \in ledger' \ ledger : Earned(a)
      BY <2>5, <3>1
    <3> QED BY <1>0, <2>2, <2>3, <3>2, <3>3, <3>4, EarnKept
  <2> QED BY <1>12, <2>4, <2>5 DEF AnotherWorker
<1>13. CASE put_budget
  <2>1. PICK b \in Budgets : budget' = b /\ ever' = ever \cup {b}
    BY <1>13 DEF put_budget
  <2>2. UNCHANGED <<sink, since, drain, spend, ledger>> /\ ledger' \ ledger = {}
    BY <1>13 DEF put_budget
  <2>3. TablesHold' /\ ever \subseteq ever'
    BY <1>0, <2>1, <2>2 DEF TablesHold
  <2>4. \A k \in Months : spend[k] <= spend'[k]
    BY <1>0, <2>2
  <2>5. drain'.pc = "record" => \A a \in drain'.alerts : Earned(a)
    BY <2>2 DEF EarnInv
  <2> QED BY <1>0, <2>2, <2>3, <2>4, <2>5, EarnKept
<1>14. CASE Tick
  <2>1. since' \in 0 .. Interval /\ UNCHANGED <<sink, drain, tables, ever>>
    BY <1>0, <1>14 DEF Tick, ghosts, TablesHold
  <2> QED BY <1>0, <1>1, <2>1 DEF EarnInv
<1>15. CASE NextMonth \/ UNCHANGED vars
  BY <1>2, <1>15 DEF NextMonth, vars, ghosts, tables
<1> QED
  BY <1>3, <1>4, <1>5, <1>6, <1>7, <1>8, <1>9, <1>10, <1>11, <1>12, <1>13, <1>14, <1>15
  DEF Next

\* Whatever the workers read when, whoever sets which budget meanwhile and whatever
\* dies: an alert in the ledger was earned by its month's spend, under a budget that
\* has been in force (_evaluate and put_budget).
THEOREM AlertsAreEarnedAlways == Spec => []AlertsAreEarned
<1>1. OnceInv /\ RoomWasMade /\ EarnInv => AlertsAreEarned
  <2> SUFFICES ASSUME OnceInv, RoomWasMade, EarnInv PROVE AlertsAreEarned
    OBVIOUS
  <2>1. AlertsAreTrue
    BY DEF EarnInv, AlertsAreTrue, Earned
  <2>2. \A x \in Threads : /\ putter[x].pc \in {"idle", "full", "again", "beaten"}
                           /\ putter[x].event \in Events \cup {None}
    BY DEF RoomWasMade, Puts, Free
  <2>3. /\ month \in Months /\ Len(queue) <= Cap
        /\ \A i \in DOMAIN queue : queue[i] \in Events
    BY DEF RoomWasMade
  <2>4. sent \in [Alerts -> 0 .. 2]
    BY DEF OnceInv
  <2> QED BY <2>1, <2>2, <2>3, <2>4 DEF AlertsAreEarned, TypeOK, EarnInv, TablesHold, Draining
<1> QED
  BY <1>1, OnceInit, OnceNext, RoomInit, RoomNext, EarnInit, EarnNext, PTL DEF Spec

-----------------------------------------------------------------------------
(* Stores: rows in the order in which they came.                           *)

LEMMA GreatestIs ==
    ASSUME NEW n \in Nat, NEW S \in SUBSET (-1 .. n), S # {}
    PROVE  Max(S) \in S /\ \A y \in S : y <= Max(S)
<1> DEFINE G == {m \in Nat : \A T \in SUBSET (-1 .. m - 1) :
                     T # {} => \E x \in T : \A y \in T : x >= y}
<1>1. 0 \in G
  <2>1. ASSUME NEW T \in SUBSET (-1 .. 0 - 1), T # {}
        PROVE  \E x \in T : \A y \in T : x >= y
    <3>1. \A x \in T : x \in Int /\ -1 <= x /\ x <= 0 - 1
      OBVIOUS
    <3>2. PICK z \in T : TRUE
      BY <2>1
    <3>3. \A x \in T : z >= x
      BY <3>1
    <3> QED BY <3>3
  <2> QED BY <2>1
<1>2. ASSUME NEW m \in Nat, m \in G PROVE m + 1 \in G
  <2>1. ASSUME NEW T \in SUBSET (-1 .. (m + 1) - 1), T # {}
        PROVE  \E x \in T : \A y \in T : x >= y
    <3>1. CASE m \in T
      BY <3>1
    <3>2. CASE m \notin T
      <4>1. T \in SUBSET (-1 .. m - 1)
        BY <3>2
      <4> QED BY <1>2, <2>1, <4>1
    <3> QED BY <3>1, <3>2
  <2> QED BY <2>1
<1>3. n + 1 \in G
  <2> HIDE DEF G
  <2> QED BY <1>1, <1>2, Induct
<1>4. \E x \in S : \A y \in S : x >= y
  BY <1>3
<1>5. Max(S) \in S /\ \A y \in S : Max(S) >= y
  BY <1>4 DEF Max
<1> QED BY <1>5

Upto(rows, n) == DOMAIN rows \subseteq 1 .. n

LEMMA UptoIsFinite ==
    ASSUME NEW rows, NEW n \in Nat, Upto(rows, n), NEW S, S \subseteq DOMAIN rows
    PROVE  IsFiniteSet(S) /\ Cardinality(S) \in Nat
<1>1. IsFiniteSet(1 .. n)
  BY FS_Interval
<1>2. S \subseteq 1 .. n
  BY DEF Upto
<1>3. IsFiniteSet(S)
  BY <1>1, <1>2, FS_Subset
<1> QED BY <1>3, FS_CardinalityType

\* A new row comes after all there are, and nothing else changes.
LEMMA ExtendedBy ==
    ASSUME NEW rows, NEW n \in Nat, Upto(rows, n), NEW row
    PROVE  /\ After(rows) \in 1 .. n + 1
           /\ \A k \in DOMAIN rows : k < After(rows) /\ Extended(rows, row)[k] = rows[k]
           /\ DOMAIN Extended(rows, row) = DOMAIN rows \cup {After(rows)}
           /\ Extended(rows, row)[After(rows)] = row
           /\ Upto(Extended(rows, row), n + 1)
           /\ After(rows) \notin DOMAIN rows
<1> DEFINE S == DOMAIN rows \cup {0}
<1>1. S \in SUBSET (-1 .. n) /\ S # {} /\ S \subseteq 0 .. n
  BY DEF Upto
<1>2. Max(S) \in S /\ \A y \in S : y <= Max(S)
  <2> HIDE DEF S
  <2> QED BY <1>1, GreatestIs
<1>3. Max(S) \in 0 .. n
  BY <1>1, <1>2
<1>4. After(rows) = Max(S) + 1
  BY DEF After
<1> DEFINE new == After(rows)
<1>5. new \in 1 .. n + 1
  BY <1>3, <1>4
<1>6. \A k \in DOMAIN rows : k < new
  BY <1>2, <1>3, <1>4 DEF Upto
<1>7. new \notin DOMAIN rows
  BY <1>5, <1>6
<1>8. Extended(rows, row) = [k \in DOMAIN rows \cup {new} |-> IF k \in DOMAIN rows THEN rows[k] ELSE row]
  BY DEF Extended
<1> HIDE DEF new, S
<1>9. DOMAIN Extended(rows, row) = DOMAIN rows \cup {new}
  BY <1>8
<1>10. Extended(rows, row)[new] = row /\ \A k \in DOMAIN rows : Extended(rows, row)[k] = rows[k]
  BY <1>7, <1>8
<1>11. Upto(Extended(rows, row), n + 1)
  BY <1>5, <1>9 DEF Upto
<1> QED BY <1>5, <1>6, <1>7, <1>9, <1>10, <1>11 DEF new

LEMMA ExtendedIn ==
    ASSUME NEW rows, NEW n \in Nat, Upto(rows, n), NEW R, NEW row \in R, rows \in [DOMAIN rows -> R]
    PROVE  Extended(rows, row) \in [DOMAIN Extended(rows, row) -> R]
<1>1. /\ DOMAIN Extended(rows, row) = DOMAIN rows \cup {After(rows)}
      /\ \A k \in DOMAIN rows : Extended(rows, row)[k] = rows[k]
      /\ Extended(rows, row)[After(rows)] = row
  BY ExtendedBy
<1>2. \A k \in DOMAIN rows : rows[k] \in R
  OBVIOUS
<1>3. Extended(rows, row) = [k \in DOMAIN rows \cup {After(rows)} |-> Extended(rows, row)[k]]
  BY DEF Extended
<1> DEFINE g == Extended(rows, row)
<1>4. g = [k \in DOMAIN g |-> g[k]] /\ \A k \in DOMAIN g : g[k] \in R
  BY <1>1, <1>2, <1>3
<1> HIDE DEF g
<1>5. g \in [DOMAIN g -> R]
  BY <1>4
<1> QED BY <1>5 DEF g

\* A table without the rows of some projects.
LEMMA RestrictedTo ==
    ASSUME NEW rows, NEW S \in SUBSET DOMAIN rows, NEW R, rows \in [DOMAIN rows -> R]
    PROVE  /\ DOMAIN Restrict(rows, S) = S
           /\ \A k \in S : Restrict(rows, S)[k] = rows[k]
           /\ Restrict(rows, S) \in [S -> R]
  BY DEF Restrict

-----------------------------------------------------------------------------
(* The inductive invariant of a project's records.                         *)

RowTablesHold ==
    /\ StoresTypeOK
    /\ \E n \in Nat : Upto(tasks, n)
    /\ \E n \in Nat : Upto(transcript, n) /\ \A k \in DOMAIN transcript : transcript[k].seq <= n

Runs(t)     == turn[t].pc \notin Over
Began(t, p) == turn[t].pc # "idle" /\ turn[t].project = p

\* Whoever wrote a row has begun in its project; of two turns that run in one
\* project each knows the other.
TurnsHold ==
    /\ \A t \in Turns : IF turn[t].pc = "idle" THEN turn[t].made = <<>> ELSE turn[t].project \in Projects
    /\ \A k \in DOMAIN tasks : tasks[k].by \in Turns => Began(tasks[k].by, tasks[k].project)
    /\ \A k \in DOMAIN transcript : Began(transcript[k].by, transcript[k].project)
    /\ \A x, y \in Turns :
           x # y /\ Runs(x) /\ Runs(y) /\ turn[x].project = turn[y].project => x \in turn[y].met

\* In the database a project's rows go with it, no plan's id is above their
\* number, one that is drawn is at most the next, and is taken before it is
\* inserted only by a turn that overlaps or by an import.
RowsHold ==
    Postgres =>
        /\ \A p \in Projects : project[p] # "alive" => Rows(p) = {}
        /\ \A k \in DOMAIN tasks :
               tasks[k].by \in Turns => tasks[k].id <= Cardinality(Rows(tasks[k].project))
        /\ \A t \in Turns : turn[t].pc = "mint" /\ project[turn[t].project] = "alive"
                              => turn[t].no <= Cardinality(Rows(turn[t].project)) + 1
        /\ \A t \in Turns : \A k \in DOMAIN tasks :
               /\ turn[t].pc = "mint" /\ tasks[k].project = turn[t].project
               /\ tasks[k].by \in Turns /\ tasks[k].id = turn[t].no
               => tasks[k].by \in turn[t].met

\* The dict has one row of an id, and the counter gives no id twice.
Minted(t) == Range(turn[t].made) \cup (IF turn[t].pc = "mint" THEN {turn[t].no} ELSE {})
DictHolds ==
    ~Postgres =>
        /\ \A j, k \in DOMAIN tasks : tasks[j].id = tasks[k].id => j = k
        /\ \A t \in Turns : Minted(t) \subseteq 1 .. counter
        /\ \A x, y \in Turns : x # y => Minted(x) \cap Minted(y) = {}
        /\ \A t \in Turns : turn[t].pc = "mint" => turn[t].no \notin Range(turn[t].made)
        /\ \A k \in DOMAIN tasks :
               tasks[k].by \in Turns => tasks[k].id \in Range(turn[tasks[k].by].made)

\* The tasks of a plan are there as long as nothing but plans touches them.
Undisturbed(t) == project[turn[t].project] = "alive" /\ (Postgres \/ imported = {})
Present(t, n)  == \E k \in DOMAIN tasks : tasks[k].by = t /\ tasks[k].id = n
MadeHolds ==
    /\ \A t \in Turns : \A n \in Range(turn[t].made) :
           turn[t].pc # "idle" /\ Undisturbed(t) => Present(t, n)
    /\ ~Postgres /\ imported = {} => \A k \in DOMAIN tasks : tasks[k].by \in Turns

\* Why a task waits for another.
EdgeIsKnown(k) ==
    \/ tasks[k].by \in Turns /\ Declared(tasks[k].by)
    \/ Postgres /\ \E j \in Named(tasks[k].project, tasks[k].id) : j # k
    \/ ~Postgres /\ tasks[k].by \in Imports
EdgesHold == \A k \in DOMAIN tasks : tasks[k].deps # {} => EdgeIsKnown(k)

\* A number that is read but not yet written is above all the numbers of the
\* thread but those of turns that overlap.
NumbersHold ==
    /\ \A t \in Turns : \A k \in DOMAIN transcript :
           turn[t].pc = "write" /\ transcript[k].project = turn[t].project =>
               transcript[k].seq < turn[t].no \/ transcript[k].by \in turn[t].met
    /\ ~Postgres =>
           /\ \A k \in DOMAIN transcript : transcript[k].seq < Cardinality(DOMAIN transcript)
           /\ \A t \in Turns : turn[t].pc = "write" => turn[t].no <= Cardinality(DOMAIN transcript)

\* Whoever runs in a dropped project was cut, or came too late.
CutsHold ==
    \A t \in Turns :
        Postgres /\ Runs(t) /\ project[turn[t].project] = "dropped" => turn[t].cut

RecordsHold ==
    /\ RowTablesHold
    /\ TurnsHold
    /\ RowsHold /\ DictHolds /\ MintedIdsDiffer
    /\ MadeHolds /\ PlansAreWhole
    /\ EdgesHold
    /\ BranchHeldOnce
    /\ NumbersHold /\ TalkInOrder
    /\ CutsHold /\ OrphansAreExplained

-----------------------------------------------------------------------------
(* The kinds of steps.                                                     *)

\* A turn takes a step of its own.
Alone(t) ==
    /\ turn' \in [Turns -> TurnType]
    /\ \A s \in Turns : s # t => turn'[s] = turn[s]
    /\ turn'[t].project = turn[t].project /\ turn'[t].met = turn[t].met
    /\ turn'[t].cut = turn[t].cut /\ turn'[t].role \in {"user", "agent"}
    /\ turn[t].pc \notin Over /\ turn'[t].pc # "idle"

LEMMA TypesOf ==
    ASSUME RowTablesHold
    PROVE  /\ turn \in [Turns -> TurnType] /\ store \in {"memory", "postgres"}
           /\ tasks \in [DOMAIN tasks -> TaskRow] /\ transcript \in [DOMAIN transcript -> Entry]
           /\ \A t \in Turns : turn[t].made \in Seq(Nat) /\ turn[t].no \in Nat /\ turn[t].met \subseteq Turns
           /\ \A t \in Turns : turn[t].project \in Projects \cup {None}
           /\ \A k \in DOMAIN tasks : /\ tasks[k].project \in Projects /\ tasks[k].id \in Nat
                                      /\ tasks[k].by \in Turns \cup Imports
           /\ \A k \in DOMAIN transcript : /\ transcript[k].project \in Projects
                                           /\ transcript[k].seq \in Nat /\ transcript[k].by \in Turns
           /\ counter \in Nat /\ DOMAIN tasks \subseteq Nat /\ DOMAIN transcript \subseteq Nat
           /\ \A S \in SUBSET DOMAIN tasks : IsFiniteSet(S) /\ Cardinality(S) \in Nat
           /\ \A S \in SUBSET DOMAIN transcript : IsFiniteSet(S) /\ Cardinality(S) \in Nat
<1>1. turn \in [Turns -> TurnType] /\ store \in {"memory", "postgres"} /\ counter \in Nat
  BY StoresAssumption DEF RowTablesHold, StoresTypeOK
<1>2. /\ tasks \in [DOMAIN tasks -> TaskRow] /\ transcript \in [DOMAIN transcript -> Entry]
      /\ DOMAIN tasks \subseteq Nat /\ DOMAIN transcript \subseteq Nat
  BY DEF RowTablesHold, StoresTypeOK
<1>3. \A t \in Turns : turn[t].made \in Seq(Nat) /\ turn[t].no \in Nat /\ turn[t].met \subseteq Turns
  BY <1>1 DEF TurnType
<1>4. \A k \in DOMAIN tasks : /\ tasks[k].project \in Projects /\ tasks[k].id \in Nat
                              /\ tasks[k].by \in Turns \cup Imports
  BY <1>2 DEF TaskRow
<1>5. \A k \in DOMAIN transcript : /\ transcript[k].project \in Projects
                                   /\ transcript[k].seq \in Nat /\ transcript[k].by \in Turns
  BY <1>2 DEF Entry
<1>6. \A S \in SUBSET DOMAIN tasks : IsFiniteSet(S) /\ Cardinality(S) \in Nat
  BY UptoIsFinite DEF RowTablesHold
<1>7. \A S \in SUBSET DOMAIN transcript : IsFiniteSet(S) /\ Cardinality(S) \in Nat
  BY UptoIsFinite DEF RowTablesHold
<1>8. \A t \in Turns : turn[t].project \in Projects \cup {None}
  BY <1>1 DEF TurnType
<1> QED BY <1>1, <1>2, <1>3, <1>4, <1>5, <1>6, <1>7, <1>8

LEMMA NextIdIs == ASSUME RowTablesHold, NEW p PROVE NextId(p) \in Nat \ {0}
<1>1. Rows(p) \in SUBSET DOMAIN tasks
  BY DEF Rows
<1>2. Cardinality(Rows(p)) + 1 \in Nat \ {0}
  BY <1>1, TypesOf
<1>3. counter + 1 \in Nat \ {0}
  BY TypesOf
<1> QED BY <1>2, <1>3 DEF NextId

\* The next number of a thread is above those it has.
LEMMA NextSeqIs ==
    ASSUME RowTablesHold, NEW p
    PROVE  /\ NextSeq(p) \in Nat
           /\ Postgres => \A k \in Entries(p) : transcript[k].seq < NextSeq(p)
           /\ ~Postgres => NextSeq(p) = Cardinality(DOMAIN transcript)
<1>1. CASE ~Postgres
  BY <1>1, TypesOf DEF NextSeq
<1>2. CASE Postgres
  <2> DEFINE S == {transcript[k].seq : k \in Entries(p)} \cup {-1}
  <2>1. PICK n \in Nat : \A k \in DOMAIN transcript : transcript[k].seq <= n
    BY DEF RowTablesHold
  <2>2. \A k \in Entries(p) : transcript[k].seq \in Nat /\ transcript[k].seq <= n
    BY <2>1, TypesOf DEF Entries
  <2>3. S \in SUBSET (-1 .. n) /\ S # {} /\ -1 \in S
    BY <2>2
  <2>4. Max(S) \in S /\ \A y \in S : y <= Max(S)
    <3> HIDE DEF S
    <3> QED BY <2>3, GreatestIs
  <2>5. Max(S) \in Int /\ Max(S) + 1 \in Nat
    BY <2>3, <2>4
  <2>6. ASSUME NEW k \in Entries(p) PROVE transcript[k].seq < Max(S) + 1
    <3>1. transcript[k].seq \in S /\ transcript[k].seq \in Nat
      BY <2>2
    <3> HIDE DEF S
    <3> QED BY <2>4, <2>5, <3>1
  <2>7. NextSeq(p) = Max(S) + 1
    BY <1>2 DEF NextSeq
  <2> HIDE DEF S
  <2> QED BY <1>2, <2>5, <2>6, <2>7
<1> QED BY <1>1, <1>2

LEMMA DrawIs ==
    ASSUME RowTablesHold, NEW t \in Turns, Draw(t)
    PROVE  /\ Alone(t) /\ turn'[t].pc = "mint" /\ turn[t].pc = "plan"
           /\ turn'[t].made = turn[t].made /\ turn'[t].no = NextId(turn[t].project)
<1>1. turn[t] \in TurnType /\ NextId(turn[t].project) \in Nat
  BY TypesOf, NextIdIs
<1>2. turn' = [turn EXCEPT ![t] = [turn[t] EXCEPT !.pc = "mint", !.no = NextId(turn[t].project)]]
  BY DEF Draw
<1>3. [turn[t] EXCEPT !.pc = "mint", !.no = NextId(turn[t].project)] \in TurnType
  BY <1>1 DEF TurnType
<1>4. turn' \in [Turns -> TurnType]
  BY <1>2, <1>3, TypesOf
<1>5. turn'[t] = [turn[t] EXCEPT !.pc = "mint", !.no = NextId(turn[t].project)]
  BY <1>2, TypesOf
<1>6. \A s \in Turns : s # t => turn'[s] = turn[s]
  BY <1>2, TypesOf
<1>7. turn[t].pc = "plan"
  BY DEF Draw
<1> QED BY <1>1, <1>4, <1>5, <1>6, <1>7 DEF Alone, Over, TurnType

LEMMA InsertIs ==
    ASSUME RowTablesHold, NEW t \in Turns, Insert(t)
    PROVE  /\ Alone(t) /\ turn[t].pc = "mint"
           /\ IF Postgres /\ project[turn[t].project] # "alive"
              THEN turn'[t].pc = "failed" /\ turn'[t].made = <<>> /\ UNCHANGED tasks
              ELSE /\ turn'[t].pc \in {"plan", "edges"}
                   /\ turn'[t].made = Append(turn[t].made, turn[t].no)
                   /\ tasks' = Added(Task(turn[t].project, turn[t].no, t))
<1>1. turn[t] \in TurnType /\ turn[t].pc = "mint"
  BY TypesOf DEF Insert
<1>2. CASE Postgres /\ project[turn[t].project] # "alive"
  <2> DEFINE new == [turn[t] EXCEPT !.pc = "failed", !.no = 0, !.made = <<>>]
  <2>1. turn' = [turn EXCEPT ![t] = new] /\ UNCHANGED tasks
    BY <1>2 DEF Insert
  <2>2. new \in TurnType
    <3>1. <<>> \in Seq(Nat)
      OBVIOUS
    <3> QED BY <1>1, <3>1 DEF TurnType
  <2>3. turn' \in [Turns -> TurnType] /\ turn'[t] = new /\ \A s \in Turns : s # t => turn'[s] = turn[s]
    BY <2>1, <2>2, TypesOf
  <2> QED BY <1>1, <1>2, <2>1, <2>3 DEF Alone, Over, TurnType
<1>3. CASE ~(Postgres /\ project[turn[t].project] # "alive")
  <2> DEFINE made == Append(turn[t].made, turn[t].no)
             then == IF Len(made) < PlanSize THEN "plan" ELSE "edges"
             new  == [turn[t] EXCEPT !.made = made, !.no = 0, !.pc = then]
  <2>1. turn' = [turn EXCEPT ![t] = new] /\ tasks' = Added(Task(turn[t].project, turn[t].no, t))
    BY <1>3 DEF Insert
  <2>2. made \in Seq(Nat) /\ then \in {"plan", "edges"}
    BY TypesOf
  <2> HIDE DEF made, then
  <2>3. new \in TurnType
    BY <1>1, <2>2 DEF TurnType
  <2>4. turn' \in [Turns -> TurnType] /\ turn'[t] = new /\ \A s \in Turns : s # t => turn'[s] = turn[s]
    BY <2>1, <2>3, TypesOf
  <2>5. Alone(t) /\ turn'[t].pc = then /\ turn'[t].made = made
    BY <1>1, <2>2, <2>4 DEF Alone, Over, TurnType
  <2> QED BY <1>1, <1>3, <2>1, <2>2, <2>5 DEF made
<1> QED BY <1>2, <1>3

LEMMA AddDependenciesIs ==
    ASSUME RowTablesHold, NEW t \in Turns, AddDependencies(t)
    PROVE  /\ Alone(t) /\ turn[t].pc = "edges" /\ turn'[t].pc = "say" /\ turn'[t].made = turn[t].made
           /\ tasks' = IF Len(turn[t].made) < 2 THEN tasks
                       ELSE Blocked(turn[t].project, turn[t].made[1], turn[t].made[2])
<1>1. turn[t] \in TurnType /\ turn[t].pc = "edges"
  BY TypesOf DEF AddDependencies
<1> DEFINE new == [turn[t] EXCEPT !.pc = "say"]
<1>2. turn' = [turn EXCEPT ![t] = new]
  BY DEF AddDependencies
<1>3. new \in TurnType
  BY <1>1 DEF TurnType
<1>4. turn' \in [Turns -> TurnType] /\ turn'[t] = new /\ \A s \in Turns : s # t => turn'[s] = turn[s]
  BY <1>2, <1>3, TypesOf
<1>5. Alone(t) /\ turn'[t].pc = "say" /\ turn'[t].made = turn[t].made
  BY <1>1, <1>4 DEF Alone, Over, TurnType
<1>6. tasks' = IF Len(turn[t].made) < 2 THEN tasks
                       ELSE Blocked(turn[t].project, turn[t].made[1], turn[t].made[2])
  BY DEF AddDependencies
<1> QED BY <1>1, <1>5, <1>6

LEMMA PlanFailsIs ==
    ASSUME RowTablesHold, NEW t \in Turns, PlanFails(t)
    PROVE  Alone(t) /\ turn'[t].pc = "failed" /\ turn'[t].made = <<>> /\ Postgres
<1>1. turn[t] \in TurnType /\ turn[t].pc \in {"mint", "edges"} /\ Postgres
  BY TypesOf DEF PlanFails
<1> DEFINE new == [turn[t] EXCEPT !.pc = "failed", !.no = 0, !.made = <<>>]
<1>2. turn' = [turn EXCEPT ![t] = new]
  BY DEF PlanFails
<1>3. new \in TurnType
  <2>1. <<>> \in Seq(Nat)
    OBVIOUS
  <2> QED BY <1>1, <2>1 DEF TurnType
<1>4. turn' \in [Turns -> TurnType] /\ turn'[t] = new /\ \A s \in Turns : s # t => turn'[s] = turn[s]
  BY <1>2, <1>3, TypesOf
<1> QED BY <1>1, <1>4 DEF Alone, Over, TurnType

LEMMA SayIs ==
    ASSUME RowTablesHold, NEW t \in Turns, Say(t)
    PROVE  /\ Alone(t) /\ turn[t].pc = "say" /\ turn'[t].pc = "write" /\ turn'[t].made = turn[t].made
           /\ turn'[t].no = NextSeq(turn[t].project)
<1>1. turn[t] \in TurnType /\ turn[t].pc = "say" /\ NextSeq(turn[t].project) \in Nat
  BY TypesOf, NextSeqIs DEF Say
<1> DEFINE new == [turn[t] EXCEPT !.pc = "write", !.no = NextSeq(turn[t].project)]
<1>2. turn' = [turn EXCEPT ![t] = new]
  BY DEF Say
<1>3. new \in TurnType
  BY <1>1 DEF TurnType
<1>4. turn' \in [Turns -> TurnType] /\ turn'[t] = new /\ \A s \in Turns : s # t => turn'[s] = turn[s]
  BY <1>2, <1>3, TypesOf
<1> QED BY <1>1, <1>4 DEF Alone, Over, TurnType

\* Writing, or failing to.
LEMMA WriteIs ==
    ASSUME RowTablesHold, NEW t \in Turns, WriteEntry(t) \/ EntryFails(t)
    PROVE  /\ Alone(t) /\ turn[t].pc = "write" /\ turn'[t].pc \in {"say", "done"}
           /\ turn'[t].made = turn[t].made
<1>1. turn[t] \in TurnType /\ turn[t].pc = "write"
  BY TypesOf DEF WriteEntry, EntryFails
<1>2. PICK r \in {"user", "agent"}, next \in {"say", "done"} :
          turn' = [turn EXCEPT ![t] = [turn[t] EXCEPT !.role = r, !.no = 0, !.pc = next]]
  <2>1. CASE WriteEntry(t)
    <3> DEFINE next == IF turn[t].role = "user" THEN "say" ELSE "done"
    <3>1. turn' = [turn EXCEPT ![t] = [turn[t] EXCEPT !.role = "agent", !.no = 0, !.pc = next]]
      BY <2>1 DEF WriteEntry
    <3>2. next \in {"say", "done"}
      OBVIOUS
    <3> HIDE DEF next
    <3> QED BY <3>1, <3>2
  <2>2. CASE EntryFails(t)
    <3>1. turn' = [turn EXCEPT ![t] = [turn[t] EXCEPT !.pc = "done", !.no = 0]]
      BY <2>2 DEF EntryFails
    <3>2. turn[t].role \in {"user", "agent"}
      BY <1>1 DEF TurnType
    <3>3. [turn[t] EXCEPT !.pc = "done", !.no = 0]
            = [turn[t] EXCEPT !.role = turn[t].role, !.no = 0, !.pc = "done"]
      BY <1>1 DEF TurnType
    <3> QED BY <3>1, <3>2, <3>3
  <2> QED BY <2>1, <2>2
<1> DEFINE new == [turn[t] EXCEPT !.role = r, !.no = 0, !.pc = next]
<1>3. new \in TurnType
  BY <1>1 DEF TurnType
<1>4. turn' \in [Turns -> TurnType] /\ turn'[t] = new /\ \A s \in Turns : s # t => turn'[s] = turn[s]
  BY <1>2, <1>3, TypesOf
<1> QED BY <1>1, <1>4 DEF Alone, Over, TurnType

\* A turn begins, and the turns that run in its project hear of it.
Joins(t, p) ==
    /\ turn' \in [Turns -> TurnType]
    /\ turn[t].pc = "idle" /\ turn'[t].pc \in {"plan", "say"} /\ turn'[t].project = p
    /\ turn'[t].made = <<>> /\ turn'[t].met = RunningIn(p)
    /\ Postgres /\ project[p] # "alive" => turn'[t].cut
    /\ \A s \in Turns : s # t =>
           /\ turn'[s].pc = turn[s].pc /\ turn'[s].project = turn[s].project
           /\ turn'[s].made = turn[s].made /\ turn'[s].no = turn[s].no /\ turn'[s].cut = turn[s].cut
           /\ turn[s].met \subseteq turn'[s].met
           /\ s \in RunningIn(p) => t \in turn'[s].met

LEMMA BeginIs ==
    ASSUME RowTablesHold, NEW t \in Turns, NEW p \in Projects, Plan(t, p) \/ Converse(t, p)
    PROVE  Joins(t, p) /\ UNCHANGED <<store, project, tasks, counter, transcript, imported>>
<1>1. PICK first \in {"plan", "say"} : Begin(t, p, first)
  BY DEF Plan, Converse
<1> DEFINE late == Postgres /\ project[p] # "alive"
           new == [Fresh EXCEPT !.pc = first, !.project = p, !.met = RunningIn(p), !.cut = late]
<1>2. /\ new \in TurnType /\ new.pc = first /\ new.project = p /\ new.met = RunningIn(p)
      /\ new.made = <<>> /\ new.cut = late
  <2>1. RunningIn(p) \in SUBSET Turns /\ <<>> \in Seq(Nat) /\ late \in BOOLEAN
    BY DEF RunningIn
  <2> HIDE DEF late
  <2> QED BY <2>1 DEF Fresh, TurnType
<1>3. \A s \in Turns : turn[s] \in TurnType
  BY TypesOf
<1>4. ASSUME NEW s \in Turns PROVE [turn[s] EXCEPT !.met = @ \cup {t}] \in TurnType
  BY <1>3 DEF TurnType
<1>5. turn' = [s \in Turns |->
           IF s = t THEN new
           ELSE IF s \in RunningIn(p) THEN [turn[s] EXCEPT !.met = @ \cup {t}] ELSE turn[s]]
  BY <1>1 DEF Begin
<1> HIDE DEF new
<1>6. turn' \in [Turns -> TurnType]
  BY <1>2, <1>3, <1>4, <1>5
<1>7. turn'[t] = new /\ turn[t].pc = "idle"
  BY <1>1, <1>5 DEF Begin
<1>8. ASSUME NEW s \in Turns, s # t
      PROVE  /\ turn'[s].pc = turn[s].pc /\ turn'[s].project = turn[s].project
             /\ turn'[s].made = turn[s].made /\ turn'[s].no = turn[s].no /\ turn'[s].cut = turn[s].cut
             /\ turn[s].met \subseteq turn'[s].met
             /\ s \in RunningIn(p) => t \in turn'[s].met
  <2>1. CASE s \in RunningIn(p)
    <3>1. turn'[s] = [turn[s] EXCEPT !.met = @ \cup {t}] /\ turn[s] \in TurnType
      BY <1>3, <1>5, <1>8, <2>1
    <3> QED BY <3>1 DEF TurnType
  <2>2. CASE s \notin RunningIn(p)
    BY <1>5, <1>8, <2>2
  <2> QED BY <2>1, <2>2
<1>9. UNCHANGED <<store, project, tasks, counter, transcript, imported>>
  BY <1>1 DEF Begin
<1> QED BY <1>2, <1>6, <1>7, <1>8, <1>9 DEF Joins

\* The turns that run in a project that goes are cut.
Warned(P) ==
    /\ turn' \in [Turns -> TurnType]
    /\ \A s \in Turns :
           /\ turn'[s].pc = turn[s].pc /\ turn'[s].project = turn[s].project
           /\ turn'[s].made = turn[s].made /\ turn'[s].no = turn[s].no /\ turn'[s].met = turn[s].met
           /\ turn[s].cut => turn'[s].cut
           /\ Postgres /\ turn[s].project \in P /\ Runs(s) => turn'[s].cut

LEMMA CutIs ==
    ASSUME RowTablesHold, NEW P, Cut(P)
    PROVE  Warned(P)
<1>1. \A s \in Turns : turn[s] \in TurnType
  BY TypesOf
<1>2. \A s \in Turns : [turn[s] EXCEPT !.cut = TRUE] \in TurnType
  <2>1. ASSUME NEW j \in TurnType, NEW b \in BOOLEAN PROVE [j EXCEPT !.cut = b] \in TurnType
    BY DEF TurnType
  <2> QED BY <1>1, <2>1
<1>3. turn' \in [Turns -> TurnType]
  BY <1>1, <1>2 DEF Cut
<1>4. ASSUME NEW s \in Turns
      PROVE  /\ turn'[s].pc = turn[s].pc /\ turn'[s].project = turn[s].project
             /\ turn'[s].made = turn[s].made /\ turn'[s].no = turn[s].no /\ turn'[s].met = turn[s].met
             /\ turn[s].cut => turn'[s].cut
             /\ Postgres /\ turn[s].project \in P /\ Runs(s) => turn'[s].cut
  <2>1. CASE Postgres /\ turn[s].project \in P /\ turn[s].pc \notin Over
    <3>1. turn'[s] = [turn[s] EXCEPT !.cut = TRUE] /\ turn[s] \in TurnType
      BY <1>1, <2>1 DEF Cut
    <3> QED BY <3>1 DEF TurnType
  <2>2. CASE ~(Postgres /\ turn[s].project \in P /\ turn[s].pc \notin Over)
    <3>1. turn'[s] = turn[s]
      BY <2>2 DEF Cut
    <3> QED BY <2>2, <3>1 DEF Runs
  <2> QED BY <2>1, <2>2
<1> QED BY <1>3, <1>4 DEF Warned

\* What all turns keep, whatever happens.
Onward ==
    /\ turn' \in [Turns -> TurnType]
    /\ \A s \in Turns : turn[s].pc # "idle" =>
           /\ turn'[s].pc # "idle" /\ turn'[s].project = turn[s].project
           /\ turn[s].met \subseteq turn'[s].met
           /\ turn[s].cut => turn'[s].cut
           /\ turn'[s].pc \notin Over => turn[s].pc \notin Over

LEMMA AllGoOn ==
    ASSUME RowTablesHold
    PROVE  /\ \A t \in Turns : Alone(t) => Onward
           /\ \A t \in Turns, p \in Projects : Joins(t, p) => Onward
           /\ \A P : Warned(P) => Onward
           /\ UNCHANGED turn => Onward
<1>1. ASSUME NEW t \in Turns, Alone(t) PROVE Onward
  BY <1>1 DEF Alone, Onward
<1>2. ASSUME NEW t \in Turns, NEW p \in Projects, Joins(t, p) PROVE Onward
  BY <1>2 DEF Joins, Onward, Over
<1>3. ASSUME NEW P, Warned(P) PROVE Onward
  BY <1>3 DEF Warned, Onward
<1>4. ASSUME UNCHANGED turn PROVE Onward
  BY <1>4, TypesOf DEF Onward
<1> QED BY <1>1, <1>2, <1>3, <1>4

\* A row at its place: the last one in the table, that of its id in the dict.
Placed(c, row) ==
    /\ DOMAIN tasks' = DOMAIN tasks \cup {c} /\ tasks'[c] = row
    /\ tasks' \in [DOMAIN tasks' -> TaskRow] /\ \E n \in Nat : Upto(tasks, n)'
    /\ \A k \in DOMAIN tasks : k # c => tasks'[k] = tasks[k]
    /\ Postgres => c \notin DOMAIN tasks
    /\ c \notin DOMAIN tasks => \A k \in DOMAIN tasks : k < c
    /\ IF c \in DOMAIN tasks THEN tasks[c].id = row.id
                             ELSE Postgres \/ \A k \in DOMAIN tasks : tasks[k].id # row.id

LEMMA TaskIs ==
    ASSUME NEW p \in Projects, NEW n \in Nat, NEW who \in Turns \cup Imports
    PROVE  /\ Task(p, n, who) \in TaskRow
           /\ Task(p, n, who).project = p /\ Task(p, n, who).id = n /\ Task(p, n, who).by = who
           /\ Task(p, n, who).deps = {} /\ Task(p, n, who).branch = None
  BY DEF Task, TaskRow

LEMMA AddedIs ==
    ASSUME RowTablesHold, NEW row \in TaskRow, tasks' = Added(row)
    PROVE  \E c \in Nat : Placed(c, row)
<1> DEFINE same == {k \in DOMAIN tasks : tasks[k].id = row.id}
<1>1. PICK n \in Nat : Upto(tasks, n)
  BY DEF RowTablesHold
<1>2. CASE Postgres \/ same = {}
  <2>1. tasks' = Extended(tasks, row)
    BY <1>2 DEF Added
  <2> DEFINE c == After(tasks)
  <2>2. /\ c \in Nat /\ c \notin DOMAIN tasks /\ DOMAIN tasks' = DOMAIN tasks \cup {c} /\ tasks'[c] = row
        /\ \A k \in DOMAIN tasks : k < c /\ tasks'[k] = tasks[k]
    <3>1. /\ c \in 1 .. n + 1 /\ c \notin DOMAIN tasks
          /\ DOMAIN Extended(tasks, row) = DOMAIN tasks \cup {c} /\ Extended(tasks, row)[c] = row
          /\ \A k \in DOMAIN tasks : k < c /\ Extended(tasks, row)[k] = tasks[k]
      BY <1>1, ExtendedBy
    <3> HIDE DEF c
    <3> QED BY <2>1, <3>1
  <2>3. tasks' \in [DOMAIN tasks' -> TaskRow]
    BY <1>1, <2>1, ExtendedIn, TypesOf
  <2>4. Upto(tasks', n + 1) /\ n + 1 \in Nat
    <3>1. Upto(Extended(tasks, row), n + 1)
      BY <1>1, ExtendedBy
    <3> QED BY <2>1, <3>1
  <2>5. \E m \in Nat : Upto(tasks, m)'
    BY <2>4 DEF Upto
  <2> HIDE DEF c
  <2>6. Placed(c, row)
    BY <1>2, <2>2, <2>3, <2>5 DEF Placed
  <2> QED BY <2>2, <2>6
<1>3. CASE ~(Postgres \/ same = {})
  <2> DEFINE c == CHOOSE k \in same : TRUE
  <2>1. c \in same /\ tasks' = [tasks EXCEPT ![c] = row]
    BY <1>3 DEF Added
  <2> HIDE DEF c
  <2>2. c \in DOMAIN tasks /\ tasks[c].id = row.id /\ c \in Nat
    BY <2>1, TypesOf
  <2>3. /\ DOMAIN tasks' = DOMAIN tasks /\ tasks'[c] = row
        /\ \A k \in DOMAIN tasks : k # c => tasks'[k] = tasks[k]
    BY <2>1, <2>2
  <2>4. tasks' \in [DOMAIN tasks' -> TaskRow]
    BY <2>1, <2>2, <2>3, TypesOf
  <2>5. \E m \in Nat : Upto(tasks, m)'
    BY <1>1, <2>3 DEF Upto
  <2>6. Placed(c, row)
    BY <1>3, <2>2, <2>3, <2>4, <2>5 DEF Placed
  <2> QED BY <2>2, <2>6
<1> QED BY <1>2, <1>3

\* The rows stay what they are but for their edges and branches.
Retouched ==
    /\ DOMAIN tasks' = DOMAIN tasks /\ tasks' \in [DOMAIN tasks' -> TaskRow]
    /\ \A k \in DOMAIN tasks :
           tasks'[k].project = tasks[k].project /\ tasks'[k].id = tasks[k].id /\ tasks'[k].by = tasks[k].by

Hit(p, n, k) == tasks[k].id = n /\ (Postgres => tasks[k].project = p)
LEMMA BlockedIs ==
    ASSUME RowTablesHold, NEW p, NEW blocker \in Nat, NEW n \in Nat, tasks' = Blocked(p, blocker, n)
    PROVE  /\ Retouched
           /\ \A k \in DOMAIN tasks :
                  /\ tasks'[k].branch = tasks[k].branch
                  /\ tasks'[k].deps = IF Hit(p, n, k) THEN tasks[k].deps \cup {blocker} ELSE tasks[k].deps
<1> DEFINE hit == IF Postgres THEN Named(p, n) ELSE {k \in DOMAIN tasks : tasks[k].id = n}
<1>1. \A k \in DOMAIN tasks : k \in hit <=> Hit(p, n, k)
  BY DEF Hit, Named, Rows
<1>2. tasks' = [k \in DOMAIN tasks |->
                    IF k \in hit THEN [tasks[k] EXCEPT !.deps = @ \cup {blocker}] ELSE tasks[k]]
  BY DEF Blocked
<1> HIDE DEF hit
<1>3. \A k \in DOMAIN tasks : tasks[k] \in TaskRow
  BY TypesOf
<1>4. ASSUME NEW k \in DOMAIN tasks
      PROVE  /\ tasks'[k] \in TaskRow
             /\ tasks'[k].project = tasks[k].project /\ tasks'[k].id = tasks[k].id
             /\ tasks'[k].by = tasks[k].by /\ tasks'[k].branch = tasks[k].branch
             /\ tasks'[k].deps = IF Hit(p, n, k) THEN tasks[k].deps \cup {blocker} ELSE tasks[k].deps
  <2>1. CASE k \in hit
    <3>1. tasks'[k] = [tasks[k] EXCEPT !.deps = @ \cup {blocker}] /\ tasks[k] \in TaskRow
      BY <1>2, <1>3, <2>1
    <3> QED BY <1>1, <2>1, <3>1 DEF TaskRow
  <2>2. CASE k \notin hit
    BY <1>1, <1>2, <1>3, <2>2
  <2> QED BY <2>1, <2>2
<1>5. DOMAIN tasks' = DOMAIN tasks
  BY <1>2
<1>6. tasks' \in [DOMAIN tasks' -> TaskRow]
  BY <1>2, <1>4, <1>5
<1> QED BY <1>4, <1>5, <1>6 DEF Retouched

LEMMA ClaimIs ==
    ASSUME RowTablesHold, NEW p, NEW n, NEW b \in Branches, Claim(p, n, b)
    PROVE  /\ Retouched /\ UNCHANGED <<store, project, counter, turn, transcript, imported>>
           /\ \E c \in DOMAIN tasks :
                  /\ tasks[c].project = p /\ tasks'[c].branch = b
                  /\ \A k \in DOMAIN tasks : /\ tasks'[k].deps = tasks[k].deps
                                             /\ k # c => tasks'[k].branch = tasks[k].branch
                                             /\ tasks[k].project = p => tasks[k].branch # b
<1>1. PICK c \in DOMAIN tasks :
          {c} = {j \in Named(p, n) : tasks[j].branch = None} /\ tasks' = [tasks EXCEPT ![c].branch = b]
  BY DEF Claim
<1>2. c \in Rows(p) /\ tasks[c].project = p
  BY <1>1 DEF Named, Rows
<1>3. \A k \in DOMAIN tasks : tasks[k] \in TaskRow
  BY TypesOf
<1>4. tasks' = [tasks EXCEPT ![c] = [tasks[c] EXCEPT !.branch = b]]
  BY <1>1
<1>5. [tasks[c] EXCEPT !.branch = b] \in TaskRow
  BY <1>3 DEF TaskRow
<1>6. tasks' \in [DOMAIN tasks -> TaskRow] /\ DOMAIN tasks' = DOMAIN tasks
  BY <1>4, <1>5, TypesOf
<1>7. tasks'[c] = [tasks[c] EXCEPT !.branch = b] /\ \A k \in DOMAIN tasks : k # c => tasks'[k] = tasks[k]
  BY <1>4, TypesOf
<1>8. /\ tasks'[c].project = tasks[c].project /\ tasks'[c].id = tasks[c].id /\ tasks'[c].by = tasks[c].by
      /\ tasks'[c].deps = tasks[c].deps /\ tasks'[c].branch = b
  BY <1>3, <1>7 DEF TaskRow
<1>9. Retouched
  BY <1>6, <1>7, <1>8 DEF Retouched
<1>10. \A k \in DOMAIN tasks : tasks[k].project = p => tasks[k].branch # b
  BY DEF Claim, Rows
<1>11. UNCHANGED <<store, project, counter, turn, transcript, imported>>
  BY DEF Claim
<1> QED BY <1>2, <1>7, <1>8, <1>9, <1>10, <1>11

\* The rows of the projects that go.
Left(P) ==
    /\ tasks' \in [DOMAIN tasks' -> TaskRow]
    /\ DOMAIN tasks' = IF Postgres THEN Outside(tasks, P) ELSE DOMAIN tasks
    /\ \A k \in DOMAIN tasks' : k \in DOMAIN tasks /\ tasks'[k] = tasks[k]

LEMMA GoneIs ==
    ASSUME RowTablesHold, NEW P, Gone(P)
    PROVE  Left(P)
<1>1. CASE Postgres
  <2>1. Outside(tasks, P) \in SUBSET DOMAIN tasks
    BY DEF Outside
  <2>2. tasks' = Restrict(tasks, Outside(tasks, P))
    BY <1>1 DEF Gone
  <2> DEFINE S == Outside(tasks, P)
  <2>3. /\ DOMAIN Restrict(tasks, S) = S /\ Restrict(tasks, S) \in [S -> TaskRow]
        /\ \A k \in S : Restrict(tasks, S)[k] = tasks[k]
    BY <2>1, RestrictedTo, TypesOf
  <2> QED BY <1>1, <2>1, <2>2, <2>3 DEF Left
<1>2. CASE ~Postgres
  <2>1. tasks' = tasks
    BY <1>2 DEF Gone
  <2> QED BY <1>2, <2>1, TypesOf DEF Left
<1> QED BY <1>1, <1>2

-----------------------------------------------------------------------------
(* Types and turns.                                                        *)

TaskTable == /\ DOMAIN tasks \subseteq Nat /\ tasks \in [DOMAIN tasks -> TaskRow]
             /\ \E n \in Nat : Upto(tasks, n)
TalkTable == /\ DOMAIN transcript \subseteq Nat /\ transcript \in [DOMAIN transcript -> Entry]
             /\ \E n \in Nat : Upto(transcript, n) /\ \A k \in DOMAIN transcript : transcript[k].seq <= n
OtherTypes ==
    /\ store \in Kinds /\ project \in [Projects -> {"alive", "dropped", "cascaded"}]
    /\ counter \in Nat /\ imported \subseteq Imports

LEMMA TablesAre ==
    RowTablesHold <=> TaskTable /\ TalkTable /\ OtherTypes /\ turn \in [Turns -> TurnType]
  BY DEF RowTablesHold, StoresTypeOK, TaskTable, TalkTable, OtherTypes

LEMMA TaskTableKept ==
    ASSUME RowTablesHold,
           \/ UNCHANGED tasks \/ Retouched
           \/ \E c \in Nat, row \in TaskRow : Placed(c, row)
           \/ \E P : Left(P)
    PROVE  TaskTable'
<1>0. TaskTable
  BY TablesAre
<1>1. CASE UNCHANGED tasks
  BY <1>0, <1>1 DEF TaskTable, Upto
<1>2. CASE Retouched
  BY <1>0, <1>2 DEF TaskTable, Upto, Retouched
<1>3. ASSUME NEW c \in Nat, NEW row \in TaskRow, Placed(c, row) PROVE TaskTable'
  BY <1>0, <1>3 DEF TaskTable, Placed
<1>4. ASSUME NEW P, Left(P) PROVE TaskTable'
  <2>1. DOMAIN tasks' \subseteq DOMAIN tasks /\ tasks' \in [DOMAIN tasks' -> TaskRow]
    BY <1>4 DEF Left, Outside
  <2> QED BY <1>0, <2>1 DEF TaskTable, Upto
<1> QED BY <1>1, <1>2, <1>3, <1>4

\* What a turn writes comes last.
Written(c, row) ==
    /\ DOMAIN transcript' = DOMAIN transcript \cup {c} /\ c \notin DOMAIN transcript
    /\ transcript'[c] = row /\ \A k \in DOMAIN transcript : k < c /\ transcript'[k] = transcript[k]

LEMMA WriteEntryIs ==
    ASSUME RowTablesHold, TurnsHold, NEW t \in Turns, WriteEntry(t)
    PROVE  \E c \in Nat, row \in Entry :
               /\ Written(c, row) /\ TalkTable'
               /\ row.project = turn[t].project /\ row.by = t /\ row.seq = turn[t].no
<1> DEFINE row == [project |-> turn[t].project, by |-> t, role |-> turn[t].role, seq |-> turn[t].no]
           c == After(transcript)
<1>1. turn[t] \in TurnType /\ turn[t].pc = "write" /\ transcript' = Extended(transcript, row)
  BY TypesOf DEF WriteEntry
<1>2. turn[t].project \in Projects
  BY <1>1 DEF TurnsHold
<1>3. row \in Entry /\ row.project = turn[t].project /\ row.by = t /\ row.seq = turn[t].no /\ row.seq \in Nat
  BY <1>1, <1>2 DEF Entry, TurnType
<1> HIDE DEF row
<1>4. PICK n \in Nat : Upto(transcript, n) /\ \A k \in DOMAIN transcript : transcript[k].seq <= n
  BY DEF RowTablesHold
<1>5. /\ c \in 1 .. n + 1 /\ c \notin DOMAIN transcript /\ Upto(Extended(transcript, row), n + 1)
      /\ DOMAIN Extended(transcript, row) = DOMAIN transcript \cup {c} /\ Extended(transcript, row)[c] = row
      /\ \A k \in DOMAIN transcript : k < c /\ Extended(transcript, row)[k] = transcript[k]
  BY <1>4, ExtendedBy
<1>6. Extended(transcript, row) \in [DOMAIN Extended(transcript, row) -> Entry]
  BY <1>3, <1>4, ExtendedIn, TypesOf
<1> HIDE DEF c
<1>7. Written(c, row) /\ c \in Nat
  BY <1>1, <1>5 DEF Written
<1>8. TalkTable'
  <2> DEFINE m == n + 1 + row.seq
  <2>1. m \in Nat /\ n + 1 <= m /\ row.seq <= m /\ n <= m
    BY <1>3
  <2> HIDE DEF m
  <2>2. DOMAIN transcript' \subseteq 1 .. m
    BY <1>1, <1>5, <2>1 DEF Upto
  <2>3. \A k \in DOMAIN transcript : transcript[k].seq \in Nat
    BY TypesOf
  <2>4. \A k \in DOMAIN transcript' : transcript'[k].seq <= m
    BY <1>3, <1>4, <1>7, <2>1, <2>3 DEF Written
  <2>5. transcript' \in [DOMAIN transcript' -> Entry]
    BY <1>1, <1>6
  <2> QED BY <2>1, <2>2, <2>4, <2>5 DEF TalkTable, Upto
<1> QED BY <1>3, <1>7, <1>8

\* A deletion takes the transcript of its project.
Forgot(p) ==
    /\ DOMAIN transcript' = IF Postgres THEN Outside(transcript, {p}) ELSE DOMAIN transcript
    /\ \A k \in DOMAIN transcript' : k \in DOMAIN transcript /\ transcript'[k] = transcript[k]

LEMMA DeleteProjectIs ==
    ASSUME RowTablesHold, NEW p \in Projects, DeleteProject(p)
    PROVE  /\ Left({p}) /\ Warned({p}) /\ Forgot(p) /\ TalkTable'
           /\ project' = [project EXCEPT ![p] = "dropped"] /\ UNCHANGED <<store, counter, imported>>
<1>1. Gone({p}) /\ Cut({p})
      /\ project' = [project EXCEPT ![p] = "dropped"] /\ UNCHANGED <<store, counter, imported>>
  BY DEF DeleteProject
<1>2. Left({p}) /\ Warned({p})
  BY <1>1, GoneIs, CutIs
<1>3. Forgot(p) /\ transcript' \in [DOMAIN transcript' -> Entry] /\ DOMAIN transcript' \subseteq DOMAIN transcript
  <2>1. CASE Postgres
    <3> DEFINE S == Outside(transcript, {p})
    <3>1. S \in SUBSET DOMAIN transcript /\ transcript' = Restrict(transcript, S)
      BY <2>1 DEF Outside, DeleteProject
    <3>2. /\ DOMAIN Restrict(transcript, S) = S /\ Restrict(transcript, S) \in [S -> Entry]
          /\ \A k \in S : Restrict(transcript, S)[k] = transcript[k]
      BY <3>1, RestrictedTo, TypesOf
    <3> HIDE DEF S
    <3>3. DOMAIN transcript' = S /\ S \subseteq DOMAIN transcript /\ \A k \in S : transcript'[k] = transcript[k]
      BY <3>1, <3>2
    <3>4. transcript' \in [DOMAIN transcript' -> Entry]
      BY <3>1, <3>2, <3>3
    <3> QED BY <2>1, <3>3, <3>4 DEF Forgot, S
  <2>2. CASE ~Postgres
    <3>1. transcript' = transcript
      BY <2>2 DEF DeleteProject
    <3> QED BY <2>2, <3>1, TypesOf DEF Forgot
  <2> QED BY <2>1, <2>2
<1>4. TalkTable'
  BY <1>3, TablesAre DEF TalkTable, Upto, Forgot
<1> QED BY <1>1, <1>2, <1>3, <1>4

LEMMA DeleteSquadIs ==
    ASSUME RowTablesHold, DeleteSquad
    PROVE  /\ \E P \in SUBSET Projects :
                  /\ P = {p \in Projects : project[p] = "alive"} /\ Left(P) /\ Warned(P)
                  /\ project' = [p \in Projects |-> IF p \in P THEN "cascaded" ELSE project[p]]
           /\ UNCHANGED <<store, counter, transcript, imported>>
<1> DEFINE P == {p \in Projects : project[p] = "alive"}
<1>1. /\ Gone(P) /\ Cut(P) /\ project' = [p \in Projects |-> IF p \in P THEN "cascaded" ELSE project[p]]
      /\ UNCHANGED <<store, counter, transcript, imported>>
  BY DEF DeleteSquad
<1>2. Left(P) /\ Warned(P)
  <2> HIDE DEF P
  <2> QED BY <1>1, GoneIs, CutIs
<1> QED BY <1>1, <1>2

\* An import puts in a row of its own, or none.
LEMMA ImportIs ==
    ASSUME RowTablesHold, NEW i \in Imports, ImportTask(i)
    PROVE  /\ imported' = imported \cup {i} /\ UNCHANGED <<store, project, counter, turn, transcript>>
           /\ \/ UNCHANGED tasks
              \/ \E c \in Nat, row \in TaskRow :
                     /\ Placed(c, row) /\ row.by = i /\ row.deps = {} /\ row.branch = None
                     /\ row.project = Target /\ (Postgres => project[Target] = "alive")
<1>1. CASE Postgres /\ project[Target] # "alive"
  BY <1>1 DEF ImportTask
<1>2. CASE ~(Postgres /\ project[Target] # "alive")
  <2> DEFINE row == Task(Target, ImportedId, i)
  <2>1. tasks' = Added(row)
    BY <1>2 DEF ImportTask
  <2>2. /\ row \in TaskRow /\ row.by = i /\ row.deps = {} /\ row.branch = None /\ row.project = Target
    BY TaskIs, StoresAssumption
  <2> HIDE DEF row
  <2>3. PICK c \in Nat : Placed(c, row)
    BY <2>1, <2>2, AddedIs
  <2>4. imported' = imported \cup {i} /\ UNCHANGED <<store, project, counter, turn, transcript>>
    BY DEF ImportTask
  <2> QED BY <1>2, <2>2, <2>3, <2>4
<1> QED BY <1>1, <1>2

\* A plan's insertion.
LEMMA InsertPlaces ==
    ASSUME RowTablesHold, TurnsHold, NEW t \in Turns, Insert(t),
           ~(Postgres /\ project[turn[t].project] # "alive")
    PROVE  \E c \in Nat, row \in TaskRow :
               /\ Placed(c, row) /\ row.by = t /\ row.deps = {} /\ row.branch = None
               /\ row.project = turn[t].project /\ row.id = turn[t].no
<1> DEFINE row == Task(turn[t].project, turn[t].no, t)
<1>1. turn[t].project \in Projects /\ turn[t].no \in Nat
  BY InsertIs, TypesOf DEF TurnsHold
<1>2. tasks' = Added(row)
  BY InsertIs
<1>3. /\ row \in TaskRow /\ row.by = t /\ row.deps = {} /\ row.branch = None
      /\ row.project = turn[t].project /\ row.id = turn[t].no
  BY <1>1, TaskIs
<1> HIDE DEF row
<1>4. PICK c \in Nat : Placed(c, row)
  BY <1>2, <1>3, AddedIs
<1> QED BY <1>3, <1>4

LEMMA RetouchedIs ==
    ASSUME RowTablesHold, NEW t \in Turns, AddDependencies(t)
    PROVE  UNCHANGED tasks \/ Retouched
<1>1. CASE Len(turn[t].made) < 2
  BY <1>1, AddDependenciesIs
<1>2. CASE ~(Len(turn[t].made) < 2)
  <2>1. turn[t].made[1] \in Nat /\ turn[t].made[2] \in Nat
    BY <1>2, TypesOf
  <2> QED BY <1>2, <2>1, AddDependenciesIs, BlockedIs
<1> QED BY <1>1, <1>2

\* What the steps of one turn leave alone.
LEMMA OwnSteps ==
    ASSUME RowTablesHold, NEW t \in Turns,
           Draw(t) \/ Insert(t) \/ AddDependencies(t) \/ PlanFails(t) \/ Say(t) \/ WriteEntry(t) \/ EntryFails(t)
    PROVE  /\ Alone(t) /\ UNCHANGED <<store, project, imported>>
           /\ ~WriteEntry(t) => UNCHANGED transcript
           /\ ~Draw(t) => UNCHANGED counter
           /\ ~Insert(t) /\ ~AddDependencies(t) => UNCHANGED tasks
           /\ counter' = IF Draw(t) /\ ~Postgres THEN counter + 1 ELSE counter
<1>1. Alone(t)
  BY DrawIs, InsertIs, AddDependenciesIs, PlanFailsIs, SayIs, WriteIs
<1>2. UNCHANGED <<store, project, imported>>
  BY DEF Draw, Insert, AddDependencies, PlanFails, Say, WriteEntry, EntryFails
<1>3. /\ ~WriteEntry(t) => UNCHANGED transcript
      /\ ~Draw(t) => UNCHANGED counter
      /\ ~Insert(t) /\ ~AddDependencies(t) => UNCHANGED tasks
  BY DEF Draw, Insert, AddDependencies, PlanFails, Say, WriteEntry, EntryFails
<1>4. Draw(t) => counter' = IF Postgres THEN counter ELSE counter + 1
  BY DEF Draw
<1> QED BY <1>1, <1>2, <1>3, <1>4

LEMMA TablesNext ==
    ASSUME TaskTable', TalkTable', OtherTypes', turn' \in [Turns -> TurnType]
    PROVE  RowTablesHold'
  BY DEF RowTablesHold, StoresTypeOK, TaskTable, TalkTable, OtherTypes

LEMMA TablesKeep ==
    ASSUME RowTablesHold, TurnsHold, StoresNext
    PROVE  RowTablesHold' /\ Onward
<1>0. TaskTable /\ TalkTable /\ OtherTypes /\ turn \in [Turns -> TurnType]
  BY TablesAre
<1>u. ASSUME UNCHANGED transcript PROVE TalkTable'
  BY <1>0, <1>u DEF TalkTable, Upto
<1>o. ASSUME UNCHANGED <<store, project, imported>>, counter' \in Nat PROVE OtherTypes'
  BY <1>0, <1>o DEF OtherTypes
<1>1. ASSUME NEW t \in Turns,
             Draw(t) \/ Insert(t) \/ AddDependencies(t) \/ PlanFails(t) \/ Say(t) \/ WriteEntry(t) \/ EntryFails(t)
      PROVE  RowTablesHold' /\ Onward
  <2>1. /\ Alone(t) /\ UNCHANGED <<store, project, imported>>
        /\ ~WriteEntry(t) => UNCHANGED transcript
        /\ ~Insert(t) /\ ~AddDependencies(t) => UNCHANGED tasks
        /\ counter' = IF Draw(t) /\ ~Postgres THEN counter + 1 ELSE counter
    BY <1>1, OwnSteps
  <2>2. OtherTypes'
    BY <1>o, <2>1, TypesOf
  <2>3. TalkTable'
    BY <1>u, <2>1, WriteEntryIs
  <2>4. TaskTable'
    <3>1. Insert(t) => TaskTable'
      <4> SUFFICES ASSUME Insert(t) PROVE TaskTable'
        OBVIOUS
      <4>1. CASE Postgres /\ project[turn[t].project] # "alive"
        <5>1. UNCHANGED tasks
          BY <4>1, InsertIs
        <5> QED BY <5>1, TaskTableKept
      <4>2. CASE ~(Postgres /\ project[turn[t].project] # "alive")
        BY <4>2, InsertPlaces, TaskTableKept
      <4> QED BY <4>1, <4>2
    <3>2. AddDependencies(t) => TaskTable'
      BY RetouchedIs, TaskTableKept
    <3> QED BY <2>1, <3>1, <3>2, TaskTableKept
  <2>5. turn' \in [Turns -> TurnType]
    BY <2>1 DEF Alone
  <2>6. Onward
    BY <2>1, AllGoOn
  <2> QED BY <2>2, <2>3, <2>4, <2>5, <2>6, TablesNext
<1>2. ASSUME NEW t \in Turns, NEW p \in Projects, Plan(t, p) \/ Converse(t, p)
      PROVE  RowTablesHold' /\ Onward
  <2>1. Joins(t, p) /\ UNCHANGED <<store, project, tasks, counter, transcript, imported>>
    BY <1>2, BeginIs
  <2>2. OtherTypes' /\ TalkTable' /\ TaskTable'
    BY <1>u, <1>o, <2>1, TaskTableKept, TypesOf
  <2>3. Onward
    BY <2>1, AllGoOn
  <2>4. turn' \in [Turns -> TurnType]
    BY <2>1 DEF Joins
  <2> QED BY <2>2, <2>3, <2>4, TablesNext
<1>3. ASSUME NEW p \in Projects, DeleteProject(p) PROVE RowTablesHold' /\ Onward
  <2>1. /\ Left({p}) /\ Warned({p}) /\ TalkTable'
        /\ project' = [project EXCEPT ![p] = "dropped"] /\ UNCHANGED <<store, counter, imported>>
    BY <1>3, DeleteProjectIs
  <2>2. OtherTypes'
    BY <1>0, <2>1 DEF OtherTypes
  <2>3. TaskTable' /\ Onward
    BY <2>1, TaskTableKept, AllGoOn
  <2>4. turn' \in [Turns -> TurnType]
    BY <2>1 DEF Warned
  <2> QED BY <2>1, <2>2, <2>3, <2>4, TablesNext
<1>4. CASE DeleteSquad
  <2>1. PICK P \in SUBSET Projects :
            /\ Left(P) /\ Warned(P) /\ project' = [p \in Projects |-> IF p \in P THEN "cascaded" ELSE project[p]]
    BY <1>4, DeleteSquadIs
  <2>2. UNCHANGED <<store, counter, transcript, imported>>
    BY <1>4, DeleteSquadIs
  <2>3. OtherTypes'
    BY <1>0, <2>1, <2>2 DEF OtherTypes
  <2>4. TaskTable' /\ Onward /\ TalkTable'
    BY <1>u, <2>1, <2>2, TaskTableKept, AllGoOn
  <2>5. turn' \in [Turns -> TurnType]
    BY <2>1 DEF Warned
  <2> QED BY <2>3, <2>4, <2>5, TablesNext
<1>5. ASSUME NEW i \in Imports, ImportTask(i) PROVE RowTablesHold' /\ Onward
  <2>1. imported' = imported \cup {i} /\ UNCHANGED <<store, project, counter, turn, transcript>>
    BY <1>5, ImportIs
  <2>2. OtherTypes'
    BY <1>0, <1>5, <2>1 DEF OtherTypes
  <2>3. TaskTable' /\ Onward /\ TalkTable'
    BY <1>5, <1>u, <2>1, ImportIs, TaskTableKept, AllGoOn
  <2> QED BY <1>0, <2>1, <2>2, <2>3, TablesNext
<1>6. ASSUME NEW p, NEW n, NEW b \in Branches, Claim(p, n, b) PROVE RowTablesHold' /\ Onward
  <2>1. Retouched /\ UNCHANGED <<store, project, counter, turn, transcript, imported>>
    BY <1>6, ClaimIs
  <2>2. OtherTypes' /\ TaskTable' /\ Onward /\ TalkTable'
    BY <1>u, <1>o, <2>1, TaskTableKept, AllGoOn, TypesOf
  <2> QED BY <1>0, <2>1, <2>2, TablesNext
<1> QED BY <1>1, <1>2, <1>3, <1>4, <1>5, <1>6 DEF StoresNext

\* Rows keep their writers, and a new row has one that has begun.
LEMMA WritersBegan ==
    ASSUME RowTablesHold, TurnsHold, StoresNext
    PROVE  /\ \A k \in DOMAIN tasks' :
                  \/ \E j \in DOMAIN tasks : /\ tasks'[k].by = tasks[j].by
                                             /\ tasks'[k].project = tasks[j].project
                  \/ tasks'[k].by \in Imports
                  \/ Began(tasks'[k].by, tasks'[k].project) /\ tasks'[k].by \in Turns
           /\ \A k \in DOMAIN transcript' :
                  \/ k \in DOMAIN transcript /\ transcript'[k] = transcript[k]
                  \/ Began(transcript'[k].by, transcript'[k].project)
<1> DEFINE Rows1 == \A k \in DOMAIN tasks' :
                       \/ \E j \in DOMAIN tasks : /\ tasks'[k].by = tasks[j].by
                                                  /\ tasks'[k].project = tasks[j].project
                       \/ tasks'[k].by \in Imports
                       \/ Began(tasks'[k].by, tasks'[k].project) /\ tasks'[k].by \in Turns
           Talk1 == \A k \in DOMAIN transcript' :
                       \/ k \in DOMAIN transcript /\ transcript'[k] = transcript[k]
                       \/ Began(transcript'[k].by, transcript'[k].project)
<1>u. UNCHANGED tasks \/ Retouched \/ (\E P : Left(P)) => Rows1
  BY DEF Retouched, Left
<1>v. UNCHANGED transcript => Talk1
  OBVIOUS
<1>1. ASSUME NEW t \in Turns,
             Draw(t) \/ Insert(t) \/ AddDependencies(t) \/ PlanFails(t) \/ Say(t) \/ WriteEntry(t) \/ EntryFails(t)
      PROVE  Rows1 /\ Talk1
  <2>1. /\ Alone(t)
        /\ ~WriteEntry(t) => UNCHANGED transcript
        /\ ~Insert(t) /\ ~AddDependencies(t) => UNCHANGED tasks
    BY <1>1, OwnSteps
  <2>2. Began(t, turn[t].project)
    BY <2>1 DEF Alone, Began, Over
  <2>3. WriteEntry(t) => Talk1
    <3> SUFFICES ASSUME WriteEntry(t) PROVE Talk1
      OBVIOUS
    <3>1. PICK c \in Nat, row \in Entry :
              Written(c, row) /\ row.project = turn[t].project /\ row.by = t
      BY WriteEntryIs
    <3> QED BY <2>2, <3>1 DEF Written
  <2>4. Insert(t) => Rows1
    <3> SUFFICES ASSUME Insert(t) PROVE Rows1
      OBVIOUS
    <3>1. CASE Postgres /\ project[turn[t].project] # "alive"
      BY <1>u, <3>1, InsertIs
    <3>2. CASE ~(Postgres /\ project[turn[t].project] # "alive")
      <4>1. PICK c \in Nat, row \in TaskRow :
                Placed(c, row) /\ row.project = turn[t].project /\ row.by = t
        BY <3>2, InsertPlaces
      <4> QED BY <2>2, <4>1 DEF Placed
    <3> QED BY <3>1, <3>2
  <2>5. AddDependencies(t) => Rows1
    BY <1>u, RetouchedIs
  <2> QED BY <1>u, <1>v, <2>1, <2>3, <2>4, <2>5
<1>2. ASSUME NEW t \in Turns, NEW p \in Projects, Plan(t, p) \/ Converse(t, p) PROVE Rows1 /\ Talk1
  BY <1>2, <1>u, <1>v, BeginIs
<1>3. ASSUME NEW p \in Projects, DeleteProject(p) PROVE Rows1 /\ Talk1
  <2>1. Left({p}) /\ Forgot(p)
    BY <1>3, DeleteProjectIs
  <2>2. Talk1
    BY <2>1 DEF Forgot
  <2> QED BY <1>u, <2>1, <2>2
<1>4. CASE DeleteSquad
  BY <1>4, <1>u, <1>v, DeleteSquadIs
<1>5. ASSUME NEW i \in Imports, ImportTask(i) PROVE Rows1 /\ Talk1
  <2>1. \A c \in Nat, row \in TaskRow : Placed(c, row) /\ row.by = i => Rows1
    BY DEF Placed
  <2> QED BY <1>5, <1>u, <1>v, <2>1, ImportIs
<1>6. ASSUME NEW p, NEW n, NEW b \in Branches, Claim(p, n, b) PROVE Rows1 /\ Talk1
  BY <1>6, <1>u, <1>v, ClaimIs
<1> QED BY <1>1, <1>2, <1>3, <1>4, <1>5, <1>6 DEF StoresNext

\* Who runs, and whom he knows.
LEMMA RunnersMeet ==
    ASSUME RowTablesHold, TurnsHold, StoresNext
    PROVE  /\ \A t \in Turns : IF turn'[t].pc = "idle" THEN turn'[t].made = <<>>
                                                      ELSE turn'[t].project \in Projects
           /\ \A x, y \in Turns :
                  x # y /\ turn'[x].pc \notin Over /\ turn'[y].pc \notin Over
                        /\ turn'[x].project = turn'[y].project => x \in turn'[y].met
<1> DEFINE Each == \A t \in Turns : IF turn'[t].pc = "idle" THEN turn'[t].made = <<>>
                                                           ELSE turn'[t].project \in Projects
           Pairs == \A x, y \in Turns :
                        x # y /\ turn'[x].pc \notin Over /\ turn'[y].pc \notin Over
                              /\ turn'[x].project = turn'[y].project => x \in turn'[y].met
<1>1. ASSUME NEW t \in Turns, Alone(t) PROVE Each /\ Pairs
  <2>1. turn[t].project \in Projects
    BY <1>1 DEF Alone, TurnsHold, Over
  <2> QED BY <1>1, <2>1 DEF Alone, TurnsHold, Runs
<1>2. ASSUME NEW t \in Turns, NEW p \in Projects, Joins(t, p) PROVE Each /\ Pairs
  <2>1. Each
    BY <1>2 DEF Joins, TurnsHold
  <2>2. ASSUME NEW x \in Turns, NEW y \in Turns, x # y, turn'[x].pc \notin Over, turn'[y].pc \notin Over,
               turn'[x].project = turn'[y].project
        PROVE  x \in turn'[y].met
    <3>1. CASE y = t
      <4>1. x \in RunningIn(p)
        BY <1>2, <2>2, <3>1 DEF Joins, RunningIn
      <4> QED BY <1>2, <3>1, <4>1 DEF Joins
    <3>2. CASE x = t
      <4>1. y \in RunningIn(p)
        BY <1>2, <2>2, <3>2 DEF Joins, RunningIn
      <4> QED BY <1>2, <2>2, <3>2, <4>1 DEF Joins
    <3>3. CASE x # t /\ y # t
      BY <1>2, <2>2, <3>3 DEF Joins, TurnsHold, Runs
    <3> QED BY <3>1, <3>2, <3>3
  <2> QED BY <2>1, <2>2
<1>3. ASSUME NEW P, Warned(P) PROVE Each /\ Pairs
  BY <1>3 DEF Warned, TurnsHold, Runs
<1>4. ASSUME UNCHANGED turn PROVE Each /\ Pairs
  BY <1>4 DEF TurnsHold, Runs
<1> HIDE DEF Each, Pairs
<1>5. ASSUME NEW t \in Turns,
             Draw(t) \/ Insert(t) \/ AddDependencies(t) \/ PlanFails(t) \/ Say(t) \/ WriteEntry(t) \/ EntryFails(t)
      PROVE  Each /\ Pairs
  BY <1>1, <1>5, OwnSteps
<1>6. ASSUME NEW t \in Turns, NEW p \in Projects, Plan(t, p) \/ Converse(t, p) PROVE Each /\ Pairs
  BY <1>2, <1>6, BeginIs
<1>7. ASSUME NEW p \in Projects, DeleteProject(p) PROVE Each /\ Pairs
  BY <1>3, <1>7, DeleteProjectIs
<1>8. ASSUME DeleteSquad PROVE Each /\ Pairs
  <2>1. PICK P \in SUBSET Projects : Warned(P)
    BY <1>8, DeleteSquadIs
  <2> QED BY <1>3, <2>1
<1>9. ASSUME NEW i \in Imports, ImportTask(i) PROVE Each /\ Pairs
  BY <1>4, <1>9, ImportIs
<1>10. ASSUME NEW p, NEW n, NEW b \in Branches, Claim(p, n, b) PROVE Each /\ Pairs
  BY <1>4, <1>10, ClaimIs
<1>11. Each /\ Pairs
  BY <1>5, <1>6, <1>7, <1>8, <1>9, <1>10 DEF StoresNext
<1> QED BY <1>11 DEF Each, Pairs

LEMMA TurnsKeep ==
    ASSUME RowTablesHold, TurnsHold, StoresNext
    PROVE  TurnsHold'
<1>1. Onward
  BY TablesKeep
<1>2. ASSUME NEW k \in DOMAIN tasks', tasks'[k].by \in Turns
      PROVE  turn'[tasks'[k].by].pc # "idle" /\ turn'[tasks'[k].by].project = tasks'[k].project
  <2>1. Began(tasks'[k].by, tasks'[k].project)
    <3>1. tasks'[k].by \notin Imports
      BY <1>2, StoresAssumption
    <3> QED BY <1>2, <3>1, WritersBegan DEF TurnsHold
  <2> QED BY <1>1, <1>2, <2>1 DEF Onward, Began
<1>3. ASSUME NEW k \in DOMAIN transcript'
      PROVE  turn'[transcript'[k].by].pc # "idle" /\ turn'[transcript'[k].by].project = transcript'[k].project
  <2>1. transcript'[k].by \in Turns
    BY TablesKeep DEF RowTablesHold, StoresTypeOK, Entry
  <2>2. Began(transcript'[k].by, transcript'[k].project)
    BY WritersBegan DEF TurnsHold
  <2> QED BY <1>1, <2>1, <2>2 DEF Onward, Began
<1> QED BY <1>2, <1>3, RunnersMeet DEF TurnsHold, Runs, Began

-----------------------------------------------------------------------------
(* Ids.                                                                    *)

LEMMA StoreStays == ASSUME RowTablesHold, StoresNext PROVE UNCHANGED store
<1>1. ASSUME NEW t \in Turns,
             Draw(t) \/ Insert(t) \/ AddDependencies(t) \/ PlanFails(t) \/ Say(t) \/ WriteEntry(t) \/ EntryFails(t)
      PROVE  UNCHANGED store
  BY <1>1, OwnSteps
<1>2. ASSUME NEW t \in Turns, NEW p \in Projects, Plan(t, p) \/ Converse(t, p) PROVE UNCHANGED store
  BY <1>2, BeginIs
<1>3. ASSUME NEW p \in Projects, DeleteProject(p) PROVE UNCHANGED store
  BY <1>3, DeleteProjectIs
<1>4. ASSUME DeleteSquad PROVE UNCHANGED store
  BY <1>4, DeleteSquadIs
<1>5. ASSUME NEW i \in Imports, ImportTask(i) PROVE UNCHANGED store
  BY <1>5, ImportIs
<1>6. ASSUME NEW p, NEW n, NEW b \in Branches, Claim(p, n, b) PROVE UNCHANGED store
  BY <1>6, ClaimIs
<1> QED BY <1>1, <1>2, <1>3, <1>4, <1>5, <1>6 DEF StoresNext

\* A row that a plan or an import has just put in.
Inserted(k, t) ==
    /\ Insert(t) /\ tasks'[k].by = t /\ tasks'[k].project = turn[t].project /\ tasks'[k].id = turn[t].no
    /\ tasks'[k].deps = {} /\ tasks'[k].branch = None
    /\ Postgres => project[turn[t].project] = "alive"
Brought(k) ==
    /\ tasks'[k].by \in Imports /\ tasks'[k].deps = {} /\ tasks'[k].branch = None
    /\ Postgres => project[tasks'[k].project] = "alive"
    /\ UNCHANGED <<project, counter, turn>> /\ imported' # {}
Stayed(k) ==
    /\ k \in DOMAIN tasks
    /\ tasks'[k].project = tasks[k].project /\ tasks'[k].id = tasks[k].id /\ tasks'[k].by = tasks[k].by

\* What becomes of the rows: one may come, at the end or at the place of the
\* one of its id; the rows of a project that lives stay.
RowsGoOn ==
    /\ \A k \in DOMAIN tasks' :
           \/ Stayed(k) /\ (Postgres => project'[tasks[k].project] = project[tasks[k].project])
           \/ (\E t \in Turns : Inserted(k, t)) \/ Brought(k)
    /\ \E c \in Nat : \A k \in DOMAIN tasks' :
           \/ Stayed(k)
           \/ k = c /\ IF k \in DOMAIN tasks
                       THEN ~Postgres /\ tasks[k].id = tasks'[k].id
                       ELSE /\ \A j \in DOMAIN tasks : j < k
                            /\ Postgres \/ \A j \in DOMAIN tasks : tasks[j].id # tasks'[k].id
    /\ \A k \in DOMAIN tasks :
           Postgres /\ project'[tasks[k].project] = "alive" => k \in DOMAIN tasks' /\ Stayed(k)
    /\ ~Postgres => DOMAIN tasks \subseteq DOMAIN tasks'
    /\ \A p \in Projects : project'[p] = "alive" => project[p] = "alive"

LEMMA PlacedGoesOn ==
    ASSUME RowTablesHold, UNCHANGED project, NEW c \in Nat, NEW row \in TaskRow, Placed(c, row),
           (\E t \in Turns : Inserted(c, t)) \/ Brought(c)
    PROVE  RowsGoOn
<1>1. \A k \in DOMAIN tasks : k # c => k \in DOMAIN tasks' /\ Stayed(k)
  BY DEF Placed, Stayed
<1>2. \A k \in DOMAIN tasks' : k \in DOMAIN tasks \/ k = c
  BY DEF Placed
<1>3. IF c \in DOMAIN tasks
      THEN ~Postgres /\ tasks[c].id = tasks'[c].id
      ELSE /\ \A j \in DOMAIN tasks : j < c
           /\ Postgres \/ \A j \in DOMAIN tasks : tasks[j].id # tasks'[c].id
  BY DEF Placed
<1>4. DOMAIN tasks \subseteq DOMAIN tasks' /\ (Postgres => c \notin DOMAIN tasks)
  BY DEF Placed
<1> QED BY <1>1, <1>2, <1>3, <1>4 DEF RowsGoOn

LEMMA SameGoesOn ==
    ASSUME RowTablesHold, UNCHANGED project, UNCHANGED tasks \/ Retouched
    PROVE  RowsGoOn
<1>1. DOMAIN tasks' = DOMAIN tasks /\ \A k \in DOMAIN tasks : Stayed(k)
  BY DEF Retouched, Stayed
<1> QED BY <1>1 DEF RowsGoOn

LEMMA LeftGoesOn ==
    ASSUME RowTablesHold, NEW P, Left(P), \A p \in Projects : p \in P => project'[p] # "alive",
           \A p \in Projects \ P : project'[p] = project[p]
    PROVE  RowsGoOn
<1>1. \A k \in DOMAIN tasks' : Stayed(k) /\ (Postgres => tasks[k].project \notin P)
  BY DEF Left, Stayed, Outside
<1>2. \A k \in DOMAIN tasks : tasks[k].project \notin P => k \in DOMAIN tasks'
  BY DEF Left, Outside
<1>3. \A k \in DOMAIN tasks : tasks[k].project \in Projects
  BY TypesOf
<1>4. ~Postgres => DOMAIN tasks \subseteq DOMAIN tasks'
  BY DEF Left
<1>5. \A k \in DOMAIN tasks' : Stayed(k) /\ (Postgres => project'[tasks[k].project] = project[tasks[k].project])
  BY <1>1, <1>3 DEF Stayed
<1>6. \A k \in DOMAIN tasks :
          Postgres /\ project'[tasks[k].project] = "alive" => k \in DOMAIN tasks' /\ Stayed(k)
  BY <1>1, <1>2, <1>3
<1>7. \A p \in Projects : project'[p] = "alive" => project[p] = "alive"
  OBVIOUS
<1>8. 0 \in Nat /\ \A k \in DOMAIN tasks' : Stayed(k)
  BY <1>1
<1> HIDE DEF Left
<1> QED BY <1>4, <1>5, <1>6, <1>7, <1>8 DEF RowsGoOn

LEMMA RowsAlwaysGoOn ==
    ASSUME RowTablesHold, TurnsHold, StoresNext
    PROVE  RowsGoOn
<1>1. ASSUME NEW t \in Turns,
             Draw(t) \/ Insert(t) \/ AddDependencies(t) \/ PlanFails(t) \/ Say(t) \/ WriteEntry(t) \/ EntryFails(t)
      PROVE  RowsGoOn
  <2>1. /\ UNCHANGED <<store, project, imported>>
        /\ ~Insert(t) /\ ~AddDependencies(t) => UNCHANGED tasks
    BY <1>1, OwnSteps
  <2>2. ASSUME Insert(t) PROVE RowsGoOn
    <3>1. CASE Postgres /\ project[turn[t].project] # "alive"
      BY <2>1, <2>2, <3>1, InsertIs, SameGoesOn
    <3>2. CASE ~(Postgres /\ project[turn[t].project] # "alive")
      <4>1. PICK c \in Nat, row \in TaskRow :
                /\ Placed(c, row) /\ row.by = t /\ row.deps = {} /\ row.branch = None
                /\ row.project = turn[t].project /\ row.id = turn[t].no
        BY <2>2, <3>2, InsertPlaces
      <4>2. Inserted(c, t)
        BY <2>2, <3>2, <4>1 DEF Inserted, Placed
      <4> QED BY <2>1, <4>1, <4>2, PlacedGoesOn
    <3> QED BY <3>1, <3>2
  <2>3. AddDependencies(t) => RowsGoOn
    BY <2>1, RetouchedIs, SameGoesOn
  <2> QED BY <2>1, <2>2, <2>3, SameGoesOn
<1>2. ASSUME NEW t \in Turns, NEW p \in Projects, Plan(t, p) \/ Converse(t, p) PROVE RowsGoOn
  BY <1>2, BeginIs, SameGoesOn
<1>3. ASSUME NEW p \in Projects, DeleteProject(p) PROVE RowsGoOn
  <2>1. Left({p}) /\ project' = [project EXCEPT ![p] = "dropped"]
    BY <1>3, DeleteProjectIs
  <2>2. project \in [Projects -> {"alive", "dropped", "cascaded"}]
    BY DEF RowTablesHold, StoresTypeOK
  <2> QED BY <2>1, <2>2, LeftGoesOn
<1>4. ASSUME DeleteSquad PROVE RowsGoOn
  <2>1. PICK P \in SUBSET Projects :
            Left(P) /\ project' = [p \in Projects |-> IF p \in P THEN "cascaded" ELSE project[p]]
    BY <1>4, DeleteSquadIs
  <2> QED BY <2>1, LeftGoesOn
<1>5. ASSUME NEW i \in Imports, ImportTask(i) PROVE RowsGoOn
  <2>1. imported' = imported \cup {i} /\ UNCHANGED <<store, project, counter, turn, transcript>>
    BY <1>5, ImportIs
  <2>2. CASE UNCHANGED tasks
    BY <2>1, <2>2, SameGoesOn
  <2>3. ASSUME NEW c \in Nat, NEW row \in TaskRow, Placed(c, row), row.by = i, row.deps = {}, row.branch = None,
               row.project = Target, Postgres => project[Target] = "alive"
        PROVE  RowsGoOn
    <3>1. Brought(c)
      BY <2>1, <2>3 DEF Brought, Placed
    <3> QED BY <2>1, <2>3, <3>1, PlacedGoesOn
  <2> QED BY <1>5, <2>2, <2>3, ImportIs
<1>6. ASSUME NEW p, NEW n, NEW b \in Branches, Claim(p, n, b) PROVE RowsGoOn
  BY <1>6, ClaimIs, SameGoesOn
<1> QED BY <1>1, <1>2, <1>3, <1>4, <1>5, <1>6 DEF StoresNext

\* Who holds an id that is not inserted yet.
LEMMA MintsGoOn ==
    ASSUME RowTablesHold, TurnsHold, StoresNext, NEW t \in Turns, turn'[t].pc = "mint"
    PROVE  \/ turn[t].pc = "mint" /\ turn'[t].no = turn[t].no
           \/ /\ turn'[t].no = NextId(turn[t].project) /\ UNCHANGED <<tasks, project>>
              /\ turn'[t].project = turn[t].project /\ turn[t].pc = "plan"
<1> DEFINE Goal == \/ turn[t].pc = "mint" /\ turn'[t].no = turn[t].no
                   \/ /\ turn'[t].no = NextId(turn[t].project) /\ UNCHANGED <<tasks, project>>
                      /\ turn'[t].project = turn[t].project /\ turn[t].pc = "plan"
<1>1. ASSUME NEW s \in Turns,
             Draw(s) \/ Insert(s) \/ AddDependencies(s) \/ PlanFails(s) \/ Say(s) \/ WriteEntry(s) \/ EntryFails(s)
      PROVE  Goal
  <2>1. CASE s # t
    <3>1. Alone(s)
      BY <1>1, OwnSteps
    <3> QED BY <2>1, <3>1 DEF Alone
  <2>2. CASE s = t
    <3>1. Draw(t)
      BY <1>1, <2>2, InsertIs, AddDependenciesIs, PlanFailsIs, SayIs, WriteIs
    <3>2. UNCHANGED <<tasks, project>>
      BY <3>1 DEF Draw
    <3> QED BY <3>1, <3>2, DrawIs DEF Alone
  <2> QED BY <2>1, <2>2
<1>2. ASSUME NEW s \in Turns, NEW p \in Projects, Plan(s, p) \/ Converse(s, p) PROVE Goal
  BY <1>2, BeginIs DEF Joins
<1>3. ASSUME NEW P, Warned(P) PROVE Goal
  BY <1>3 DEF Warned
<1>4. ASSUME UNCHANGED turn PROVE Goal
  BY <1>4
<1>5. ASSUME NEW p \in Projects, DeleteProject(p) PROVE Goal
  BY <1>3, <1>5, DeleteProjectIs
<1>6. ASSUME DeleteSquad PROVE Goal
  BY <1>3, <1>6, DeleteSquadIs
<1>7. ASSUME NEW i \in Imports, ImportTask(i) PROVE Goal
  BY <1>4, <1>7, ImportIs
<1>8. ASSUME NEW p, NEW n, NEW b \in Branches, Claim(p, n, b) PROVE Goal
  BY <1>4, <1>8, ClaimIs
<1> HIDE DEF Goal
<1>9. Goal
  BY <1>1, <1>2, <1>5, <1>6, <1>7, <1>8 DEF StoresNext
<1> QED BY <1>9 DEF Goal

LEMMA MintedIdsKeep ==
    ASSUME RowTablesHold, TurnsHold, RowsHold, DictHolds, MintedIdsDiffer, StoresNext
    PROVE  MintedIdsDiffer'
<1>1. RowsGoOn /\ Onward /\ UNCHANGED store
  BY RowsAlwaysGoOn, TablesKeep, StoreStays
<1>2. ASSUME NEW j \in DOMAIN tasks', NEW k \in DOMAIN tasks', j < k,
             tasks'[j].project = tasks'[k].project, tasks'[j].id = tasks'[k].id
      PROVE  \/ {tasks'[j].by, tasks'[k].by} \cap Imports # {}
             \/ /\ tasks'[j].by \in Turns /\ tasks'[k].by \in Turns
                /\ tasks'[j].by \in turn'[tasks'[k].by].met
  <2>0. j \in Nat /\ k \in Nat /\ tasks'[j].by \in Turns \cup Imports /\ tasks'[k].by \in Turns \cup Imports
    BY TablesKeep DEF RowTablesHold, StoresTypeOK, TaskRow
  <2>1. PICK c \in Nat : \A i \in DOMAIN tasks' :
            \/ Stayed(i)
            \/ i = c /\ IF i \in DOMAIN tasks
                        THEN ~Postgres /\ tasks[i].id = tasks'[i].id
                        ELSE /\ \A m \in DOMAIN tasks : m < i
                             /\ Postgres \/ \A m \in DOMAIN tasks : tasks[m].id # tasks'[i].id
    BY <1>1 DEF RowsGoOn
  <2>2. CASE ~Postgres
    <3>1. ASSUME j \in DOMAIN tasks, k \in DOMAIN tasks PROVE FALSE
      <4>1. tasks[j].id = tasks[k].id
        BY <1>2, <2>1, <3>1 DEF Stayed
      <4> QED BY <1>2, <2>0, <2>2, <3>1, <4>1 DEF DictHolds
    <3>2. ASSUME j \notin DOMAIN tasks PROVE FALSE
      <4>1. k \in DOMAIN tasks
        BY <1>2, <2>0, <2>1, <3>2 DEF Stayed
      <4> QED BY <1>2, <2>0, <2>1, <2>2, <3>2, <4>1 DEF Stayed
    <3>3. ASSUME j \in DOMAIN tasks, k \notin DOMAIN tasks PROVE FALSE
      BY <1>2, <2>0, <2>1, <2>2, <3>3 DEF Stayed
    <3> QED BY <3>1, <3>2, <3>3
  <2>3. CASE Postgres
    <3>1. CASE Stayed(j) /\ Stayed(k)
      <4>1. \/ {tasks[j].by, tasks[k].by} \cap Imports # {}
            \/ Overlapped(tasks[j].by, tasks[k].by)
        BY <1>2, <3>1 DEF Stayed, MintedIdsDiffer
      <4>2. CASE {tasks[j].by, tasks[k].by} \cap Imports # {}
        BY <3>1, <4>2 DEF Stayed
      <4>3. CASE Overlapped(tasks[j].by, tasks[k].by)
        <5>1. turn[tasks[k].by].pc # "idle" /\ tasks[k].by \in Turns
          BY <3>1, <4>3 DEF Stayed, Overlapped, TurnsHold, Began
        <5> QED BY <1>1, <3>1, <4>3, <5>1 DEF Stayed, Overlapped, Onward
      <4> QED BY <4>1, <4>2, <4>3
    <3>2. CASE ~Stayed(k)
      <4>1. Stayed(j)
        BY <1>2, <2>0, <2>1, <3>2
      <4>2. ASSUME NEW t \in Turns, Inserted(k, t), tasks[j].by \in Turns
            PROVE  tasks[j].by \in turn[t].met
        <5>1. turn[t].pc = "mint"
          BY <4>2, InsertIs DEF Inserted
        <5> QED BY <1>2, <2>3, <4>1, <4>2, <5>1 DEF Inserted, Stayed, RowsHold
      <4>3. CASE \E t \in Turns : Inserted(k, t)
        <5>1. PICK t \in Turns : Inserted(k, t)
          BY <4>3
        <5>2. turn[t].pc # "idle" /\ tasks'[k].by = t
          BY <5>1, InsertIs DEF Inserted
        <5>3. turn[t].met \subseteq turn'[t].met
          BY <1>1, <5>2 DEF Onward
        <5> QED BY <2>0, <4>1, <4>2, <5>1, <5>2, <5>3 DEF Stayed
      <4>4. CASE Brought(k)
        BY <4>4 DEF Brought
      <4> QED BY <1>1, <3>2, <4>3, <4>4 DEF RowsGoOn
    <3>3. CASE ~Stayed(j)
      <4>1. Stayed(k) /\ \A m \in DOMAIN tasks : m < j
        BY <1>2, <2>0, <2>1, <2>3, <3>3
      <4> QED BY <1>2, <2>0, <4>1 DEF Stayed
    <3> QED BY <3>1, <3>2, <3>3
  <2> QED BY <2>2, <2>3
<1> QED BY <1>2 DEF MintedIdsDiffer, Overlapped

LEMMA RowsKeep ==
    ASSUME RowTablesHold, TurnsHold, RowsHold, StoresNext
    PROVE  RowsHold'
<1>1. RowsGoOn /\ Onward /\ UNCHANGED store /\ RowTablesHold'
  BY RowsAlwaysGoOn, TablesKeep, StoreStays
<1> SUFFICES ASSUME Postgres PROVE RowsHold'
  BY <1>1 DEF RowsHold, Postgres
<1> DEFINE New(p) == {k \in DOMAIN tasks' : tasks'[k].project = p}
<1>2. \A p : Rows(p)' = New(p)
  BY DEF Rows
<1>3. \A p : IsFiniteSet(New(p)) /\ Cardinality(New(p)) \in Nat
  <2>1. PICK n \in Nat : Upto(tasks', n)
    BY <1>1 DEF RowTablesHold, Upto
  <2> QED BY <2>1, UptoIsFinite
<1>4. ASSUME NEW p \in Projects, project'[p] = "alive"
      PROVE  Rows(p) \subseteq New(p) /\ Cardinality(Rows(p)) <= Cardinality(New(p)) /\ Cardinality(Rows(p)) \in Nat
  <2>1. Rows(p) \subseteq New(p)
    BY <1>1, <1>4 DEF RowsGoOn, Rows, Stayed
  <2> HIDE DEF New
  <2>2. Rows(p) \subseteq DOMAIN tasks
    BY DEF Rows
  <2> QED BY <1>3, <2>1, <2>2, FS_Subset, TypesOf
<1>5. ASSUME NEW p \in Projects, project'[p] # "alive", NEW k \in New(p) PROVE FALSE
  <2>1. CASE Stayed(k) /\ project'[tasks[k].project] = project[tasks[k].project]
    BY <1>5, <2>1 DEF Stayed, RowsHold, Rows
  <2>2. ASSUME NEW t \in Turns, Inserted(k, t) PROVE FALSE
    <3>1. UNCHANGED project
      BY <2>2, OwnSteps DEF Inserted
    <3> QED BY <1>5, <2>2, <3>1 DEF Inserted
  <2>3. CASE Brought(k)
    BY <1>5, <2>3 DEF Brought
  <2> QED BY <1>1, <2>1, <2>2, <2>3 DEF RowsGoOn
<1>6. ASSUME NEW k \in DOMAIN tasks', tasks'[k].by \in Turns
      PROVE  tasks'[k].id <= Cardinality(New(tasks'[k].project))
  <2> DEFINE p == tasks'[k].project
  <2>1. p \in Projects /\ k \in New(p) /\ project'[p] = "alive"
    <3>1. p \in Projects
      BY <1>1 DEF RowTablesHold, StoresTypeOK, TaskRow
    <3> QED BY <1>5, <3>1
  <2>2. tasks'[k].id \in Nat
    BY <1>1 DEF RowTablesHold, StoresTypeOK, TaskRow
  <2>3. CASE Stayed(k)
    <3>1. tasks[k].id <= Cardinality(Rows(p))
      BY <1>6, <2>3 DEF Stayed, RowsHold
    <3> HIDE DEF p, New
    <3>2. tasks'[k].id = tasks[k].id
      BY <2>3 DEF Stayed
    <3>3. tasks'[k].id <= Cardinality(New(p))
      BY <1>3, <1>4, <2>1, <2>2, <3>1, <3>2
    <3> QED BY <3>3 DEF p
  <2>4. CASE ~Stayed(k)
    <3>1. ~Brought(k)
      BY <1>6, StoresAssumption DEF Brought
    <3>2. PICK t \in Turns : Inserted(k, t)
      BY <1>1, <2>4, <3>1 DEF RowsGoOn
    <3>3. k \notin DOMAIN tasks
      BY <1>1, <2>4 DEF RowsGoOn
    <3>4. tasks'[k].id <= Cardinality(Rows(p)) + 1
      BY <3>2, InsertIs DEF Inserted, RowsHold
    <3>5. Rows(p) \cup {k} \subseteq New(p)
      BY <1>4, <2>1
    <3>6. k \notin Rows(p) /\ Rows(p) \subseteq DOMAIN tasks
      BY <3>3 DEF Rows
    <3> HIDE DEF p, New
    <3>7. IsFiniteSet(Rows(p)) /\ Cardinality(Rows(p)) \in Nat
      BY <3>6, TypesOf
    <3>8. Cardinality(Rows(p) \cup {k}) = Cardinality(Rows(p)) + 1
      BY <3>6, <3>7, FS_AddElement
    <3>9. Cardinality(Rows(p) \cup {k}) <= Cardinality(New(p))
      BY <1>3, <3>5, FS_Subset
    <3>10. Cardinality(New(p)) \in Nat
      BY <1>3
    <3>11. tasks'[k].id <= Cardinality(New(p))
      BY <2>2, <3>4, <3>7, <3>8, <3>9, <3>10
    <3> QED BY <3>11 DEF p
  <2> QED BY <2>3, <2>4
<1>7. ASSUME NEW t \in Turns, turn'[t].pc = "mint", project'[turn'[t].project] = "alive"
      PROVE  turn'[t].no <= Cardinality(New(turn'[t].project)) + 1
  <2> DEFINE p == turn'[t].project
  <2>1. p \in Projects /\ turn'[t].no \in Nat
    BY <1>1, <1>7, TurnsKeep DEF TurnsHold, RowTablesHold, StoresTypeOK, TurnType
  <2>2. turn'[t].no <= Cardinality(Rows(p)) + 1
    <3>1. CASE turn[t].pc = "mint" /\ turn'[t].no = turn[t].no
      <4>1. turn[t].project = p
        BY <1>1, <3>1 DEF Onward
      <4> QED BY <1>1, <1>7, <2>1, <3>1, <4>1 DEF RowsHold, RowsGoOn
    <3>2. CASE turn'[t].no = NextId(turn[t].project) /\ turn'[t].project = turn[t].project
      <4>1. Cardinality(Rows(p)) \in Nat
        BY <1>4, <1>7, <2>1
      <4> QED BY <3>2, <4>1 DEF NextId
    <3> QED BY <1>7, <3>1, <3>2, MintsGoOn
  <2> HIDE DEF p, New
  <2>3. turn'[t].no <= Cardinality(New(p)) + 1
    BY <1>3, <1>4, <1>7, <2>1, <2>2 DEF p
  <2> QED BY <2>3 DEF p
<1>8. ASSUME NEW t \in Turns, NEW k \in DOMAIN tasks', turn'[t].pc = "mint",
             tasks'[k].project = turn'[t].project, tasks'[k].by \in Turns, tasks'[k].id = turn'[t].no
      PROVE  tasks'[k].by \in turn'[t].met
  <2>1. CASE turn[t].pc = "mint" /\ turn'[t].no = turn[t].no
    <3>1. turn[t].project = turn'[t].project /\ turn[t].met \subseteq turn'[t].met
      BY <1>1, <2>1 DEF Onward
    <3>2. CASE Stayed(k)
      BY <1>8, <2>1, <3>1, <3>2 DEF Stayed, RowsHold
    <3>3. CASE ~Stayed(k)
      <4>1. ~Brought(k)
        BY <1>8, StoresAssumption DEF Brought
      <4>2. PICK x \in Turns : Inserted(k, x)
        BY <1>1, <3>3, <4>1 DEF RowsGoOn
      <4>3. turn[x].pc = "mint" /\ turn'[x].pc # "mint" /\ turn[x].project = turn[t].project /\ tasks'[k].by = x
        BY <1>8, <3>1, <4>2, InsertIs DEF Inserted
      <4>4. x \in turn[t].met
        BY <1>8, <2>1, <4>3 DEF TurnsHold, Runs, Over
      <4> QED BY <3>1, <4>3, <4>4
    <3> QED BY <3>2, <3>3
  <2>2. CASE /\ turn'[t].no = NextId(turn[t].project) /\ UNCHANGED <<tasks, project>>
             /\ turn'[t].project = turn[t].project
    <3>1. tasks[k].id <= Cardinality(Rows(tasks[k].project)) /\ tasks[k].project = turn[t].project
      BY <1>8, <2>2 DEF RowsHold
    <3>2. Cardinality(Rows(turn[t].project)) \in Nat
      BY TypesOf DEF Rows
    <3>3. tasks[k].id = Cardinality(Rows(turn[t].project)) + 1
      BY <1>8, <2>2 DEF NextId
    <3> QED BY <3>1, <3>2, <3>3
  <2> QED BY <1>8, <2>1, <2>2, MintsGoOn
<1> QED BY <1>2, <1>5, <1>6, <1>7, <1>8 DEF RowsHold, Rows

\* Appending adds to what is in a sequence.
LEMMA RangeOfAppend ==
    ASSUME NEW S, NEW s \in Seq(S), NEW e \in S
    PROVE  Range(Append(s, e)) = Range(s) \cup {e}
<1>1. DOMAIN Append(s, e) = 1 .. Len(s) + 1 /\ DOMAIN s = 1 .. Len(s)
  OBVIOUS
<1>2. \A i \in 1 .. Len(s) : Append(s, e)[i] = s[i]
  OBVIOUS
<1>3. Append(s, e)[Len(s) + 1] = e
  OBVIOUS
<1>4. Len(s) \in Nat
  OBVIOUS
<1>5. \A x \in Range(Append(s, e)) : x \in Range(s) \cup {e}
  <2>1. ASSUME NEW i \in 1 .. Len(s) + 1 PROVE Append(s, e)[i] \in Range(s) \cup {e}
    <3>1. CASE i \in 1 .. Len(s)
      BY <1>1, <1>2, <3>1 DEF Range
    <3>2. CASE i = Len(s) + 1
      BY <1>3, <3>2
    <3> QED BY <1>4, <3>1, <3>2
  <2> QED BY <1>1, <2>1 DEF Range
<1>6. \A x \in Range(s) \cup {e} : x \in Range(Append(s, e))
  <2>1. ASSUME NEW i \in 1 .. Len(s) PROVE s[i] \in Range(Append(s, e))
    <3>1. i \in DOMAIN Append(s, e) /\ Append(s, e)[i] = s[i]
      BY <1>1, <1>2, <1>4
    <3> QED BY <3>1, Zenon DEF Range
  <2>2. e \in Range(Append(s, e))
    <3>1. Len(s) + 1 \in DOMAIN Append(s, e)
      BY <1>1, <1>4
    <3> QED BY <1>3, <3>1, Zenon DEF Range
  <2> QED BY <1>1, <2>1, <2>2 DEF Range
<1> QED BY <1>5, <1>6

\* What the counter gave stays with the turn it gave it to.
IdsGoOn ==
    /\ \A s \in Turns : Range(turn[s].made) \subseteq Range(turn'[s].made)
    /\ \A s \in Turns : turn'[s].pc = "mint" => turn'[s].made = turn[s].made
    /\ \/ counter' = counter /\ (\A s \in Turns : Minted(s)' = Minted(s))
          /\ \A s \in Turns : turn'[s].pc = "mint" => turn[s].pc = "mint" /\ turn'[s].no = turn[s].no
       \/ \E t \in Turns :
              /\ counter' = counter + 1 /\ turn'[t].no = counter + 1
              /\ Minted(t)' = Minted(t) \cup {counter + 1}
              /\ \A s \in Turns : s # t => /\ Minted(s)' = Minted(s)
                                           /\ turn'[s].pc = turn[s].pc /\ turn'[s].no = turn[s].no

LEMMA IdsStay ==
    ASSUME UNCHANGED counter,
           \A s \in Turns : turn'[s].made = turn[s].made /\ turn'[s].no = turn[s].no,
           \A s \in Turns : turn'[s].pc = "mint" <=> turn[s].pc = "mint"
    PROVE  IdsGoOn
  BY DEF IdsGoOn, Minted

LEMMA IdsAlwaysGoOn ==
    ASSUME RowTablesHold, TurnsHold, StoresNext, ~Postgres
    PROVE  IdsGoOn
<1>1. ASSUME NEW t \in Turns,
             Draw(t) \/ Insert(t) \/ AddDependencies(t) \/ PlanFails(t) \/ Say(t) \/ WriteEntry(t) \/ EntryFails(t)
      PROVE  IdsGoOn
  <2>0. Alone(t)
    BY <1>1, OwnSteps
  <2>1. \A s \in Turns : s # t => Minted(s)' = Minted(s) /\ turn'[s] = turn[s]
    BY <2>0 DEF Alone, Minted
  <2>2. CASE Draw(t)
    <3>1. turn'[t].pc = "mint" /\ turn[t].pc = "plan" /\ turn'[t].made = turn[t].made
          /\ turn'[t].no = counter + 1 /\ counter' = counter + 1
      BY <2>2, DrawIs, OwnSteps DEF NextId
    <3>2. Minted(t)' = Minted(t) \cup {counter + 1}
      BY <3>1 DEF Minted
    <3> QED BY <2>1, <3>1, <3>2 DEF IdsGoOn
  <2>3. CASE Insert(t)
    <3>1. turn[t].pc = "mint" /\ turn'[t].pc # "mint" /\ turn'[t].made = Append(turn[t].made, turn[t].no)
          /\ UNCHANGED counter
      BY <2>3, InsertIs, OwnSteps DEF Draw, Insert
    <3>2. Range(turn'[t].made) = Range(turn[t].made) \cup {turn[t].no}
      BY <3>1, RangeOfAppend, TypesOf
    <3>3. Minted(t)' = Minted(t)
      BY <3>1, <3>2 DEF Minted
    <3> QED BY <2>1, <3>1, <3>2, <3>3 DEF IdsGoOn
  <2>4. CASE AddDependencies(t) \/ Say(t) \/ WriteEntry(t) \/ EntryFails(t)
    <3>1. turn[t].pc # "mint" /\ turn'[t].pc # "mint" /\ turn'[t].made = turn[t].made /\ UNCHANGED counter
      BY <2>4, AddDependenciesIs, SayIs, WriteIs, OwnSteps DEF Draw, AddDependencies, Say, WriteEntry, EntryFails
    <3>2. Minted(t)' = Minted(t)
      BY <3>1 DEF Minted
    <3> QED BY <2>1, <3>1, <3>2 DEF IdsGoOn
  <2> QED BY <1>1, <2>2, <2>3, <2>4, PlanFailsIs
<1>2. ASSUME NEW t \in Turns, NEW p \in Projects, Plan(t, p) \/ Converse(t, p) PROVE IdsGoOn
  <2>1. Joins(t, p) /\ UNCHANGED counter
    BY <1>2, BeginIs
  <2>2. turn[t].made = <<>> /\ turn'[t].made = <<>> /\ turn[t].pc # "mint" /\ turn'[t].pc # "mint"
    BY <2>1 DEF Joins, TurnsHold
  <2>3. \A s \in Turns : s # t => turn'[s].pc = turn[s].pc /\ turn'[s].made = turn[s].made /\ turn'[s].no = turn[s].no
    BY <2>1 DEF Joins
  <2>4. \A s \in Turns : Minted(s)' = Minted(s)
    BY <2>2, <2>3 DEF Minted
  <2>5. \A s \in Turns : turn'[s].made = turn[s].made
    BY <2>2, <2>3
  <2>6. \A s \in Turns : turn'[s].pc = "mint" => turn[s].pc = "mint" /\ turn'[s].no = turn[s].no
    BY <2>2, <2>3
  <2> QED BY <2>1, <2>4, <2>5, <2>6 DEF IdsGoOn
<1>3. ASSUME NEW P, Warned(P), UNCHANGED counter PROVE IdsGoOn
  BY <1>3, IdsStay DEF Warned
<1>4. ASSUME UNCHANGED turn, UNCHANGED counter PROVE IdsGoOn
  BY <1>4, IdsStay
<1>5. ASSUME NEW p \in Projects, DeleteProject(p) PROVE IdsGoOn
  BY <1>3, <1>5, DeleteProjectIs
<1>6. ASSUME DeleteSquad PROVE IdsGoOn
  BY <1>3, <1>6, DeleteSquadIs
<1>7. ASSUME NEW i \in Imports, ImportTask(i) PROVE IdsGoOn
  BY <1>4, <1>7, ImportIs
<1>8. ASSUME NEW p, NEW n, NEW b \in Branches, Claim(p, n, b) PROVE IdsGoOn
  BY <1>4, <1>8, ClaimIs
<1> QED BY <1>1, <1>2, <1>5, <1>6, <1>7, <1>8 DEF StoresNext

LEMMA DictKeeps ==
    ASSUME RowTablesHold, TurnsHold, DictHolds, StoresNext
    PROVE  DictHolds'
<1>1. RowsGoOn /\ Onward /\ UNCHANGED store
  BY RowsAlwaysGoOn, TablesKeep, StoreStays
<1> SUFFICES ASSUME ~Postgres PROVE DictHolds'
  BY <1>1 DEF DictHolds, Postgres
<1>2. IdsGoOn
  BY IdsAlwaysGoOn
<1>3. ASSUME NEW j \in DOMAIN tasks', NEW k \in DOMAIN tasks', tasks'[j].id = tasks'[k].id
      PROVE  j = k
  <2>1. PICK c \in Nat : \A i \in DOMAIN tasks' :
            \/ Stayed(i)
            \/ i = c /\ IF i \in DOMAIN tasks
                        THEN ~Postgres /\ tasks[i].id = tasks'[i].id
                        ELSE /\ \A m \in DOMAIN tasks : m < i
                             /\ Postgres \/ \A m \in DOMAIN tasks : tasks[m].id # tasks'[i].id
    BY <1>1 DEF RowsGoOn
  <2>2. CASE j \in DOMAIN tasks /\ k \in DOMAIN tasks
    <3>1. tasks[j].id = tasks[k].id
      BY <1>3, <2>1, <2>2 DEF Stayed
    <3> QED BY <2>2, <3>1 DEF DictHolds
  <2>3. CASE j \notin DOMAIN tasks \/ k \notin DOMAIN tasks
    BY <1>3, <2>1, <2>3 DEF Stayed
  <2> QED BY <2>2, <2>3
<1>4. counter \in Nat /\ \A t \in Turns : Minted(t) \subseteq 1 .. counter
  BY TypesOf DEF DictHolds
<1>5. ASSUME NEW t \in Turns PROVE Minted(t)' \subseteq 1 .. counter'
  <2>1. CASE counter' = counter /\ Minted(t)' = Minted(t)
    BY <1>4, <2>1
  <2>2. CASE counter' = counter + 1 /\ Minted(t)' \subseteq Minted(t) \cup {counter + 1}
    <3>1. 1 .. counter \subseteq 1 .. counter + 1 /\ counter + 1 \in 1 .. counter + 1
      BY <1>4
    <3> QED BY <1>4, <2>2, <3>1
  <2> QED BY <1>2, <2>1, <2>2 DEF IdsGoOn
<1>6. ASSUME NEW x \in Turns, NEW y \in Turns, x # y PROVE Minted(x)' \cap Minted(y)' = {}
  <2>1. Minted(x) \cap Minted(y) = {} /\ counter + 1 \notin Minted(x) \cup Minted(y)
    BY <1>4, <1>6 DEF DictHolds
  <2> QED BY <1>2, <1>6, <2>1 DEF IdsGoOn
<1>7. ASSUME NEW t \in Turns, turn'[t].pc = "mint" PROVE turn'[t].no \notin Range(turn'[t].made)
  <2>1. turn'[t].made = turn[t].made
    BY <1>2, <1>7 DEF IdsGoOn
  <2>2. counter + 1 \notin Range(turn[t].made)
    BY <1>4 DEF Minted
  <2>3. turn[t].pc = "mint" => turn[t].no \notin Range(turn[t].made)
    BY DEF DictHolds
  <2> QED BY <1>2, <1>7, <2>1, <2>2, <2>3 DEF IdsGoOn
<1>8. ASSUME NEW k \in DOMAIN tasks', tasks'[k].by \in Turns
      PROVE  tasks'[k].id \in Range(turn'[tasks'[k].by].made)
  <2>1. CASE Stayed(k)
    BY <1>2, <1>8, <2>1 DEF Stayed, DictHolds, IdsGoOn
  <2>2. ASSUME NEW t \in Turns, Inserted(k, t) PROVE tasks'[k].id \in Range(turn'[tasks'[k].by].made)
    <3>1. turn'[t].made = Append(turn[t].made, turn[t].no) /\ tasks'[k].by = t /\ tasks'[k].id = turn[t].no
      BY <2>2, InsertIs DEF Inserted
    <3>2. Range(Append(turn[t].made, turn[t].no)) = Range(turn[t].made) \cup {turn[t].no}
      BY RangeOfAppend, TypesOf
    <3> QED BY <3>1, <3>2
  <2>3. ~Brought(k)
    BY <1>8, StoresAssumption DEF Brought
  <2> QED BY <1>1, <2>1, <2>2, <2>3 DEF RowsGoOn
<1> QED BY <1>3, <1>5, <1>6, <1>7, <1>8 DEF DictHolds

-----------------------------------------------------------------------------
(* Plans.                                                                  *)

\* Edges and branches.
AddsEdge(t, k) ==
    /\ AddDependencies(t) /\ Len(turn[t].made) >= 2 /\ Hit(turn[t].project, turn[t].made[2], k)
    /\ turn[t].made[1] \in tasks'[k].deps
EdgesGoOn ==
    /\ \A k \in DOMAIN tasks' :
           \/ (\E t \in Turns : Inserted(k, t)) \/ Brought(k)
           \/ /\ Stayed(k) /\ tasks[k].deps \subseteq tasks'[k].deps
              /\ tasks'[k].deps = tasks[k].deps \/ \E t \in Turns : AddsEdge(t, k)
    /\ \A t \in Turns : AddDependencies(t) /\ Len(turn[t].made) >= 2 =>
           \A k \in DOMAIN tasks : Hit(turn[t].project, turn[t].made[2], k) =>
               k \in DOMAIN tasks' /\ AddsEdge(t, k)
BranchesGoOn ==
    \/ \A k \in DOMAIN tasks' :
           \/ (\E t \in Turns : Inserted(k, t)) \/ Brought(k)
           \/ Stayed(k) /\ tasks'[k].branch = tasks[k].branch
    \/ \E c \in DOMAIN tasks, b \in Branches :
           /\ \A k \in DOMAIN tasks : k # c => tasks'[k].branch = tasks[k].branch
           /\ tasks'[c].branch = b /\ DOMAIN tasks' = DOMAIN tasks
           /\ \A k \in DOMAIN tasks : Stayed(k)
           /\ \A k \in DOMAIN tasks : tasks[k].project = tasks[c].project => tasks[k].branch # b

\* Rows that stay as they are, but for one that comes.
LEMMA RestGoesOn ==
    ASSUME NEW c,
           \A k \in DOMAIN tasks' :
               \/ k = c /\ ((\E t \in Turns : Inserted(k, t)) \/ Brought(k))
               \/ k \in DOMAIN tasks /\ tasks'[k] = tasks[k],
           \A t \in Turns : ~AddDependencies(t)
    PROVE  EdgesGoOn /\ BranchesGoOn
  BY DEF EdgesGoOn, BranchesGoOn, Stayed

LEMMA PlacedIs ==
    ASSUME NEW c, NEW row, Placed(c, row)
    PROVE  /\ tasks'[c] = row /\ c \in DOMAIN tasks'
           /\ \A k \in DOMAIN tasks' : k = c \/ (k \in DOMAIN tasks /\ tasks'[k] = tasks[k])
           /\ Postgres => c \notin DOMAIN tasks
<1>1. /\ DOMAIN tasks' = DOMAIN tasks \cup {c} /\ tasks'[c] = row
      /\ \A k \in DOMAIN tasks : k # c => tasks'[k] = tasks[k]
      /\ Postgres => c \notin DOMAIN tasks
  BY DEF Placed
<1> QED BY <1>1

LEMMA OneAtATime ==
    ASSUME RowTablesHold, NEW t \in Turns, AddDependencies(t)
    PROVE  /\ \A s \in Turns : ~Insert(s) /\ (AddDependencies(s) => s = t)
           /\ \A p \in Projects : \A s \in Turns : ~Plan(s, p) /\ ~Converse(s, p)
<1>1. turn'[t].pc = "say" /\ turn[t].pc = "edges" /\ \A s \in Turns : s # t => turn'[s] = turn[s]
  BY AddDependenciesIs DEF Alone
<1>2. ASSUME NEW s \in Turns, Insert(s) PROVE FALSE
  <2>1. turn[s].pc = "mint" /\ turn'[s].pc # "mint"
    BY <1>2, InsertIs
  <2> QED BY <1>1, <2>1
<1>3. ASSUME NEW s \in Turns, AddDependencies(s) PROVE s = t
  <2>1. turn[s].pc = "edges" /\ turn'[s].pc = "say"
    BY <1>3, AddDependenciesIs
  <2> QED BY <1>1, <2>1
<1>4. ASSUME NEW p \in Projects, NEW s \in Turns, Plan(s, p) \/ Converse(s, p) PROVE FALSE
  <2>1. turn[s].pc = "idle" /\ turn'[s].pc # "idle"
    BY <1>4, BeginIs DEF Joins
  <2> QED BY <1>1, <2>1
<1> QED BY <1>2, <1>3, <1>4

LEMMA NoEdges ==
    ASSUME RowTablesHold,
           \/ UNCHANGED turn \/ (\E P : Warned(P)) \/ (\E s \in Turns, p \in Projects : Joins(s, p))
           \/ \E s \in Turns : Alone(s) /\ (turn[s].pc # "edges" \/ turn'[s].pc # "say")
    PROVE  \A t \in Turns : ~AddDependencies(t)
<1> SUFFICES ASSUME NEW t \in Turns, AddDependencies(t) PROVE FALSE
  OBVIOUS
<1>1. turn[t].pc = "edges" /\ turn'[t].pc = "say"
  BY AddDependenciesIs
<1>2. CASE UNCHANGED turn
  BY <1>1, <1>2
<1>3. ASSUME NEW P, Warned(P) PROVE FALSE
  BY <1>1, <1>3 DEF Warned
<1>4. ASSUME NEW s \in Turns, NEW p \in Projects, Joins(s, p) PROVE FALSE
  BY <1>1, <1>4 DEF Joins
<1>5. ASSUME NEW s \in Turns, Alone(s), turn[s].pc # "edges" \/ turn'[s].pc # "say" PROVE FALSE
  BY <1>1, <1>5 DEF Alone
<1> QED BY <1>2, <1>3, <1>4, <1>5

LEMMA EdgesAndBranches ==
    ASSUME RowTablesHold, TurnsHold, StoresNext
    PROVE  EdgesGoOn /\ BranchesGoOn
<1>1. ASSUME NEW t \in Turns,
             Draw(t) \/ Insert(t) \/ PlanFails(t) \/ Say(t) \/ WriteEntry(t) \/ EntryFails(t)
      PROVE  EdgesGoOn /\ BranchesGoOn
  <2>1. \A s \in Turns : ~AddDependencies(s)
    BY <1>1, NoEdges, OwnSteps, DrawIs, InsertIs, PlanFailsIs, SayIs, WriteIs
  <2>2. CASE ~Insert(t)
    <3>1. tasks' = tasks
      BY <1>1, <2>1, <2>2, OwnSteps
    <3> QED BY <2>1, <3>1, RestGoesOn
  <2>3. CASE Insert(t)
    <3>1. CASE Postgres /\ project[turn[t].project] # "alive"
      <4>1. tasks' = tasks
        BY <2>3, <3>1, InsertIs
      <4> QED BY <2>1, <4>1, RestGoesOn
    <3>2. CASE ~(Postgres /\ project[turn[t].project] # "alive")
      <4>1. PICK c \in Nat, row \in TaskRow :
                /\ Placed(c, row) /\ row.by = t /\ row.deps = {} /\ row.branch = None
                /\ row.project = turn[t].project /\ row.id = turn[t].no
        BY <2>3, <3>2, InsertPlaces
      <4>2. Inserted(c, t)
        BY <2>3, <3>2, <4>1 DEF Inserted, Placed
      <4>3. \A k \in DOMAIN tasks' : k = c \/ (k \in DOMAIN tasks /\ tasks'[k] = tasks[k])
        BY <4>1, PlacedIs
      <4>4. \A k \in DOMAIN tasks' :
                \/ k = c /\ ((\E s \in Turns : Inserted(k, s)) \/ Brought(k))
                \/ k \in DOMAIN tasks /\ tasks'[k] = tasks[k]
        BY <4>2, <4>3
      <4> QED BY <2>1, <4>4, RestGoesOn
    <3> QED BY <3>1, <3>2
  <2> QED BY <2>2, <2>3
<1>2. ASSUME NEW t \in Turns, AddDependencies(t) PROVE EdgesGoOn /\ BranchesGoOn
  <2>1. CASE Len(turn[t].made) < 2
    <3>1. tasks' = tasks
      BY <1>2, <2>1, AddDependenciesIs
    <3>2. Len(turn[t].made) \in Nat
      BY TypesOf
    <3>3. \A s \in Turns : AddDependencies(s) => ~(Len(turn[s].made) >= 2)
      BY <1>2, <2>1, <3>2, OneAtATime
    <3> QED BY <3>1, <3>3 DEF EdgesGoOn, BranchesGoOn, Stayed
  <2>2. CASE ~(Len(turn[t].made) < 2)
    <3>1. /\ turn[t].made[1] \in Nat /\ turn[t].made[2] \in Nat /\ Len(turn[t].made) >= 2
          /\ tasks' = Blocked(turn[t].project, turn[t].made[1], turn[t].made[2])
      BY <1>2, <2>2, TypesOf, AddDependenciesIs
    <3> DEFINE p == turn[t].project
               a == turn[t].made[1]
               b == turn[t].made[2]
    <3>2. /\ Retouched
          /\ \A k \in DOMAIN tasks :
                 /\ tasks'[k].branch = tasks[k].branch
                 /\ tasks'[k].deps = IF Hit(p, b, k) THEN tasks[k].deps \cup {a} ELSE tasks[k].deps
      BY <3>1, BlockedIs
    <3>3. \A k \in DOMAIN tasks : Hit(p, b, k) => AddsEdge(t, k)
      BY <1>2, <3>1, <3>2 DEF AddsEdge
    <3>4. DOMAIN tasks' = DOMAIN tasks /\ \A k \in DOMAIN tasks : Stayed(k)
      BY <3>2 DEF Retouched, Stayed
    <3>5. \A s \in Turns : AddDependencies(s) => s = t
      BY <1>2, OneAtATime
    <3>6. BranchesGoOn
      BY <3>2, <3>4 DEF BranchesGoOn
    <3>7. ASSUME NEW k \in DOMAIN tasks
          PROVE  /\ tasks[k].deps \subseteq tasks'[k].deps
                 /\ tasks'[k].deps = tasks[k].deps \/ AddsEdge(t, k)
      BY <3>2, <3>3
    <3> HIDE DEF a
    <3>8. EdgesGoOn
      BY <3>3, <3>4, <3>5, <3>7 DEF EdgesGoOn
    <3> QED BY <3>6, <3>8
  <2> QED BY <2>1, <2>2
<1>3. ASSUME NEW t \in Turns, NEW p \in Projects, Plan(t, p) \/ Converse(t, p)
      PROVE  EdgesGoOn /\ BranchesGoOn
  <2>1. tasks' = tasks /\ \A s \in Turns : ~AddDependencies(s)
    BY <1>3, NoEdges, BeginIs
  <2> QED BY <2>1, RestGoesOn
<1>4. ASSUME NEW P, Left(P), Warned(P) PROVE EdgesGoOn /\ BranchesGoOn
  <2>1. (\A k \in DOMAIN tasks' : k \in DOMAIN tasks /\ tasks'[k] = tasks[k])
        /\ \A s \in Turns : ~AddDependencies(s)
    BY <1>4, NoEdges DEF Left
  <2> QED BY <2>1, RestGoesOn
<1>5. ASSUME NEW p \in Projects, DeleteProject(p) PROVE EdgesGoOn /\ BranchesGoOn
  BY <1>4, <1>5, DeleteProjectIs
<1>6. ASSUME DeleteSquad PROVE EdgesGoOn /\ BranchesGoOn
  <2>1. PICK P \in SUBSET Projects : Left(P) /\ Warned(P)
    BY <1>6, DeleteSquadIs
  <2> QED BY <1>4, <2>1
<1>7. ASSUME NEW i \in Imports, ImportTask(i) PROVE EdgesGoOn /\ BranchesGoOn
  <2>1. imported' = imported \cup {i} /\ UNCHANGED <<store, project, counter, turn, transcript>>
    BY <1>7, ImportIs
  <2>2. \A s \in Turns : ~AddDependencies(s)
    BY <2>1, NoEdges
  <2>3. CASE UNCHANGED tasks
    BY <2>2, <2>3, RestGoesOn
  <2>4. ASSUME NEW c \in Nat, NEW row \in TaskRow, Placed(c, row), row.by = i, row.deps = {}, row.branch = None,
               row.project = Target, Postgres => project[Target] = "alive"
        PROVE  EdgesGoOn /\ BranchesGoOn
    <3>1. Brought(c)
      BY <2>1, <2>4 DEF Brought, Placed
    <3>2. \A k \in DOMAIN tasks' : k = c \/ (k \in DOMAIN tasks /\ tasks'[k] = tasks[k])
      BY <2>4, PlacedIs
    <3>3. \A k \in DOMAIN tasks' :
              \/ k = c /\ ((\E s \in Turns : Inserted(k, s)) \/ Brought(k))
              \/ k \in DOMAIN tasks /\ tasks'[k] = tasks[k]
      BY <3>1, <3>2
    <3> QED BY <2>2, <3>3, RestGoesOn
  <2> QED BY <1>7, <2>3, <2>4, ImportIs
<1>8. ASSUME NEW p, NEW n, NEW b \in Branches, Claim(p, n, b) PROVE EdgesGoOn /\ BranchesGoOn
  <2>1. Retouched /\ UNCHANGED turn
    BY <1>8, ClaimIs
  <2>2. PICK c \in DOMAIN tasks :
            /\ tasks[c].project = p /\ tasks'[c].branch = b
            /\ \A k \in DOMAIN tasks : /\ tasks'[k].deps = tasks[k].deps
                                       /\ k # c => tasks'[k].branch = tasks[k].branch
                                       /\ tasks[k].project = p => tasks[k].branch # b
    BY <1>8, ClaimIs
  <2>3. DOMAIN tasks' = DOMAIN tasks /\ \A k \in DOMAIN tasks : Stayed(k)
    BY <2>1 DEF Retouched, Stayed
  <2>4. \A s \in Turns : ~AddDependencies(s)
    BY <2>1, NoEdges
  <2>5. EdgesGoOn
    BY <2>2, <2>3, <2>4 DEF EdgesGoOn
  <2>6. BranchesGoOn
    BY <2>2, <2>3 DEF BranchesGoOn
  <2> QED BY <2>5, <2>6
<1> QED BY <1>1, <1>2, <1>3, <1>5, <1>6, <1>7, <1>8 DEF StoresNext

LEMMA BranchesKeep ==
    ASSUME RowTablesHold, TurnsHold, BranchHeldOnce, StoresNext
    PROVE  BranchHeldOnce'
<1>1. BranchesGoOn
  BY EdgesAndBranches
<1>2. CASE \A k \in DOMAIN tasks' :
               \/ (\E t \in Turns : Inserted(k, t)) \/ Brought(k)
               \/ Stayed(k) /\ tasks'[k].branch = tasks[k].branch
  <2>1. \A k \in DOMAIN tasks' :
            tasks'[k].branch = None \/ (Stayed(k) /\ tasks'[k].branch = tasks[k].branch)
    <3>1. \A k, t : Inserted(k, t) => tasks'[k].branch = None
      BY DEF Inserted
    <3>2. \A k : Brought(k) => tasks'[k].branch = None
      BY DEF Brought
    <3>3. ASSUME NEW k \in DOMAIN tasks'
          PROVE  tasks'[k].branch = None \/ (Stayed(k) /\ tasks'[k].branch = tasks[k].branch)
      <4>1. CASE \E t \in Turns : Inserted(k, t)
        BY <3>1, <4>1
      <4>2. CASE Brought(k)
        BY <3>2, <4>2
      <4> QED BY <1>2, <4>1, <4>2
    <3> QED BY <3>3
  <2> QED BY <2>1 DEF BranchHeldOnce, Stayed
<1>3. ASSUME NEW c \in DOMAIN tasks, NEW b \in Branches,
             /\ \A k \in DOMAIN tasks : k # c => tasks'[k].branch = tasks[k].branch
             /\ tasks'[c].branch = b /\ DOMAIN tasks' = DOMAIN tasks
             /\ \A k \in DOMAIN tasks : Stayed(k)
             /\ \A k \in DOMAIN tasks : tasks[k].project = tasks[c].project => tasks[k].branch # b
      PROVE  BranchHeldOnce'
  BY <1>3 DEF BranchHeldOnce, Stayed
<1> QED BY <1>1, <1>2, <1>3 DEF BranchesGoOn

\* What plans have made, and when their edges are declared.
LEMMA PlansGoOn ==
    ASSUME RowTablesHold, TurnsHold, StoresNext, NEW t \in Turns
    PROVE  /\ \/ turn'[t].made = turn[t].made \/ turn'[t].made = <<>>
              \/ /\ turn'[t].made = Append(turn[t].made, turn[t].no)
                 /\ \E c \in DOMAIN tasks' : tasks'[c].by = t /\ tasks'[c].id = turn[t].no
           /\ turn'[t].pc \in {"say", "write", "done"} /\ Len(turn'[t].made) > 1 =>
                  turn'[t].made = turn[t].made /\ (Declared(t) \/ AddDependencies(t))
           /\ Declared(t) => turn'[t].made = turn[t].made /\ turn'[t].pc \in {"say", "write", "done"}
<1> DEFINE Goal == /\ \/ turn'[t].made = turn[t].made \/ turn'[t].made = <<>>
                      \/ /\ turn'[t].made = Append(turn[t].made, turn[t].no)
                         /\ \E c \in DOMAIN tasks' : tasks'[c].by = t /\ tasks'[c].id = turn[t].no
                   /\ turn'[t].pc \in {"say", "write", "done"} /\ Len(turn'[t].made) > 1 =>
                          turn'[t].made = turn[t].made /\ (Declared(t) \/ AddDependencies(t))
                   /\ Declared(t) => turn'[t].made = turn[t].made /\ turn'[t].pc \in {"say", "write", "done"}
<1>1. ASSUME NEW s \in Turns,
             Draw(s) \/ Insert(s) \/ AddDependencies(s) \/ PlanFails(s) \/ Say(s) \/ WriteEntry(s) \/ EntryFails(s)
      PROVE  Goal
  <2>1. CASE s # t
    <3>1. Alone(s)
      BY <1>1, OwnSteps
    <3> QED BY <2>1, <3>1 DEF Alone, Declared
  <2>2. CASE s = t
    <3>1. CASE Draw(t) \/ PlanFails(t)
      <4>1. Draw(t) => turn'[t].pc = "mint" /\ turn[t].pc = "plan" /\ turn'[t].made = turn[t].made
        BY DrawIs
      <4>2. PlanFails(t) => turn'[t].pc = "failed" /\ turn'[t].made = <<>> /\ turn[t].pc \in {"mint", "edges"}
        BY PlanFailsIs DEF PlanFails
      <4> QED BY <3>1, <4>1, <4>2 DEF Declared
    <3>2. CASE Insert(t)
      <4>1. CASE Postgres /\ project[turn[t].project] # "alive"
        <5>1. turn[t].pc = "mint" /\ turn'[t].pc = "failed" /\ turn'[t].made = <<>>
          BY <3>2, <4>1, InsertIs
        <5> QED BY <5>1 DEF Declared
      <4>2. CASE ~(Postgres /\ project[turn[t].project] # "alive")
        <5>1. /\ turn[t].pc = "mint" /\ turn'[t].pc \in {"plan", "edges"}
              /\ turn'[t].made = Append(turn[t].made, turn[t].no)
          BY <3>2, <4>2, InsertIs
        <5>2. \E c \in DOMAIN tasks' : tasks'[c].by = t /\ tasks'[c].id = turn[t].no
          <6>1. PICK c \in Nat, row \in TaskRow : Placed(c, row) /\ row.by = t /\ row.id = turn[t].no
            BY <3>2, <4>2, InsertPlaces
          <6> QED BY <6>1, PlacedIs
        <5> QED BY <5>1, <5>2 DEF Declared
      <4> QED BY <4>1, <4>2
    <3>3. CASE AddDependencies(t)
      BY <3>3, AddDependenciesIs DEF Declared
    <3>4. CASE Say(t)
      BY <3>4, SayIs DEF Declared
    <3>5. CASE WriteEntry(t) \/ EntryFails(t)
      BY <3>5, WriteIs DEF Declared
    <3> QED BY <1>1, <2>2, <3>1, <3>2, <3>3, <3>4, <3>5
  <2> QED BY <2>1, <2>2
<1>2. ASSUME NEW s \in Turns, NEW p \in Projects, Joins(s, p) PROVE Goal
  <2>1. CASE s # t
    BY <1>2, <2>1 DEF Joins, Declared
  <2>2. CASE s = t
    <3>1. turn'[t].made = <<>> /\ turn[t].pc = "idle" /\ Len(<<>>) = 0
      BY <1>2, <2>2 DEF Joins
    <3> QED BY <3>1 DEF Declared
  <2> QED BY <2>1, <2>2
<1>3. ASSUME NEW P, Warned(P) PROVE Goal
  BY <1>3 DEF Warned, Declared
<1>4. ASSUME UNCHANGED turn PROVE Goal
  BY <1>4 DEF Declared
<1> HIDE DEF Goal
<1>5. ASSUME NEW s \in Turns, NEW p \in Projects, Plan(s, p) \/ Converse(s, p) PROVE Goal
  BY <1>2, <1>5, BeginIs
<1>6. ASSUME NEW p \in Projects, DeleteProject(p) PROVE Goal
  BY <1>3, <1>6, DeleteProjectIs
<1>7. ASSUME DeleteSquad PROVE Goal
  BY <1>3, <1>7, DeleteSquadIs
<1>8. ASSUME NEW i \in Imports, ImportTask(i) PROVE Goal
  BY <1>4, <1>8, ImportIs
<1>9. ASSUME NEW p, NEW n, NEW b \in Branches, Claim(p, n, b) PROVE Goal
  BY <1>4, <1>9, ClaimIs
<1>10. Goal
  BY <1>1, <1>5, <1>6, <1>7, <1>8, <1>9 DEF StoresNext
<1> QED BY <1>10 DEF Goal

LEMMA ImportsGoOn == ASSUME RowTablesHold, StoresNext PROVE imported \subseteq imported'
<1>1. ASSUME NEW t \in Turns,
             Draw(t) \/ Insert(t) \/ AddDependencies(t) \/ PlanFails(t) \/ Say(t) \/ WriteEntry(t) \/ EntryFails(t)
      PROVE  UNCHANGED imported
  BY <1>1, OwnSteps
<1>2. ASSUME NEW t \in Turns, NEW p \in Projects, Plan(t, p) \/ Converse(t, p) PROVE UNCHANGED imported
  BY <1>2, BeginIs
<1>3. ASSUME NEW p \in Projects, DeleteProject(p) PROVE UNCHANGED imported
  BY <1>3, DeleteProjectIs
<1>4. ASSUME DeleteSquad PROVE UNCHANGED imported
  BY <1>4, DeleteSquadIs
<1>5. ASSUME NEW i \in Imports, ImportTask(i) PROVE imported \subseteq imported'
  BY <1>5, ImportIs
<1>6. ASSUME NEW p, NEW n, NEW b \in Branches, Claim(p, n, b) PROVE UNCHANGED imported
  BY <1>6, ClaimIs
<1> QED BY <1>1, <1>2, <1>3, <1>4, <1>5, <1>6 DEF StoresNext

\* A row of a plan that nothing disturbs stays, with its edges.
LEMMA PlanStays ==
    ASSUME RowTablesHold, TurnsHold, DictHolds, StoresNext, NEW t \in Turns,
           project'[turn[t].project] = "alive", Postgres \/ imported' = {},
           NEW k \in DOMAIN tasks, tasks[k].by = t, tasks[k].id \in Range(turn[t].made)
    PROVE  k \in DOMAIN tasks' /\ Stayed(k) /\ tasks[k].deps \subseteq tasks'[k].deps
<1>1. RowsGoOn /\ EdgesGoOn
  BY RowsAlwaysGoOn, EdgesAndBranches
<1>2. tasks[k].project = turn[t].project
  BY DEF TurnsHold, Began
<1>3. CASE Postgres
  <2>1. k \in DOMAIN tasks' /\ Stayed(k)
    BY <1>1, <1>2, <1>3 DEF RowsGoOn
  <2>2. ~Brought(k)
    BY <2>1, StoresAssumption DEF Stayed, Brought
  <2>3. ASSUME NEW s \in Turns, Inserted(k, s) PROVE tasks[k].deps \subseteq tasks'[k].deps
    <3>1. Insert(s)
      BY <2>3 DEF Inserted
    <3>2. PICK d \in Nat, row \in TaskRow : Placed(d, row)
      BY <1>3, <2>3, <3>1, InsertPlaces DEF Inserted
    <3> QED BY <1>3, <2>1, <3>2, PlacedIs
  <2> QED BY <1>1, <2>1, <2>2, <2>3 DEF EdgesGoOn
<1>4. CASE ~Postgres
  <2>1. k \in DOMAIN tasks' /\ imported' = {}
    BY <1>1, <1>4 DEF RowsGoOn
  <2>2. ~Brought(k)
    BY <2>1 DEF Brought
  <2>3. ASSUME NEW s \in Turns, Inserted(k, s) PROVE FALSE
    <3>1. turn[s].pc = "mint" /\ tasks'[k].id = turn[s].no
      BY <2>3, InsertIs DEF Inserted
    <3>2. turn[s].no \in Minted(s) /\ Range(turn[t].made) \subseteq Minted(t)
      BY <3>1 DEF Minted
    <3>3. turn[s].no \notin Range(turn[t].made)
      BY <1>4, <3>1, <3>2 DEF DictHolds
    <3>4. tasks[k].id = tasks'[k].id
      BY <1>1, <2>1 DEF RowsGoOn, Stayed
    <3> QED BY <3>1, <3>3, <3>4
  <2> QED BY <1>1, <2>1, <2>2, <2>3 DEF EdgesGoOn
<1> QED BY <1>3, <1>4

-----------------------------------------------------------------------------
(* Transcripts.                                                            *)

LEMMA TalkGoesOn ==
    ASSUME RowTablesHold, TurnsHold, StoresNext
    PROVE  \/ UNCHANGED transcript
           \/ \E p \in Projects : DeleteProject(p)
           \/ \E t \in Turns : WriteEntry(t)
<1>1. ASSUME NEW t \in Turns,
             Draw(t) \/ Insert(t) \/ AddDependencies(t) \/ PlanFails(t) \/ Say(t) \/ WriteEntry(t) \/ EntryFails(t)
      PROVE  UNCHANGED transcript \/ WriteEntry(t)
  BY <1>1, OwnSteps
<1>2. ASSUME NEW t \in Turns, NEW p \in Projects, Plan(t, p) \/ Converse(t, p) PROVE UNCHANGED transcript
  BY <1>2, BeginIs
<1>3. ASSUME DeleteSquad PROVE UNCHANGED transcript
  BY <1>3, DeleteSquadIs
<1>4. ASSUME NEW i \in Imports, ImportTask(i) PROVE UNCHANGED transcript
  BY <1>4, ImportIs
<1>5. ASSUME NEW p, NEW n, NEW b \in Branches, Claim(p, n, b) PROVE UNCHANGED transcript
  BY <1>5, ClaimIs
<1> QED BY <1>1, <1>2, <1>3, <1>4, <1>5 DEF StoresNext

\* Who is about to write has read his number before, or reads it now.
LEMMA SaysGoOn ==
    ASSUME RowTablesHold, TurnsHold, StoresNext, NEW t \in Turns, turn'[t].pc = "write"
    PROVE  /\ turn'[t].project = turn[t].project
           /\ \/ turn[t].pc = "write" /\ turn'[t].no = turn[t].no
              \/ turn'[t].no = NextSeq(turn[t].project) /\ UNCHANGED transcript
<1> DEFINE Goal == /\ turn'[t].project = turn[t].project
                   /\ \/ turn[t].pc = "write" /\ turn'[t].no = turn[t].no
                      \/ turn'[t].no = NextSeq(turn[t].project) /\ UNCHANGED transcript
<1>1. ASSUME NEW s \in Turns,
             Draw(s) \/ Insert(s) \/ AddDependencies(s) \/ PlanFails(s) \/ Say(s) \/ WriteEntry(s) \/ EntryFails(s)
      PROVE  Goal
  <2>1. CASE s # t
    <3>1. Alone(s)
      BY <1>1, OwnSteps
    <3> QED BY <2>1, <3>1 DEF Alone
  <2>2. CASE s = t
    <3>1. Draw(t) => turn'[t].pc = "mint"
      BY DrawIs
    <3>2. Insert(t) => turn'[t].pc \in {"failed", "plan", "edges"}
      BY InsertIs
    <3>3. (AddDependencies(t) => turn'[t].pc = "say") /\ (PlanFails(t) => turn'[t].pc = "failed")
      BY AddDependenciesIs, PlanFailsIs
    <3>4. WriteEntry(t) \/ EntryFails(t) => turn'[t].pc \in {"say", "done"}
      BY WriteIs
    <3>5. Say(t)
      BY <1>1, <2>2, <3>1, <3>2, <3>3, <3>4
    <3>6. Alone(t) /\ turn'[t].no = NextSeq(turn[t].project) /\ UNCHANGED transcript
      BY <3>5, SayIs DEF Say
    <3> QED BY <3>6 DEF Alone
  <2> QED BY <2>1, <2>2
<1>2. ASSUME NEW s \in Turns, NEW p \in Projects, Joins(s, p) PROVE Goal
  BY <1>2 DEF Joins
<1>3. ASSUME NEW P, Warned(P) PROVE Goal
  BY <1>3 DEF Warned
<1>4. ASSUME UNCHANGED turn PROVE Goal
  BY <1>4
<1> HIDE DEF Goal
<1>5. ASSUME NEW s \in Turns, NEW p \in Projects, Plan(s, p) \/ Converse(s, p) PROVE Goal
  BY <1>2, <1>5, BeginIs
<1>6. ASSUME NEW p \in Projects, DeleteProject(p) PROVE Goal
  BY <1>3, <1>6, DeleteProjectIs
<1>7. ASSUME DeleteSquad PROVE Goal
  BY <1>3, <1>7, DeleteSquadIs
<1>8. ASSUME NEW i \in Imports, ImportTask(i) PROVE Goal
  BY <1>4, <1>8, ImportIs
<1>9. ASSUME NEW p, NEW n, NEW b \in Branches, Claim(p, n, b) PROVE Goal
  BY <1>4, <1>9, ClaimIs
<1>10. Goal
  BY <1>1, <1>5, <1>6, <1>7, <1>8, <1>9 DEF StoresNext
<1> QED BY <1>10 DEF Goal

\* Where a new line of the transcript comes from.
LEMMA TalkIs ==
    ASSUME RowTablesHold, TurnsHold, StoresNext
    PROVE  \/ \A k \in DOMAIN transcript' : k \in DOMAIN transcript /\ transcript'[k] = transcript[k]
           \/ \E t \in Turns, c \in Nat, row \in Entry :
                  /\ WriteEntry(t) /\ Written(c, row)
                  /\ row.project = turn[t].project /\ row.by = t /\ row.seq = turn[t].no
                  /\ turn[t].pc = "write" /\ turn'[t].pc # "write" /\ UNCHANGED project
<1>1. CASE UNCHANGED transcript
  BY <1>1
<1>2. ASSUME NEW p \in Projects, DeleteProject(p)
      PROVE  \A k \in DOMAIN transcript' : k \in DOMAIN transcript /\ transcript'[k] = transcript[k]
  BY <1>2, DeleteProjectIs DEF Forgot
<1>3. ASSUME NEW t \in Turns, WriteEntry(t)
      PROVE  \E c \in Nat, row \in Entry :
                 /\ WriteEntry(t) /\ Written(c, row)
                 /\ row.project = turn[t].project /\ row.by = t /\ row.seq = turn[t].no
                 /\ turn[t].pc = "write" /\ turn'[t].pc # "write" /\ UNCHANGED project
  <2>1. turn[t].pc = "write" /\ turn'[t].pc # "write"
    BY <1>3, WriteIs
  <2>2. UNCHANGED project
    BY <1>3, OwnSteps
  <2> QED BY <1>3, <2>1, <2>2, WriteEntryIs
<1> QED BY <1>1, <1>2, <1>3, TalkGoesOn

LEMMA TalkKeepsItsOrder ==
    ASSUME RowTablesHold, TurnsHold, NumbersHold, TalkInOrder, StoresNext
    PROVE  TalkInOrder'
<1>1. Onward
  BY TablesKeep
<1>2. ASSUME NEW j \in DOMAIN transcript, NEW k \in DOMAIN transcript, j < k,
             transcript[j].project = transcript[k].project
      PROVE  \/ transcript[j].seq < transcript[k].seq
             \/ /\ transcript[j].by \in Turns /\ transcript[k].by \in Turns
                /\ transcript[j].by \in turn'[transcript[k].by].met
  <2>1. CASE transcript[j].seq < transcript[k].seq
    BY <2>1
  <2>2. CASE Overlapped(transcript[j].by, transcript[k].by)
    <3>1. turn[transcript[k].by].pc # "idle" /\ transcript[k].by \in Turns
      BY TypesOf DEF TurnsHold, Began
    <3> QED BY <1>1, <2>2, <3>1 DEF Overlapped, Onward
  <2> QED BY <1>2, <2>1, <2>2 DEF TalkInOrder
<1>3. CASE \A k \in DOMAIN transcript' : k \in DOMAIN transcript /\ transcript'[k] = transcript[k]
  BY <1>2, <1>3 DEF TalkInOrder, Overlapped
<1>4. ASSUME NEW t \in Turns, NEW c \in Nat, NEW row \in Entry, Written(c, row),
             row.project = turn[t].project, row.by = t, row.seq = turn[t].no, turn[t].pc = "write"
      PROVE  TalkInOrder'
  <2>1. ASSUME NEW j \in DOMAIN transcript', NEW k \in DOMAIN transcript', j < k,
               transcript'[j].project = transcript'[k].project
        PROVE  \/ transcript'[j].seq < transcript'[k].seq
               \/ /\ transcript'[j].by \in Turns /\ transcript'[k].by \in Turns
                  /\ transcript'[j].by \in turn'[transcript'[k].by].met
    <3>1. \A i \in DOMAIN transcript' : i \in DOMAIN transcript \/ i = c
      BY <1>4 DEF Written
    <3>2. \A i \in DOMAIN transcript : i \in Nat /\ i < c /\ transcript'[i] = transcript[i]
      BY <1>4, TypesOf DEF Written
    <3>3. transcript'[c] = row
      BY <1>4 DEF Written
    <3>4. j \in DOMAIN transcript
      BY <2>1, <3>1, <3>2
    <3>5. CASE k \in DOMAIN transcript
      BY <1>2, <2>1, <3>2, <3>4, <3>5
    <3>6. CASE k = c
      <4>1. transcript[j].seq < turn[t].no \/ transcript[j].by \in turn[t].met
        BY <1>4, <2>1, <3>2, <3>3, <3>4, <3>6 DEF NumbersHold
      <4>2. turn[t].met \subseteq turn'[t].met /\ transcript[j].by \in Turns
        BY <1>1, <1>4, <3>4, TypesOf DEF Onward
      <4> QED BY <1>4, <3>2, <3>3, <3>4, <3>6, <4>1, <4>2
    <3> QED BY <3>1, <3>5, <3>6
  <2> QED BY <2>1 DEF TalkInOrder, Overlapped
<1> QED BY <1>3, <1>4, TalkIs

LEMMA NumbersKeep ==
    ASSUME RowTablesHold, TurnsHold, NumbersHold, StoresNext
    PROVE  NumbersHold'
<1>1. Onward /\ UNCHANGED store
  BY TablesKeep, StoreStays
<1>2. ASSUME NEW t \in Turns, turn'[t].pc = "write",
             NEW k \in DOMAIN transcript', transcript'[k].project = turn'[t].project
      PROVE  transcript'[k].seq < turn'[t].no \/ transcript'[k].by \in turn'[t].met
  <2>1. CASE turn[t].pc = "write" /\ turn'[t].no = turn[t].no
    <3>1. turn[t].met \subseteq turn'[t].met /\ turn'[t].project = turn[t].project
      BY <1>1, <2>1 DEF Onward
    <3>2. CASE k \in DOMAIN transcript /\ transcript'[k] = transcript[k]
      BY <1>2, <2>1, <3>1, <3>2 DEF NumbersHold
    <3>3. ASSUME NEW s \in Turns, NEW c \in Nat, NEW row \in Entry, Written(c, row),
                 row.project = turn[s].project, row.by = s, turn[s].pc = "write", turn'[s].pc # "write", k = c
          PROVE  transcript'[k].by \in turn'[t].met
      <4>1. transcript'[k] = row /\ s # t /\ turn[s].project = turn[t].project
        BY <1>2, <3>1, <3>3 DEF Written
      <4>2. Runs(s) /\ Runs(t)
        BY <2>1, <3>3 DEF Runs, Over
      <4>3. s \in turn[t].met
        BY <4>1, <4>2 DEF TurnsHold
      <4> QED BY <3>1, <3>3, <4>1, <4>3
    <3>4. ASSUME NEW c, NEW row, Written(c, row)
          PROVE  k = c \/ (k \in DOMAIN transcript /\ transcript'[k] = transcript[k])
      BY <3>4 DEF Written
    <3> QED BY <3>2, <3>3, <3>4, TalkIs
  <2>2. CASE turn'[t].no = NextSeq(turn[t].project) /\ UNCHANGED transcript
    <3>1. k \in Entries(turn[t].project)
      BY <1>2, <2>2, SaysGoOn DEF Entries
    <3>2. CASE Postgres
      BY <2>2, <3>1, <3>2, NextSeqIs
    <3>3. CASE ~Postgres
      BY <2>2, <3>3, NextSeqIs DEF NumbersHold
    <3> QED BY <3>2, <3>3
  <2> QED BY <1>2, <2>1, <2>2, SaysGoOn
<1>3. ASSUME ~Postgres
      PROVE  /\ \A k \in DOMAIN transcript' : transcript'[k].seq < Cardinality(DOMAIN transcript')
             /\ \A t \in Turns : turn'[t].pc = "write" => turn'[t].no <= Cardinality(DOMAIN transcript')
  <2> DEFINE n == Cardinality(DOMAIN transcript)
             m == Cardinality(DOMAIN transcript')
  <2>1. /\ n \in Nat /\ IsFiniteSet(DOMAIN transcript)
        /\ \A k \in DOMAIN transcript : transcript[k].seq \in Nat /\ transcript[k].seq < n
        /\ \A t \in Turns : turn[t].no \in Nat /\ (turn[t].pc = "write" => turn[t].no <= n)
    BY <1>3, TypesOf DEF NumbersHold
  <2>2. CASE DOMAIN transcript' = DOMAIN transcript
             /\ \A k \in DOMAIN transcript : transcript'[k] = transcript[k]
    <3>1. \A t \in Turns : turn'[t].pc = "write" => turn'[t].no <= n
      BY <1>3, <2>1, SaysGoOn, NextSeqIs
    <3> QED BY <2>1, <2>2, <3>1
  <2>3. ASSUME NEW t \in Turns, WriteEntry(t), NEW c \in Nat, NEW row \in Entry, Written(c, row),
               row.seq = turn[t].no, turn[t].pc = "write", turn'[t].pc # "write"
        PROVE  /\ \A k \in DOMAIN transcript' : transcript'[k].seq < m
               /\ \A s \in Turns : turn'[s].pc = "write" => turn'[s].no <= m
    <3>1. m = n + 1
      BY <2>1, <2>3, FS_AddElement DEF Written
    <3>2. \A k \in DOMAIN transcript' : transcript'[k].seq < m
      BY <2>1, <2>3, <3>1 DEF Written
    <3>3. \A s \in Turns : turn'[s].pc = "write" => turn'[s] = turn[s]
      BY <2>3, OwnSteps DEF Alone
    <3>4. \A s \in Turns : turn'[s].pc = "write" => turn'[s].no <= m
      BY <2>1, <3>1, <3>3
    <3> QED BY <3>2, <3>4
  <2>4. ASSUME NEW p \in Projects, DeleteProject(p)
        PROVE  DOMAIN transcript' = DOMAIN transcript
               /\ \A k \in DOMAIN transcript : transcript'[k] = transcript[k]
    BY <1>3, <2>4, DeleteProjectIs DEF Forgot
  <2>5. ASSUME NEW t \in Turns, WriteEntry(t)
        PROVE  /\ \A k \in DOMAIN transcript' : transcript'[k].seq < m
               /\ \A s \in Turns : turn'[s].pc = "write" => turn'[s].no <= m
    <3>1. PICK c \in Nat, row \in Entry : Written(c, row) /\ row.seq = turn[t].no
      BY <2>5, WriteEntryIs
    <3>2. turn[t].pc = "write" /\ turn'[t].pc # "write"
      BY <2>5, WriteIs
    <3> QED BY <2>3, <2>5, <3>1, <3>2
  <2> QED BY <2>2, <2>4, <2>5, TalkGoesOn
<1>4. Postgres <=> store' = "postgres"
  BY <1>1 DEF Postgres
<1> QED BY <1>2, <1>3, <1>4 DEF NumbersHold, Postgres

\* How a project comes to be dropped, and where turns begin.
LEMMA DropsGoOn ==
    ASSUME RowTablesHold, TurnsHold, StoresNext
    PROVE  \A p \in Projects : project'[p] = "dropped" =>
               project[p] = "dropped" \/ (Warned({p}) /\ Forgot(p))
<1> DEFINE Goal == \A p \in Projects : project'[p] = "dropped" =>
                       project[p] = "dropped" \/ (Warned({p}) /\ Forgot(p))
<1>1. ASSUME UNCHANGED project PROVE Goal
  BY <1>1
<1>2. ASSUME NEW p \in Projects, DeleteProject(p) PROVE Goal
  <2>1. project' = [project EXCEPT ![p] = "dropped"] /\ Warned({p}) /\ Forgot(p)
    BY <1>2, DeleteProjectIs
  <2> QED BY <2>1
<1>3. ASSUME DeleteSquad PROVE Goal
  BY <1>3, DeleteSquadIs
<1> HIDE DEF Goal
<1>4. ASSUME NEW t \in Turns,
             Draw(t) \/ Insert(t) \/ AddDependencies(t) \/ PlanFails(t) \/ Say(t) \/ WriteEntry(t) \/ EntryFails(t)
      PROVE  Goal
  BY <1>1, <1>4, OwnSteps
<1>5. ASSUME NEW t \in Turns, NEW p \in Projects, Plan(t, p) \/ Converse(t, p) PROVE Goal
  BY <1>1, <1>5, BeginIs
<1>6. ASSUME NEW i \in Imports, ImportTask(i) PROVE Goal
  BY <1>1, <1>6, ImportIs
<1>7. ASSUME NEW p, NEW n, NEW b \in Branches, Claim(p, n, b) PROVE Goal
  BY <1>1, <1>7, ClaimIs
<1>8. Goal
  BY <1>2, <1>3, <1>4, <1>5, <1>6, <1>7 DEF StoresNext
<1> QED BY <1>8 DEF Goal

LEMMA BeginsCut ==
    ASSUME RowTablesHold, TurnsHold, StoresNext, NEW t \in Turns, turn[t].pc = "idle", turn'[t].pc # "idle"
    PROVE  Postgres /\ project'[turn'[t].project] = "dropped" => turn'[t].cut
<1>1. ASSUME NEW s \in Turns,
             Draw(s) \/ Insert(s) \/ AddDependencies(s) \/ PlanFails(s) \/ Say(s) \/ WriteEntry(s) \/ EntryFails(s)
      PROVE  FALSE
  <2>1. Alone(s)
    BY <1>1, OwnSteps
  <2> QED BY <2>1 DEF Alone, Over
<1>2. ASSUME NEW s \in Turns, NEW p \in Projects, Plan(s, p) \/ Converse(s, p)
      PROVE  Postgres /\ project'[turn'[t].project] = "dropped" => turn'[t].cut
  <2>1. Joins(s, p) /\ UNCHANGED project
    BY <1>2, BeginIs
  <2>2. s = t
    BY <2>1 DEF Joins
  <2> QED BY <2>1, <2>2 DEF Joins
<1>3. ASSUME NEW P, Warned(P) PROVE FALSE
  BY <1>3 DEF Warned
<1>4. ~UNCHANGED turn
  OBVIOUS
<1>5. ASSUME NEW p \in Projects, DeleteProject(p) PROVE FALSE
  BY <1>3, <1>5, DeleteProjectIs
<1>6. ASSUME DeleteSquad PROVE FALSE
  BY <1>3, <1>6, DeleteSquadIs
<1>7. ASSUME NEW i \in Imports, ImportTask(i) PROVE FALSE
  BY <1>4, <1>7, ImportIs
<1>8. ASSUME NEW p, NEW n, NEW b \in Branches, Claim(p, n, b) PROVE FALSE
  BY <1>4, <1>8, ClaimIs
<1> QED BY <1>1, <1>2, <1>5, <1>6, <1>7, <1>8 DEF StoresNext

LEMMA CutsKeep ==
    ASSUME RowTablesHold, TurnsHold, CutsHold, StoresNext
    PROVE  CutsHold'
<1>1. Onward /\ UNCHANGED store
  BY TablesKeep, StoreStays
<1>2. ASSUME NEW t \in Turns, Postgres, turn'[t].pc \notin Over, project'[turn'[t].project] = "dropped"
      PROVE  turn'[t].cut
  <2>0. CASE turn[t].pc = "idle"
    <3>1. turn'[t].pc # "idle"
      BY <1>2 DEF Over
    <3> QED BY <1>2, <2>0, <3>1, BeginsCut
  <2>1. SUFFICES ASSUME turn[t].pc # "idle" PROVE turn'[t].cut
    BY <2>0
  <2>2. turn'[t].project = turn[t].project /\ Runs(t) /\ (turn[t].cut => turn'[t].cut)
    BY <1>1, <1>2, <2>1 DEF Onward, Runs
  <2>3. turn[t].project \in Projects
    BY <2>1 DEF TurnsHold
  <2>4. CASE project[turn[t].project] = "dropped"
    BY <1>2, <2>2, <2>4 DEF CutsHold
  <2>5. CASE Warned({turn[t].project})
    BY <1>2, <2>2, <2>5 DEF Warned
  <2> QED BY <1>2, <2>2, <2>3, <2>4, <2>5, DropsGoOn
<1> QED BY <1>1, <1>2 DEF CutsHold, Runs, Postgres

LEMMA OrphansKeep ==
    ASSUME RowTablesHold, TurnsHold, CutsHold, OrphansAreExplained, StoresNext
    PROVE  OrphansAreExplained'
<1>1. Onward /\ UNCHANGED store
  BY TablesKeep, StoreStays
<1>2. ASSUME Postgres, NEW k \in DOMAIN transcript', project'[transcript'[k].project] = "dropped"
      PROVE  turn'[transcript'[k].by].cut
  <2>1. CASE k \in DOMAIN transcript /\ transcript'[k] = transcript[k]
    <3> DEFINE p == transcript[k].project
    <3>1. turn[transcript[k].by].pc # "idle" /\ transcript[k].by \in Turns /\ p \in Projects
      BY <2>1, TypesOf DEF TurnsHold, Began
    <3>2. CASE project[p] = "dropped"
      <4>1. turn[transcript[k].by].cut
        BY <1>2, <2>1, <3>2 DEF OrphansAreExplained
      <4> QED BY <1>1, <2>1, <3>1, <4>1 DEF Onward
    <3>3. CASE Forgot(p)
      BY <1>2, <2>1, <3>3 DEF Forgot, Outside
    <3> QED BY <1>2, <2>1, <3>1, <3>2, <3>3, DropsGoOn
  <2>2. ASSUME NEW t \in Turns, NEW c \in Nat, NEW row \in Entry, Written(c, row), k = c,
               row.project = turn[t].project, row.by = t, turn[t].pc = "write", UNCHANGED project
        PROVE  turn'[transcript'[k].by].cut
    <3>1. transcript'[k] = row /\ Runs(t)
      BY <2>2 DEF Written, Runs, Over
    <3>2. turn[t].cut
      BY <1>2, <2>2, <3>1 DEF CutsHold
    <3> QED BY <1>1, <2>2, <3>1, <3>2 DEF Onward
  <2>3. ASSUME NEW c, NEW row, Written(c, row)
        PROVE  k = c \/ (k \in DOMAIN transcript /\ transcript'[k] = transcript[k])
    BY <2>3 DEF Written
  <2> QED BY <2>1, <2>2, <2>3, TalkIs
<1> QED BY <1>1, <1>2 DEF OrphansAreExplained, Postgres

-----------------------------------------------------------------------------
(* Plans are whole.                                                        *)

\* An undisturbed plan was undisturbed before.
LEMMA UndisturbedBefore ==
    ASSUME RowTablesHold, TurnsHold, StoresNext, NEW t \in Turns,
           turn[t].pc # "idle", project'[turn'[t].project] = "alive", Postgres \/ imported' = {}
    PROVE  Undisturbed(t) /\ turn'[t].project = turn[t].project
<1>1. turn'[t].project = turn[t].project
  BY TablesKeep DEF Onward
<1>2. turn[t].project \in Projects
  BY DEF TurnsHold
<1>3. project[turn[t].project] = "alive"
  BY <1>1, <1>2, RowsAlwaysGoOn DEF RowsGoOn
<1>4. Postgres \/ imported = {}
  BY ImportsGoOn
<1> QED BY <1>1, <1>3, <1>4 DEF Undisturbed

LEMMA MadeKeeps ==
    ASSUME RowTablesHold, TurnsHold, DictHolds, MadeHolds, StoresNext
    PROVE  MadeHolds'
<1>1. UNCHANGED store
  BY StoreStays
<1>2. ASSUME NEW t \in Turns, NEW n \in Range(turn'[t].made), turn'[t].pc # "idle",
             project'[turn'[t].project] = "alive", Postgres \/ imported' = {}
      PROVE  \E k \in DOMAIN tasks' : tasks'[k].by = t /\ tasks'[k].id = n
  <2>1. CASE n \in Range(turn[t].made)
    <3>1. turn[t].pc # "idle"
      <4>1. turn[t].pc = "idle" => Range(turn[t].made) = {}
        BY DEF TurnsHold, Range
      <4> QED BY <2>1, <4>1
    <3>2. Undisturbed(t) /\ turn'[t].project = turn[t].project
      BY <1>2, <3>1, UndisturbedBefore
    <3>3. PICK k \in DOMAIN tasks : tasks[k].by = t /\ tasks[k].id = n
      BY <2>1, <3>1, <3>2 DEF MadeHolds, Present
    <3>4. k \in DOMAIN tasks' /\ Stayed(k)
      BY <1>2, <2>1, <3>2, <3>3, PlanStays
    <3> QED BY <3>3, <3>4 DEF Stayed
  <2>2. CASE n \notin Range(turn[t].made)
    <3>1. turn'[t].made # turn[t].made /\ turn'[t].made # <<>>
      BY <1>2, <2>2 DEF Range
    <3>2. turn'[t].made = Append(turn[t].made, turn[t].no)
          /\ \E c \in DOMAIN tasks' : tasks'[c].by = t /\ tasks'[c].id = turn[t].no
      BY <3>1, PlansGoOn
    <3>3. n = turn[t].no
      <4>0. turn[t].made \in Seq(Nat) /\ turn[t].no \in Nat
        BY TypesOf
      <4>1. Range(Append(turn[t].made, turn[t].no)) = Range(turn[t].made) \cup {turn[t].no}
        BY <4>0, RangeOfAppend
      <4> QED BY <1>2, <2>2, <3>2, <4>1
    <3> QED BY <3>2, <3>3
  <2> QED BY <2>1, <2>2
<1>3. ASSUME ~Postgres, imported' = {}, NEW k \in DOMAIN tasks' PROVE tasks'[k].by \in Turns
  <2>1. imported = {}
    BY <1>3, ImportsGoOn
  <2>2. ~Brought(k)
    BY <1>3 DEF Brought
  <2>3. CASE Stayed(k)
    BY <1>3, <2>1, <2>3 DEF Stayed, MadeHolds
  <2>4. CASE \E t \in Turns : Inserted(k, t)
    BY <2>4 DEF Inserted
  <2> QED BY <2>2, <2>3, <2>4, RowsAlwaysGoOn DEF RowsGoOn
<1> QED BY <1>1, <1>2, <1>3 DEF MadeHolds, Undisturbed, Present, Postgres

LEMMA PlansStayWhole ==
    ASSUME RowTablesHold, TurnsHold, DictHolds, MadeHolds, PlansAreWhole, StoresNext
    PROVE  PlansAreWhole'
<1>1. UNCHANGED store
  BY StoreStays
<1>2. ASSUME NEW t \in Turns, turn'[t].pc \in {"say", "write", "done"}, Len(turn'[t].made) > 1,
             project'[turn'[t].project] = "alive", Postgres \/ imported' = {}
      PROVE  \E j, k \in DOMAIN tasks' :
                 /\ tasks'[j].by = t /\ tasks'[j].id = turn'[t].made[1]
                 /\ tasks'[k].by = t /\ tasks'[k].id = turn'[t].made[2]
                 /\ tasks'[j].id \in tasks'[k].deps
  <2>1. turn'[t].made = turn[t].made /\ (Declared(t) \/ AddDependencies(t))
    BY <1>2, PlansGoOn
  <2>2. turn[t].pc # "idle"
    BY <2>1, AddDependenciesIs DEF Declared
  <2>3. Undisturbed(t) /\ turn'[t].project = turn[t].project
    BY <1>2, <2>2, UndisturbedBefore
  <2>4. /\ turn[t].made[1] \in Range(turn[t].made) /\ turn[t].made[2] \in Range(turn[t].made)
        /\ Len(turn[t].made) >= 2
    BY <1>2, <2>1, TypesOf DEF Range
  <2>5. ASSUME NEW k \in DOMAIN tasks, tasks[k].by = t, tasks[k].id \in Range(turn[t].made)
        PROVE  k \in DOMAIN tasks' /\ Stayed(k) /\ tasks[k].deps \subseteq tasks'[k].deps
    BY <1>2, <2>3, <2>5, PlanStays
  <2>6. CASE Declared(t)
    <3>1. PICK j, k \in DOMAIN tasks :
              /\ tasks[j].by = t /\ tasks[j].id = turn[t].made[1]
              /\ tasks[k].by = t /\ tasks[k].id = turn[t].made[2]
              /\ tasks[j].id \in tasks[k].deps
      BY <2>3, <2>6 DEF PlansAreWhole, Undisturbed
    <3>2. j \in DOMAIN tasks' /\ Stayed(j)
      BY <2>4, <2>5, <3>1
    <3>3. k \in DOMAIN tasks' /\ Stayed(k) /\ tasks[k].deps \subseteq tasks'[k].deps
      BY <2>4, <2>5, <3>1
    <3> QED BY <2>1, <3>1, <3>2, <3>3 DEF Stayed
  <2>7. CASE AddDependencies(t)
    <3>1. Present(t, turn[t].made[1]) /\ Present(t, turn[t].made[2])
      BY <2>2, <2>3, <2>4 DEF MadeHolds
    <3>2. PICK j \in DOMAIN tasks : tasks[j].by = t /\ tasks[j].id = turn[t].made[1]
      BY <3>1 DEF Present
    <3>3. PICK k \in DOMAIN tasks : tasks[k].by = t /\ tasks[k].id = turn[t].made[2]
      BY <3>1 DEF Present
    <3>4. j \in DOMAIN tasks' /\ Stayed(j)
      BY <2>4, <2>5, <3>2
    <3>5. k \in DOMAIN tasks' /\ Stayed(k)
      BY <2>4, <2>5, <3>3
    <3>6. tasks[k].project = turn[t].project
      BY <3>3 DEF TurnsHold, Began
    <3>7. Hit(turn[t].project, turn[t].made[2], k)
      BY <3>3, <3>6 DEF Hit
    <3>8. AddsEdge(t, k)
      BY <2>4, <2>7, <3>7, EdgesAndBranches DEF EdgesGoOn
    <3> QED BY <2>1, <3>2, <3>3, <3>4, <3>5, <3>8 DEF Stayed, AddsEdge
  <2> QED BY <2>1, <2>6, <2>7
<1> QED BY <1>1, <1>2 DEF PlansAreWhole, Declared, Postgres

-----------------------------------------------------------------------------
(* Why tasks wait.                                                         *)

LEMMA EdgesKeep ==
    ASSUME RowTablesHold, TurnsHold, RowsHold, DictHolds, MadeHolds, EdgesHold, StoresNext
    PROVE  EdgesHold'
<1>1. UNCHANGED store /\ RowsGoOn /\ EdgesGoOn
  BY StoreStays, RowsAlwaysGoOn, EdgesAndBranches
<1>2. RowsHold' /\ RowTablesHold'
  BY RowsKeep, TablesKeep
<1> DEFINE Known(k) ==
      \/ /\ tasks'[k].by \in Turns /\ turn'[tasks'[k].by].pc \in {"say", "write", "done"}
         /\ Len(turn'[tasks'[k].by].made) > 1
      \/ Postgres /\ \E j \in DOMAIN tasks' :
             tasks'[j].project = tasks'[k].project /\ tasks'[j].id = tasks'[k].id /\ j # k
      \/ ~Postgres /\ tasks'[k].by \in Imports
<1>3. ASSUME NEW k \in DOMAIN tasks', Stayed(k), Postgres PROVE project'[tasks[k].project] = "alive"
  <2>1. store' = "postgres" /\ tasks'[k].project = tasks[k].project /\ tasks[k].project \in Projects
    BY <1>1, <1>3, TypesOf DEF Postgres, Stayed
  <2> QED BY <1>2, <1>3, <2>1 DEF RowsHold, Rows, Postgres
<1>4. ASSUME NEW k \in DOMAIN tasks', Stayed(k), Postgres,
             NEW j \in DOMAIN tasks, tasks[j].project = tasks[k].project, tasks[j].id = tasks[k].id, j # k
      PROVE  Known(k)
  <2>1. j \in DOMAIN tasks' /\ Stayed(j)
    BY <1>1, <1>3, <1>4 DEF RowsGoOn
  <2> QED BY <1>4, <2>1 DEF Stayed
<1>5. ASSUME NEW k \in DOMAIN tasks', Stayed(k), EdgeIsKnown(k) PROVE Known(k)
  <2>1. CASE tasks[k].by \in Turns /\ Declared(tasks[k].by)
    <3>1. /\ turn'[tasks[k].by].made = turn[tasks[k].by].made
          /\ turn'[tasks[k].by].pc \in {"say", "write", "done"}
      BY <2>1, PlansGoOn
    <3> QED BY <1>5, <2>1, <3>1 DEF Stayed, Declared
  <2>2. CASE Postgres /\ \E j \in Named(tasks[k].project, tasks[k].id) : j # k
    <3>1. PICK j \in DOMAIN tasks : tasks[j].project = tasks[k].project /\ tasks[j].id = tasks[k].id /\ j # k
      BY <2>2 DEF Named, Rows
    <3> QED BY <1>4, <1>5, <2>2, <3>1
  <2>3. CASE ~Postgres /\ tasks[k].by \in Imports
    BY <1>5, <2>3 DEF Stayed
  <2> QED BY <1>5, <2>1, <2>2, <2>3 DEF EdgeIsKnown
<1>6. ASSUME NEW k \in DOMAIN tasks', Stayed(k), NEW t \in Turns, AddsEdge(t, k) PROVE Known(k)
  <2>1. /\ turn[t].pc = "edges" /\ turn'[t].pc = "say" /\ turn'[t].made = turn[t].made
        /\ Len(turn[t].made) >= 2 /\ tasks[k].id = turn[t].made[2]
        /\ Postgres => tasks[k].project = turn[t].project
    BY <1>6, AddDependenciesIs DEF AddsEdge, Hit
  <2>2. turn[t].made[2] \in Range(turn[t].made) /\ Len(turn[t].made) > 1
    BY <2>1, TypesOf DEF Range
  <2>3. k \in DOMAIN tasks /\ tasks[k].by \in Turns \cup Imports /\ tasks'[k].by = tasks[k].by
    BY <1>6, TypesOf DEF Stayed
  <2>4. CASE tasks[k].by = t
    BY <2>1, <2>2, <2>3, <2>4
  <2>5. CASE tasks[k].by # t /\ ~Postgres
    <3>1. tasks[k].by \notin Turns
      <4> SUFFICES ASSUME tasks[k].by \in Turns PROVE FALSE
        OBVIOUS
      <4>1. tasks[k].id \in Minted(tasks[k].by) /\ tasks[k].id \in Minted(t)
        BY <2>1, <2>2, <2>3, <2>5 DEF DictHolds, Minted
      <4> QED BY <2>5, <4>1 DEF DictHolds
    <3> QED BY <2>3, <2>5, <3>1
  <2>6. CASE tasks[k].by # t /\ Postgres
    <3>1. project'[turn[t].project] = "alive" /\ turn[t].project \in Projects
      BY <1>3, <1>6, <2>1, <2>6, TypesOf DEF Stayed
    <3>2. Undisturbed(t)
      BY <1>1, <2>6, <3>1 DEF Undisturbed, RowsGoOn
    <3>3. PICK j \in DOMAIN tasks : tasks[j].by = t /\ tasks[j].id = turn[t].made[2]
      BY <2>1, <2>2, <3>2 DEF MadeHolds, Present
    <3>4. tasks[j].project = turn[t].project
      BY <3>3 DEF TurnsHold, Began
    <3>5. j # k
      BY <2>6, <3>3
    <3> QED BY <1>4, <1>6, <2>1, <2>6, <3>3, <3>4, <3>5
  <2> QED BY <2>4, <2>5, <2>6
<1>7. ASSUME NEW k \in DOMAIN tasks', tasks'[k].deps # {} PROVE Known(k)
  <2>1. ~(\E t \in Turns : Inserted(k, t)) /\ ~Brought(k)
    BY <1>7 DEF Inserted, Brought
  <2>2. Stayed(k) /\ (tasks'[k].deps = tasks[k].deps \/ \E t \in Turns : AddsEdge(t, k))
    BY <1>1, <2>1 DEF EdgesGoOn
  <2>3. CASE tasks'[k].deps = tasks[k].deps
    <3>1. EdgeIsKnown(k)
      BY <1>7, <2>2, <2>3 DEF EdgesHold, Stayed
    <3> QED BY <1>5, <2>2, <3>1
  <2> QED BY <1>6, <2>2, <2>3
<1>8. \A k \in DOMAIN tasks' : tasks'[k].deps # {} => Known(k)
  BY <1>7
<1>9. store' = store
  BY <1>1
<1> QED BY <1>8, <1>9 DEF EdgesHold, EdgeIsKnown, Declared, Named, Rows, Postgres

\* Two rows of one name are more than one.
LEMMA EdgesAreKnown == ASSUME RowTablesHold, EdgesHold PROVE EdgesAreDeclared
<1>1. ASSUME NEW k \in DOMAIN tasks, NEW j \in Named(tasks[k].project, tasks[k].id), j # k
      PROVE  Cardinality(Named(tasks[k].project, tasks[k].id)) > 1
  <2> DEFINE N == Named(tasks[k].project, tasks[k].id)
  <2>1. N \subseteq DOMAIN tasks /\ j \in N /\ k \in N
    BY DEF Named, Rows
  <2>2. IsFiniteSet(N) /\ Cardinality(N) \in Nat
    BY <2>1, TypesOf
  <2>3. {j, k} \subseteq N
    BY <2>1
  <2>4. Cardinality({j, k}) = 2
    <3>1. IsFiniteSet({k}) /\ Cardinality({k}) = 1
      BY FS_Singleton
    <3>2. {j, k} = {k} \cup {j} /\ j \notin {k}
      BY <1>1
    <3> QED BY <3>1, <3>2, FS_AddElement
  <2>5. Cardinality({j, k}) <= Cardinality(N)
    BY <2>2, <2>3, FS_Subset
  <2> QED BY <2>2, <2>4, <2>5
<1> QED BY <1>1 DEF EdgesHold, EdgesAreDeclared, EdgeIsKnown

-----------------------------------------------------------------------------
(* The records of a project.                                               *)

LEMMA RecordsInit == ASSUME StoresInit PROVE RecordsHold
<1>1. DOMAIN tasks = {} /\ DOMAIN transcript = {} /\ tasks = Empty /\ transcript = Empty
  BY DEF StoresInit, Empty
<1>2. Cardinality({}) = 0
  BY FS_EmptySet
<1>3. \A t \in Turns : turn[t] = Fresh
  BY DEF StoresInit
<1>4. \A t \in Turns : turn[t].pc = "idle" /\ turn[t].made = <<>> /\ turn[t].project = None
  BY <1>3 DEF Fresh
<1>5. RowTablesHold
  <2>1. TaskTable
    <3>1. Upto(tasks, 0)
      BY <1>1 DEF Upto
    <3>2. Empty \in [{} -> TaskRow]
      BY DEF Empty
    <3> QED BY <1>1, <3>1, <3>2 DEF TaskTable
  <2>2. TalkTable
    <3>1. Upto(transcript, 0)
      BY <1>1 DEF Upto
    <3>2. Empty \in [{} -> Entry]
      BY DEF Empty
    <3> QED BY <1>1, <3>1, <3>2 DEF TalkTable
  <2>3. turn \in [Turns -> TurnType]
    <3>1. <<>> \in Seq(Nat)
      OBVIOUS
    <3>2. Fresh \in TurnType
      BY <3>1 DEF Fresh, TurnType
    <3> QED BY <3>2 DEF StoresInit
  <2>4. OtherTypes
    BY DEF StoresInit, OtherTypes
  <2> QED BY <2>1, <2>2, <2>3, <2>4, TablesAre
<1>6. TurnsHold
  BY <1>1, <1>4 DEF TurnsHold, Runs, Over
<1>7. RowsHold
  BY <1>1, <1>4 DEF RowsHold, Rows, StoresInit
<1>8. DictHolds
  <2>1. \A t \in Turns : Minted(t) = {}
    BY <1>4 DEF Minted, Range
  <2> QED BY <1>1, <1>4, <2>1 DEF DictHolds
<1>9. MadeHolds
  BY <1>1, <1>4 DEF MadeHolds
<1>10. /\ MintedIdsDiffer /\ PlansAreWhole /\ EdgesHold /\ BranchHeldOnce
       /\ TalkInOrder /\ OrphansAreExplained
  BY <1>1, <1>4 DEF MintedIdsDiffer, PlansAreWhole, EdgesHold, BranchHeldOnce, TalkInOrder,
                    OrphansAreExplained, Declared
<1>11. NumbersHold
  BY <1>1, <1>2, <1>4 DEF NumbersHold
<1>12. CutsHold
  BY <1>4 DEF CutsHold, Runs, Over
<1> QED BY <1>5, <1>6, <1>7, <1>8, <1>9, <1>10, <1>11, <1>12 DEF RecordsHold

LEMMA RecordsNext == ASSUME RecordsHold, [StoresNext]_storesVars PROVE RecordsHold'
<1>1. CASE StoresNext
  BY <1>1, TablesKeep, TurnsKeep, RowsKeep, DictKeeps, MintedIdsKeep, MadeKeeps, PlansStayWhole,
     EdgesKeep, BranchesKeep, NumbersKeep, TalkKeepsItsOrder, CutsKeep, OrphansKeep DEF RecordsHold
<1>2. CASE UNCHANGED storesVars
  <2>1. UNCHANGED <<store, project, tasks, counter, turn, transcript, imported>>
    BY <1>2 DEF storesVars
  <2>2. RowTablesHold'
    BY <2>1 DEF RecordsHold, RowTablesHold, StoresTypeOK, Upto
  <2>3. TurnsHold' /\ CutsHold'
    BY <2>1 DEF RecordsHold, TurnsHold, CutsHold, Runs, Began, Postgres
  <2>4. RowsHold'
    BY <2>1 DEF RecordsHold, RowsHold, Rows, Postgres
  <2>7. DictHolds'
    BY <2>1 DEF RecordsHold, DictHolds, Minted, Postgres
  <2>5. MintedIdsDiffer' /\ PlansAreWhole' /\ BranchHeldOnce' /\ TalkInOrder' /\ OrphansAreExplained'
    BY <2>1 DEF RecordsHold, MintedIdsDiffer, PlansAreWhole, BranchHeldOnce, TalkInOrder,
                OrphansAreExplained, Overlapped, Declared, Postgres
  <2>6. MadeHolds' /\ EdgesHold' /\ NumbersHold'
    BY <2>1 DEF RecordsHold, MadeHolds, EdgesHold, NumbersHold, Undisturbed, Present, EdgeIsKnown,
                Declared, Named, Rows, Postgres
  <2> QED BY <2>2, <2>3, <2>4, <2>5, <2>6, <2>7 DEF RecordsHold
<1> QED BY <1>1, <1>2

THEOREM RecordsAlwaysHold == StoresSpec => []RecordsHold
<1> QED BY RecordsInit, RecordsNext, PTL DEF StoresSpec

\* Whatever turns, imports and deletions interleave: two tasks of a project share an
\* id only where their turns overlapped or an import brought it (tasks.py counts and
\* inserts), a plan's dependencies are there as long as its project is, nothing waits
\* without a reason, and no branch is held twice.
THEOREM PlansHoldAlways == StoresSpec => []PlansHold
<1>1. ASSUME RecordsHold PROVE PlansHold
  <2>1. EdgesAreDeclared
    BY <1>1, EdgesAreKnown DEF RecordsHold
  <2> QED BY <1>1, <2>1 DEF RecordsHold, PlansHold, RowTablesHold
<1> QED BY <1>1, RecordsAlwaysHold, PTL

\* A transcript is in the order of its talk but for turns that overlapped, and
\* outlives the deletion of its project only where a turn was still running or began
\* afterwards (transcript.py reads the highest number before it writes; the deletion of
\* a project takes the rows it finds, and commands.py asks for no project).
THEOREM TalkIsKeptAlways == StoresSpec => []TalkIsKept
<1>1. ASSUME RecordsHold PROVE TalkIsKept
  BY <1>1 DEF RecordsHold, TalkIsKept
<1> QED BY <1>1, RecordsAlwaysHold, PTL
=============================================================================

------------------------------- MODULE Delivery -------------------------------
(***************************************************************************)
(* How the outcome of a turn reaches a Studio: in the HTTP reply of the    *)
(* request that ran it, and as a frame on the thread's channel, which a    *)
(* WebSocket replays and then follows.  One thread in full; a Studio that  *)
(* shows it, another thread or a fresh chat; other clients that command    *)
(* and answer too.  Of the other threads only what the page does with      *)
(* their replies and frames is kept: there is one store for all of them.   *)
(* The bus is in memory or in Redis, and with Arq the turns run in a       *)
(* worker, whose gate records are not the API's.  TurnRuntime models what  *)
(* is inside a turn and two handlers that race for one gate; here a        *)
(* resolve is one step.                                                    *)
(***************************************************************************)
EXTENDS Integers, Sequences, FiniteSets, FiniteSetsExt, SequencesExt

CONSTANTS
    Slots,       \* requests in flight at once
    Conns,       \* WebSockets of the thread the page can hold at once
    Modes,       \* subset of {"memory", "redis", "arq"}
    Cap,         \* RedisEventBus._replay
    MaxTurns,    \* bound on the turns of the thread
    MaxTokens,   \* by mode: bound on token and verdict frames
    MaxBreaks    \* by mode: bound on lost sockets, restarts, reloads, openings,
                 \* continuations, and what the page does about other threads

ASSUME DeliveryAssumption ==
    /\ Modes \subseteq {"memory", "redis", "arq"} /\ Slots # {} /\ Conns # {}
    /\ {Cap, MaxTurns} \subseteq Nat \ {0}
    /\ {MaxTokens, MaxBreaks} \subseteq [Modes -> Nat]

VARIABLES
    mode,
    server,    \* [begun, turns, current, open, known, since, gone]: outcomes so
               \* far, the gate the thread waits at (0: none), open records,
               \* records the API has; turns at its last restart, a ghost, and
               \* whether that lost the checkpoint
    request,
    jobs,      \* turns enqueued for the worker
    worker,    \* the turn it runs
    frames,    \* the channel's history: [n, turn, gate], turn 0 for a token
    published, \* frames published so far
    tokens,    \* of them, token and verdict frames
    conn,      \* connect's WebSockets; left: cleaned up; gap: a ghost
    studio,    \* useThread; at, excuse and left: ghosts
    breaks

vars == <<mode, server, request, jobs, worker, frames, published, tokens, conn, studio, breaks>>
wire == <<frames, published, tokens, conn>>

-----------------------------------------------------------------------------
Foreign == -1               \* what another thread waits at, if anything
Turns   == Nat
Gates   == Nat              \* a gate has the number of the turn that opened it
Frames  == [n : Nat, turn : Turns, gate : Gates]
Free    == [pc |-> "free", kind |-> "start", mine |-> FALSE, gate |-> 0, turn |-> 0]
Idle    == [pc |-> "idle", turn |-> 0, gate |-> 0]
Off     == [pc |-> "off", left |-> FALSE, buffer |-> <<>>, seen |-> 0, gap |-> FALSE]
Blank   == [view |-> "none", pending |-> 0, busy |-> FALSE, at |-> 0,
            excuse |-> "none", left |-> FALSE]

Init ==
    /\ mode \in Modes
    /\ server = [begun |-> FALSE, turns |-> 0, current |-> 0, open |-> {}, known |-> {},
                 since |-> 0, gone |-> FALSE]
    /\ request = [s \in Slots |-> Free]
    /\ jobs = 0 /\ worker = Idle
    /\ frames = <<>> /\ published = 0 /\ tokens = 0
    /\ conn = [c \in Conns |-> Off]
    /\ studio = Blank
    /\ breaks = 0

InFlight == {s \in Slots : request[s].pc # "free"}
AtWork   == {s \in Slots : /\ request[s].pc \in {"sent", "turn"}
                           /\ request[s].kind \in {"start", "resolve"}}
Budget   == server.turns + Cardinality(AtWork) + jobs + (IF worker.pc = "turn" THEN 1 ELSE 0) < MaxTurns

Send(s, kind, mine, gate) ==
    /\ request[s].pc = "free"
    /\ request' = [request EXCEPT ![s] =
                       [pc |-> "sent", kind |-> kind, mine |-> mine, gate |-> gate, turn |-> 0]]

-----------------------------------------------------------------------------
(* What the user does in the Studio.                                       *)

\* A ghost: why what is shown need not be the newest outcome.  That a reply came
\* last which was older or blind holds until the newest is shown.
Because(reason) == IF studio.excuse \in {"crossed", "blind"} THEN studio.excuse ELSE reason

\* A request that will replace what is shown clears it first.
Asking == [studio EXCEPT !.pending = 0, !.busy = TRUE, !.excuse = Because("cleared")]

\* start: every command goes out with a session of its own, so this begins the
\* thread.  The one shown until the reply stays, with its socket.
Start(s) ==
    /\ Budget /\ ~studio.busy /\ ~server.begun
    /\ Send(s, "start", TRUE, 0)
    /\ server' = [server EXCEPT !.begun = TRUE]
    /\ studio' = Asking
    /\ UNCHANGED <<mode, jobs, worker, wire, breaks>>

\* Another client names the session in its command.
Recommand(s) ==
    /\ Budget
    /\ Send(s, "start", FALSE, 0)
    /\ server' = [server EXCEPT !.begun = TRUE]
    /\ UNCHANGED <<mode, jobs, worker, wire, studio, breaks>>

\* start, of another thread, and openThread, of another thread, which is not
\* refused while a request is out.
Visit(s) ==
    /\ breaks < MaxBreaks[mode]
    /\ Send(s, "visit", TRUE, 0)
    /\ breaks' = breaks + 1
    /\ studio' = Asking
    /\ UNCHANGED <<mode, server, jobs, worker, wire>>

\* openThread, of this thread.
OpenThread(s) ==
    /\ server.turns > 0 \/ jobs > 0 \/ worker.pc # "idle"
    /\ breaks < MaxBreaks[mode]
    /\ Send(s, "open", TRUE, 0)
    /\ breaks' = breaks + 1
    /\ studio' = Asking
    /\ UNCHANGED <<mode, server, jobs, worker, wire>>

\* answer and resolveApproval: the pending interaction stays on the screen.
Answer(s) ==
    /\ Budget /\ studio.pending \notin {0, Foreign} /\ ~studio.busy
    /\ Send(s, "resolve", TRUE, studio.pending)
    /\ studio' = [studio EXCEPT !.busy = TRUE]
    /\ UNCHANGED <<mode, server, jobs, worker, wire, breaks>>

\* ... and of another thread, which may also be continued.
AnswerAfar(s) ==
    /\ studio.pending = Foreign /\ ~studio.busy /\ breaks < MaxBreaks[mode]
    /\ Send(s, "aside", TRUE, 0)
    /\ breaks' = breaks + 1
    /\ studio' = [studio EXCEPT !.busy = TRUE]
    /\ UNCHANGED <<mode, server, jobs, worker, wire>>

\* Another client answers what the thread waits at.
AnswerElsewhere(s) ==
    /\ Budget /\ server.current # 0
    /\ Send(s, "resolve", FALSE, server.current)
    /\ UNCHANGED <<mode, server, jobs, worker, wire, studio, breaks>>

\* continueThread: a prompt that is no command, when nothing is shown to answer.
\* It runs no turn of the graph.
Continue(s) ==
    /\ studio.view = "here" /\ studio.pending = 0 /\ ~studio.busy
    /\ breaks < MaxBreaks[mode]
    /\ Send(s, "continue", TRUE, 0)
    /\ breaks' = breaks + 1
    /\ studio' = [studio EXCEPT !.busy = TRUE]
    /\ UNCHANGED <<mode, server, jobs, worker, wire>>

\* connect's cleanup: it closes the socket, but a timer that will open the next
\* one runs on.
Leave(k) ==
    IF k.pc = "lost" THEN [k EXCEPT !.left = TRUE] ELSE IF k.left THEN k ELSE Off

\* A ghost: what can still bring this thread's interaction to a page that has
\* left it.
Lingers ==
    \/ \E s \in InFlight : request[s].mine /\ request[s].kind = "resolve"
    \/ \E c \in Conns : conn[c].pc = "lost" \/ conn[c].left

\* Mutant: the pending interaction is kept.
NewThread_KeepsPending ==
    /\ studio' = [Blank EXCEPT !.pending = studio.pending, !.left = Lingers]
    /\ conn' = [c \in Conns |-> Leave(conn[c])]
    /\ UNCHANGED <<mode, server, request, jobs, worker, frames, published, tokens, breaks>>

\* newThread, setProject and reset; requests in flight are not called off.
NewThread ==
    /\ studio' = [Blank EXCEPT !.left = Lingers]
    /\ conn' = [c \in Conns |-> Leave(conn[c])]
    /\ UNCHANGED <<mode, server, request, jobs, worker, frames, published, tokens, breaks>>

\* The page's route is left and entered again: the thread shown stays, a new
\* socket will be opened.
Remount ==
    /\ studio.view = "here" /\ breaks < MaxBreaks[mode]
    /\ breaks' = breaks + 1
    /\ conn' = [c \in Conns |-> Leave(conn[c])]
    /\ UNCHANGED <<mode, server, request, jobs, worker, frames, published, tokens, studio>>

\* The page is loaded again: sockets, timers and requests are gone, the id of
\* the thread shown is kept and that thread opened.
Reload(s) ==
    /\ request[s].pc = "free" /\ breaks < MaxBreaks[mode]
    /\ breaks' = breaks + 1
    /\ request' = [r \in Slots |->
           IF r = s /\ studio.view # "none"
           THEN [Free EXCEPT !.pc = "sent", !.mine = TRUE,
                             !.kind = IF studio.view = "here" THEN "open" ELSE "visit"]
           ELSE [request[r] EXCEPT !.mine = FALSE]]
    /\ studio' = [Blank EXCEPT !.view = studio.view, !.busy = studio.view # "none",
                               !.excuse = IF studio.view = "none" THEN "none" ELSE "cleared"]
    /\ conn' = [c \in Conns |-> Off]
    /\ UNCHANGED <<mode, server, jobs, worker, frames, published, tokens>>

-----------------------------------------------------------------------------
(* The API.                                                                *)

ReplyWith(s, status, turn, gate) ==
    request' = [request EXCEPT ![s].pc = status, ![s].turn = turn, ![s].gate = gate]

\* A socket that closes is opened again later, unless the page has left it.
Shut(k) ==
    IF k.pc \in {"off", "lost"} THEN k
    ELSE IF k.left THEN Off ELSE [Off EXCEPT !.pc = "lost"]

\* A command runs its turn here, or is enqueued and answered with no pending.
Dispatch(s) ==
    IF mode = "arq"
    THEN /\ jobs' = jobs + 1
         /\ ReplyWith(s, "blind", server.turns, 0)
    ELSE /\ request' = [request EXCEPT ![s].pc = "turn"]
         /\ UNCHANGED jobs

AcceptStart(s) ==
    /\ request[s].pc = "sent" /\ request[s].kind = "start" /\ mode = "arq"
    /\ Dispatch(s)
    /\ UNCHANGED <<mode, server, worker, wire, studio, breaks>>

\* resolve: 404 for a record the process does not have, 409 for a closed one.
AcceptResolve(s) ==
    /\ request[s].pc = "sent" /\ request[s].kind = "resolve"
    /\ LET g == request[s].gate IN
       IF g \notin server.known THEN
            /\ request' = [request EXCEPT ![s].pc = "unknown"]
            /\ UNCHANGED <<server, jobs>>
       ELSE IF g \notin server.open THEN
            /\ request' = [request EXCEPT ![s].pc = "error"]
            /\ UNCHANGED <<server, jobs>>
       ELSE /\ server' = [server EXCEPT !.open = @ \ {g}]
            /\ Dispatch(s)
    /\ UNCHANGED <<mode, worker, wire, studio, breaks>>

\* open_thread: the first open record of the thread, which is not what the
\* thread waits at when a command left an older one or the worker has it.
AcceptOpen(s) ==
    /\ request[s].pc = "sent" /\ request[s].kind = "open"
    /\ LET first == IF server.open = {} THEN 0 ELSE Min(server.open)
       IN ReplyWith(s, IF first = server.current THEN "reply" ELSE "blind", server.turns, first)
    /\ UNCHANGED <<mode, server, jobs, worker, wire, studio, breaks>>

\* Mutant: the record of a new gate is not stored.
AfterTurn_Unrecorded(gate, api) == [server EXCEPT !.turns = @ + 1, !.current = gate, !.gone = FALSE]

\* _sync_pending's record: a gate is added to the store of the process that
\* ran the turn, the end of the run closes those of the thread.  The store of
\* the worker is read by nobody.
AfterTurn(gate, api) ==
    [server EXCEPT !.turns = @ + 1, !.current = gate, !.gone = FALSE,
                   !.open  = IF ~api THEN @ ELSE IF gate = 0 THEN {} ELSE @ \cup {gate},
                   !.known = IF ~api \/ gate = 0 THEN @ ELSE @ \cup {gate}]

Outcomes == {0, server.turns + 1}

RunTurn(s) ==
    /\ request[s].pc = "turn" \/ (request[s].pc = "sent" /\ request[s].kind = "start" /\ mode # "arq")
    /\ \E gate \in Outcomes :
           /\ server' = AfterTurn(gate, TRUE)
           /\ ReplyWith(s, "publish", server.turns + 1, gate)
    /\ UNCHANGED <<mode, jobs, worker, wire, studio, breaks>>

\* The API restarts: handlers and sockets are cut off, the gate store is empty
\* again, and so is a bus in memory; a checkpointer in memory has lost the thread.
Restart ==
    /\ breaks < MaxBreaks[mode]
    /\ breaks' = breaks + 1
    /\ \E gone \in IF mode = "arq" THEN {server.gone} ELSE {server.gone, TRUE} :
           server' = [server EXCEPT !.open = {}, !.known = {},
                                    !.since = server.turns, !.gone = gone,
                                    !.current = IF gone THEN 0 ELSE @]
    /\ request' = [s \in Slots |->
           IF request[s].pc \in {"sent", "turn", "publish"}
           THEN [request[s] EXCEPT !.pc = "error"] ELSE request[s]]
    /\ frames' = IF mode = "memory" THEN <<>> ELSE frames
    /\ conn' = [c \in Conns |-> Shut(conn[c])]
    /\ UNCHANGED <<mode, jobs, worker, published, tokens, studio>>

-----------------------------------------------------------------------------
(* The bus.                                                                *)

\* What the list keeps of the channel.
Kept(f) == LET all == Append(frames, f) IN
           IF mode = "memory" \/ Len(all) <= Cap THEN all ELSE Tail(all)

\* A socket hears a frame, or is between replay and subscription and does not.
Hears(k, f) ==
    IF k.pc = "live" THEN [k EXCEPT !.buffer = Append(@, f)]
    ELSE [k EXCEPT !.gap = @ \/ (k.pc = "replayed" /\ f.turn # 0)]

PublishFrame(turn, gate) ==
    LET f == [n |-> published + 1, turn |-> turn, gate |-> gate] IN
    /\ published' = published + 1
    /\ frames' = Kept(f)
    /\ conn' = [c \in Conns |-> Hears(conn[c], f)]

\* Redis refuses: the frame is gone and nobody is told.
PublishNothing == mode # "memory" /\ UNCHANGED <<frames, published, conn>>

Publish(s) ==
    /\ request[s].pc = "publish"
    /\ PublishFrame(request[s].turn, request[s].gate) \/ PublishNothing
    /\ request' = [request EXCEPT ![s] =
           IF request[s].mine THEN [request[s] EXCEPT !.pc = "reply"] ELSE Free]
    /\ UNCHANGED <<mode, server, jobs, worker, tokens, studio, breaks>>

\* Token and night-shift frames share the channel.
Token ==
    /\ AtWork # {} \/ worker.pc = "turn"
    /\ tokens < MaxTokens[mode]
    /\ tokens' = tokens + 1
    /\ PublishFrame(0, 0)
    /\ UNCHANGED <<mode, server, request, jobs, worker, studio, breaks>>

-----------------------------------------------------------------------------
(* The worker.                                                             *)

WorkerTakes ==
    /\ jobs > 0 /\ worker.pc = "idle"
    /\ jobs' = jobs - 1
    /\ worker' = [Idle EXCEPT !.pc = "turn"]
    /\ UNCHANGED <<mode, server, request, wire, studio, breaks>>

WorkerRuns ==
    /\ worker.pc = "turn"
    /\ \E gate \in Outcomes :
           /\ server' = AfterTurn(gate, FALSE)
           /\ worker' = [pc |-> "publish", turn |-> server.turns + 1, gate |-> gate]
    /\ UNCHANGED <<mode, request, jobs, wire, studio, breaks>>

\* A turn that raises ends the job; one cut off by a crash is run again.
WorkerFails ==
    /\ worker.pc = "turn"
    /\ worker' = Idle
    /\ jobs' \in {jobs, jobs + 1}
    /\ UNCHANGED <<mode, server, request, wire, studio, breaks>>

WorkerPublishes ==
    /\ worker.pc = "publish"
    /\ PublishFrame(worker.turn, worker.gate) \/ PublishNothing
    /\ worker' = Idle
    /\ UNCHANGED <<mode, server, request, jobs, tokens, studio, breaks>>

-----------------------------------------------------------------------------
(* The WebSockets.                                                         *)

\* The page shows the thread and holds no socket for it yet, or the timer of one
\* that was lost goes off, whether or not the page has left the thread.
Opens(c) ==
    \/ conn[c].pc = "lost"
    \/ /\ studio.view = "here"
       /\ \A k \in Conns : conn[k].pc = "off" \/ conn[k].left
       /\ conn[c].pc = "off" /\ c = CHOOSE k \in Conns : conn[k].pc = "off"

\* Mutant: a connection that is lost is not opened again.
Connect_Once(c) ==
    /\ Opens(c) /\ conn[c].pc = "off" /\ breaks = 0
    /\ conn' = [conn EXCEPT ![c] =
           [conn[c] EXCEPT !.pc = IF mode = "memory" THEN "live" ELSE "replayed",
                           !.buffer = frames]]
    /\ UNCHANGED <<mode, server, request, jobs, worker, frames, published, tokens, studio, breaks>>

\* In memory a cursor walks the history; Redis replays it first.
Connect(c) ==
    /\ Opens(c)
    /\ conn' = [conn EXCEPT ![c] =
           [conn[c] EXCEPT !.pc = IF mode = "memory" THEN "live" ELSE "replayed",
                           !.buffer = frames]]
    /\ UNCHANGED <<mode, server, request, jobs, worker, frames, published, tokens, studio, breaks>>

\* Mutant: the history is read once more after subscribing.
Subscribe_Replays(c) ==
    /\ conn[c].pc = "replayed"
    /\ conn' = [conn EXCEPT ![c] = [conn[c] EXCEPT !.pc = "live", !.buffer = @ \o frames]]
    /\ UNCHANGED <<mode, server, request, jobs, worker, frames, published, tokens, studio, breaks>>

Subscribe(c) ==
    /\ conn[c].pc = "replayed"
    /\ conn' = [conn EXCEPT ![c] = [conn[c] EXCEPT !.pc = "live"]]
    /\ UNCHANGED <<mode, server, request, jobs, worker, frames, published, tokens, studio, breaks>>

\* Mutant: the client does not come back.
Drop_ForGood(c) ==
    /\ conn[c].pc \in {"replayed", "live"} /\ breaks < MaxBreaks[mode]
    /\ conn' = [conn EXCEPT ![c] = [Off EXCEPT !.pc = "given up"]]
    /\ breaks' = breaks + 1
    /\ UNCHANGED <<mode, server, request, jobs, worker, frames, published, tokens, studio>>

Drop(c) ==
    /\ conn[c].pc \in {"replayed", "live"} /\ breaks < MaxBreaks[mode]
    /\ conn' = [conn EXCEPT ![c] = Shut(conn[c])]
    /\ breaks' = breaks + 1
    /\ UNCHANGED <<mode, server, request, jobs, worker, frames, published, tokens, studio>>

\* The history expires a day after the last frame.
Expire ==
    /\ mode # "memory" /\ frames # <<>> /\ InFlight = {} /\ jobs = 0 /\ worker.pc = "idle"
    /\ frames' = <<>>
    /\ UNCHANGED <<mode, server, request, jobs, worker, published, tokens, conn, studio, breaks>>

-----------------------------------------------------------------------------
(* What the store of the Studio does with a frame and with a reply.        *)

\* The newest outcome needs no excuse, one older than what was there has crossed it.
Excused(turn) ==
    IF turn = server.turns THEN "none"
    ELSE IF turn < studio.at THEN "crossed" ELSE Because("none")

\* Mutant: the end of a run does not clear the pending interaction.
SetPending_Keeps(f) ==
    [studio EXCEPT !.pending = IF f.gate = 0 THEN @ ELSE f.gate, !.at = f.turn,
                   !.excuse = Excused(f.turn), !.busy = @ /\ f.gate = 0]

\* setPending, whatever thread is shown.
SetPending(f) ==
    [studio EXCEPT !.pending = f.gate, !.at = f.turn, !.excuse = Excused(f.turn),
                   !.busy = @ /\ f.gate = 0]

Deliver(c) ==
    /\ conn[c].buffer # <<>>
    /\ LET f == Head(conn[c].buffer) IN
       /\ conn' = [conn EXCEPT ![c] =
              [conn[c] EXCEPT !.buffer = Tail(@), !.seen = f.n,
                              !.gap = @ /\ f.turn # server.turns]]
       /\ studio' = IF f.turn = 0 THEN studio ELSE SetPending(f)
    /\ UNCHANGED <<mode, server, request, jobs, worker, frames, published, tokens, breaks>>

\* What another thread waits at is shown, in this thread's view or not.
Intrude(busy) ==
    [studio EXCEPT !.pending = Foreign, !.busy = busy,
                   !.excuse = IF studio.view = "here" THEN Because("foreign") ELSE @]

\* A frame of another thread: of the one shown, or of one that was left while
\* its socket was down.
DeliverAfar ==
    /\ \/ studio.view = "away" /\ UNCHANGED breaks
       \/ studio.view # "away" /\ breaks < MaxBreaks[mode] /\ breaks' = breaks + 1
    /\ \E busy \in {studio.busy, FALSE} : studio' = Intrude(busy)
    /\ UNCHANGED <<mode, server, request, jobs, worker, wire>>

\* What a failed request had cleared is not shown again.
Failed == [studio EXCEPT !.busy = FALSE, !.excuse = IF @ = "cleared" THEN "failed" ELSE @]

\* The reply replaces what is shown, whichever thread that is by now; the
\* replies of start and openThread bring their thread along.
Reply(s) ==
    /\ request[s].pc \in {"reply", "blind"}
    /\ studio' =
           IF ~request[s].mine THEN studio
           ELSE [studio EXCEPT
                    !.pending = request[s].gate, !.at = request[s].turn, !.busy = FALSE,
                    !.excuse = IF request[s].pc = "blind" THEN "blind" ELSE Excused(request[s].turn),
                    !.view = IF request[s].kind = "resolve" THEN @ ELSE "here",
                    !.left = @ /\ request[s].kind = "resolve"]
    /\ request' = [request EXCEPT ![s] = Free]
    /\ UNCHANGED <<mode, server, jobs, worker, wire, breaks>>

\* The request was refused or cut off, or fails now: on its way, or in a turn
\* that raises, which leaves the thread where it was, without a record.
RequestFails(s) ==
    /\ request[s].pc \in {"sent", "turn", "error", "unknown"}
    /\ studio' = IF request[s].mine THEN Failed ELSE studio
    /\ request' = [request EXCEPT ![s] = Free]
    /\ UNCHANGED <<mode, server, jobs, worker, wire, breaks>>

\* The replies of requests that are about another thread, or about no turn.
ReplyAside(s) ==
    /\ request[s].pc = "sent" /\ request[s].kind \in {"aside", "continue", "visit"}
    /\ request' = [request EXCEPT ![s] = Free]
    /\ \/ /\ ~request[s].mine
          /\ UNCHANGED <<studio, conn>>
       \/ /\ request[s].mine /\ request[s].kind = "continue"
          /\ studio' = [studio EXCEPT !.busy = FALSE]
          /\ UNCHANGED conn
       \/ /\ request[s].mine /\ request[s].kind = "aside"
          /\ studio' = Intrude(FALSE)
          /\ UNCHANGED conn
       \/ /\ request[s].mine /\ request[s].kind = "visit"
          /\ studio' = [studio EXCEPT !.view = "away", !.pending = Foreign, !.busy = FALSE,
                                      !.excuse = "none", !.left = Lingers]
          /\ conn' = [c \in Conns |-> Leave(conn[c])]
    /\ UNCHANGED <<mode, server, jobs, worker, frames, published, tokens, breaks>>

-----------------------------------------------------------------------------
Handle(s) ==
    \/ AcceptStart(s) \/ AcceptResolve(s) \/ AcceptOpen(s)
    \/ RunTurn(s) \/ RequestFails(s) \/ Publish(s) \/ Reply(s) \/ ReplyAside(s)
Work == WorkerTakes \/ WorkerRuns \/ WorkerPublishes

Next ==
    \/ \E s \in Slots :
        \/ Start(s) \/ Recommand(s) \/ Visit(s) \/ OpenThread(s) \/ Answer(s) \/ AnswerAfar(s)
        \/ AnswerElsewhere(s) \/ Continue(s) \/ Reload(s)
        \/ Handle(s)
    \/ NewThread \/ Remount \/ Restart
    \/ Work \/ WorkerFails
    \/ Token \/ Expire
    \/ \E c \in Conns : Connect(c) \/ Subscribe(c) \/ Drop(c) \/ Deliver(c)
    \/ DeliverAfar

\* Handlers and the worker run, replies and frames arrive, and the client
\* reconnects; nothing makes a user act.
Spec ==
    /\ Init /\ [][Next]_vars
    /\ \A s \in Slots : WF_vars(Handle(s))
    /\ WF_vars(Work)
    /\ \A c \in Conns : WF_vars(Connect(c)) /\ WF_vars(Subscribe(c)) /\ WF_vars(Deliver(c))

-----------------------------------------------------------------------------
TypeOK ==
    /\ mode \in Modes
    /\ server \in [begun : BOOLEAN, turns : Turns, current : Gates, open : SUBSET Gates,
                   known : SUBSET Gates, since : Turns, gone : BOOLEAN]
    /\ request \in [Slots -> [pc : {"free", "sent", "turn", "publish", "reply", "blind",
                                    "error", "unknown"},
                              kind : {"start", "resolve", "open", "visit", "aside", "continue"},
                              mine : BOOLEAN, gate : Gates, turn : Turns]]
    /\ jobs \in Nat
    /\ worker \in [pc : {"idle", "turn", "publish"}, turn : Turns, gate : Gates]
    /\ frames \in Seq(Frames) /\ (mode # "memory" => Len(frames) <= Cap)
    /\ published \in Nat /\ tokens \in 0 .. MaxTokens[mode]
    /\ \A c \in Conns :
          /\ conn[c].pc \in {"off", "lost", "replayed", "live"} /\ conn[c].left \in BOOLEAN
          /\ conn[c].buffer \in Seq(Frames) /\ conn[c].seen \in Nat /\ conn[c].gap \in BOOLEAN
    /\ studio \in [view : {"none", "here", "away"}, pending : Gates \cup {Foreign},
                   busy : BOOLEAN, at : Turns,
                   excuse : {"none", "cleared", "failed", "crossed", "blind", "foreign"},
                   left : BOOLEAN]
    /\ breaks \in 0 .. MaxBreaks[mode]

\* A socket hands on every frame at most once and in the order of publication,
\* whatever it replays first.
FramesInOrder == \A c \in Conns :
    LET buffer == conn[c].buffer IN
    /\ \A j, k \in DOMAIN buffer : j < k => buffer[j].n < buffer[k].n
    /\ \A k \in DOMAIN buffer : conn[c].seen < buffer[k].n

AtRest ==
    /\ InFlight = {} /\ jobs = 0 /\ worker.pc = "idle"
    /\ studio.view = "here"
    /\ \E c \in Conns : conn[c].pc = "live" /\ ~conn[c].left /\ ~conn[c].gap
    /\ \A c \in Conns : conn[c].buffer = <<>>

\* When everything has arrived, over a socket that missed no outcome between
\* replay and subscription, the Studio shows what the thread waits at, unless the
\* channel has lost the newest outcome, the checkpoint is gone, a request that
\* cleared the view failed, a reply came last that was older or blind, or another
\* thread's interaction intruded.
InSync ==
    AtRest => \/ studio.pending = server.current
              \/ studio.excuse \in {"failed", "crossed", "blind", "foreign"}
              \/ server.gone
              \/ /\ studio.at # server.turns
                 /\ \A k \in DOMAIN frames : frames[k].turn # server.turns

\* A page that shows a fresh chat or another thread shows nothing of this one,
\* unless an answer was in flight or a reconnection due when it was left.
ViewOwnsPending == studio.view # "here" => studio.pending \in {0, Foreign} \/ studio.left

\* The Studio shows what its own thread waits at, whatever frames and replies cross.
ViewIsRight == TypeOK /\ FramesInOrder /\ InSync /\ ViewOwnsPending

\* An answer to what a client was shown finds its record, except with Arq, where
\* the record is in the worker, and after a restart, which empties the store.
AnswersFindTheirGate ==
    \A s \in Slots : request[s].pc = "unknown" => mode = "arq" \/ request[s].gate <= server.since

\* Where frames are lost only in a restart the Studio ends up showing the newest
\* outcome since, as long as no older or blind reply came last.
CatchesUp ==
    <>[](/\ studio.view = "here" /\ mode = "memory" /\ server.since < server.turns
         /\ studio.excuse \notin {"crossed", "blind"}
         => studio.at = server.turns)
=============================================================================

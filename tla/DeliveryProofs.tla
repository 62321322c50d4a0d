--------------------------- MODULE DeliveryProofs ---------------------------
(***************************************************************************)
(* What a Studio shows, for any number of requests in flight, sockets and  *)
(* bounds: frames reach it in order, a page that left the thread shows     *)
(* nothing of it unless something was under way, when everything has       *)
(* arrived it shows what the thread waits at, or a reason is known, and an *)
(* answer finds its record unless a restart or the worker took it.         *)
(***************************************************************************)
EXTENDS Delivery, TLAPS, FiniteSetTheorems, SequenceTheorems, WellFoundedInduction

-----------------------------------------------------------------------------
(* The inductive invariant.                                                *)

RequestType == [pc : {"free", "sent", "turn", "publish", "reply", "blind", "error", "unknown"},
                kind : {"start", "resolve", "open", "visit", "aside", "continue"},
                mine : BOOLEAN, gate : Gates, turn : Turns]
WorkerType  == [pc : {"idle", "turn", "publish"}, turn : Turns, gate : Gates]
ServerType  == [begun : BOOLEAN, turns : Turns, current : Gates, open : SUBSET Gates,
                known : SUBSET Gates, since : Turns, gone : BOOLEAN]
ConnType    == [pc : {"off", "lost", "replayed", "live"}, left : BOOLEAN, buffer : Seq(Frames),
                seen : Nat, gap : BOOLEAN]
StudioType  == [view : {"none", "here", "away"}, pending : Gates \cup {Foreign}, busy : BOOLEAN,
                at : Turns,
                excuse : {"none", "cleared", "failed", "crossed", "blind", "foreign"},
                left : BOOLEAN]

WireType ==
    /\ frames \in Seq(Frames) /\ (mode # "memory" => Len(frames) <= Cap)
    /\ published \in Nat /\ tokens \in 0 .. MaxTokens[mode]
    /\ conn \in [Conns -> ConnType]

TypeInv ==
    /\ mode \in Modes /\ server \in ServerType
    /\ request \in [Slots -> RequestType]
    /\ jobs \in Nat /\ worker \in WorkerType
    /\ WireType
    /\ studio \in StudioType /\ breaks \in 0 .. MaxBreaks[mode]

\* What is told of an outcome: of the newest one, the gate the thread waits at
\* as long as its checkpoint is there, and a gate the API has a record of, but
\* with Arq and for what was told before its last restart.
Told(sv, turn, gate) == turn <= sv.turns /\ (turn = sv.turns /\ ~sv.gone => gate = sv.current)
Known(m, sv, gate)   == m = "arq" \/ gate <= sv.since \/ gate \in sv.known
Honest(m, sv, f)     == Told(sv, f.turn, f.gate) /\ Known(m, sv, f.gate)

ServerFits ==
    /\ server.since <= server.turns
    /\ server.open \subseteq server.known
    /\ \A gate \in server.known : gate <= server.turns
    /\ server.turns = 0 => server.current = 0
    /\ Known(mode, server, server.current)

RequestFits(m, sv, r) ==
    /\ Known(m, sv, r.gate)
    /\ r.pc \in {"publish", "reply"} => Told(sv, r.turn, r.gate)
    /\ r.pc = "publish" => r.turn # 0
    /\ r.pc = "blind" => r.turn <= sv.turns
    /\ r.pc = "unknown" => m = "arq" \/ r.gate <= sv.since

RequestsFit == \A s \in Slots : RequestFits(mode, server, request[s])

WorkerFits ==
    /\ mode # "arq" => jobs = 0 /\ worker.pc = "idle"
    /\ worker.pc = "publish" => Told(server, worker.turn, worker.gate) /\ worker.turn # 0

\* Frames are in the order of publication, after one number and up to another.
Ordered(q, above, upto) ==
    /\ \A j, k \in 1 .. Len(q) : j < k => q[j].n < q[k].n
    /\ \A k \in 1 .. Len(q) : above < q[k].n /\ q[k].n <= upto

AllHonest(m, sv, q) == \A k \in 1 .. Len(q) : Honest(m, sv, q[k])

ConnFits(m, sv, upto, k) ==
    /\ AllHonest(m, sv, k.buffer)
    /\ Ordered(k.buffer, k.seen, upto) /\ k.seen <= upto
    /\ k.pc \in {"off", "lost"} => k.buffer = <<>> /\ k.seen = 0

WireFits ==
    /\ AllHonest(mode, server, frames) /\ Ordered(frames, 0, published)
    /\ \A c \in Conns : ConnFits(mode, server, published, conn[c])

\* The requests of the Studio that are in flight, and those whose reply will
\* bring a thread along.
Mine    == {s \in Slots : request[s].pc # "free" /\ request[s].mine}
Answers == \E s \in Mine : request[s].kind = "resolve"
Expects == \E s \in Mine : request[s].kind \in {"start", "open", "visit"}

ViewFits ==
    /\ studio.at <= server.turns
    /\ Known(mode, server, studio.pending)
    /\ studio.excuse = "cleared" => Expects

\* A page that has left the thread has sockets for it only from before, and none
\* if nothing was due to bring its interaction back.
LeftFits ==
    studio.view # "here" =>
        /\ \A c \in Conns : conn[c].pc = "off" \/ conn[c].left
        /\ ~studio.left => /\ ~Answers
                           /\ \A c \in Conns : conn[c].pc = "off"
                           /\ studio.pending \in {0, Foreign}

\* What is shown of the newest outcome is right, unless there is a reason.
PendingFits ==
    /\ studio.view = "here" /\ studio.excuse = "none"
    /\ studio.at = server.turns /\ ~server.gone
    => studio.pending = server.current

\* The newest outcome is on its way to a socket that has not missed it.
Has(q, turn) == \E k \in 1 .. Len(q) : q[k].turn = turn
Owed ==
    /\ studio.view = "here" /\ studio.excuse \notin {"crossed", "blind"}
    /\ studio.at # server.turns /\ Has(frames, server.turns)
Hearing(k) == k.pc \in {"replayed", "live"} /\ ~k.left /\ ~k.gap
Arrives == Owed => \A c \in Conns : Hearing(conn[c]) => Has(conn[c].buffer, server.turns)

Fits ==
    /\ ServerFits /\ RequestsFit /\ WorkerFits /\ WireFits
    /\ ViewFits /\ LeftFits /\ PendingFits /\ Arrives
IInv == TypeInv /\ Fits

-----------------------------------------------------------------------------
(* Numbers and sequences.                                                  *)

LEMMA Bounds ==
    /\ Modes \subseteq {"memory", "redis", "arq"}
    /\ Cap \in Nat /\ Cap >= 1 /\ MaxTurns \in Nat /\ MaxTurns >= 1
    /\ \A m \in Modes : MaxTokens[m] \in Nat /\ MaxBreaks[m] \in Nat
<1>1. MaxTokens \in [Modes -> Nat] /\ MaxBreaks \in [Modes -> Nat] BY DeliveryAssumption
<1>2. /\ Modes \subseteq {"memory", "redis", "arq"}
      /\ Cap \in Nat \ {0} /\ MaxTurns \in Nat \ {0}
  BY DeliveryAssumption
<1> QED BY <1>1, <1>2

LEMMA Zeros ==
    /\ 0 \in Turns /\ 0 \in Gates
    /\ \A n : n \in Turns <=> n \in Nat
    /\ \A n : n \in Gates <=> n \in Nat
    /\ Foreign = -1
  BY DEF Turns, Gates, Foreign

LEMMA LeastGate ==
  ASSUME NEW S \in SUBSET Gates, S # {}
  PROVE  Min(S) \in S
<1>1. S \subseteq Nat BY Zeros
<1>2. PICK x \in S : \A y \in S : ~(<<y, x>> \in OpToRel(<, Nat))
  BY <1>1, NatLessThanWellFounded, WFMin
<1>3. OpToRel(<, Nat) = {ss \in Nat \X Nat : ss[1] < ss[2]} BY DEF OpToRel
<1>4. \A y \in S : ~(y < x) BY <1>1, <1>2, <1>3
<1>5. \A y \in S : x <= y BY <1>1, <1>4
<1> QED BY <1>5 DEF Min

LEMMA FrameIs ==
  ASSUME NEW q \in Seq(Frames)
  PROVE  /\ Len(q) \in Nat /\ DOMAIN q = 1 .. Len(q)
         /\ \A k \in 1 .. Len(q) : /\ q[k] \in Frames
                                   /\ q[k].n \in Nat /\ q[k].turn \in Nat /\ q[k].gate \in Nat
<1>1. Len(q) \in Nat /\ DOMAIN q = 1 .. Len(q) BY LenProperties
<1>2. \A k \in 1 .. Len(q) : q[k] \in Frames BY ElementOfSeq
<1>3. \A f \in Frames : f.n \in Nat /\ f.turn \in Nat /\ f.gate \in Nat
  BY Zeros, Bounds DEF Frames
<1> QED BY <1>1, <1>2, <1>3

LEMMA Appended ==
  ASSUME NEW q \in Seq(Frames), NEW f \in Frames
  PROVE  /\ Append(q, f) \in Seq(Frames) /\ Append(q, f) # <<>>
         /\ Len(Append(q, f)) = Len(q) + 1
         /\ \A k \in 1 .. Len(Append(q, f)) :
               Append(q, f)[k] = IF k <= Len(q) THEN q[k] ELSE f
<1>1. Len(q) \in Nat BY FrameIs
<1>2. /\ Append(q, f) \in Seq(Frames) /\ Append(q, f) # <<>>
      /\ Len(Append(q, f)) = Len(q) + 1
      /\ \A i \in 1 .. Len(q) : Append(q, f)[i] = q[i]
      /\ Append(q, f)[Len(q) + 1] = f
  BY AppendProperties
<1>3. \A k \in 1 .. (Len(q) + 1) : IF k <= Len(q) THEN k \in 1 .. Len(q) ELSE k = Len(q) + 1
  BY <1>1
<1> QED BY <1>2, <1>3

LEMMA Tailed ==
  ASSUME NEW q \in Seq(Frames), q # <<>>
  PROVE  /\ Tail(q) \in Seq(Frames) /\ Len(Tail(q)) = Len(q) - 1 /\ Len(q) >= 1
         /\ Head(q) = q[1] /\ Head(q) \in Frames
         /\ \A k \in 1 .. Len(Tail(q)) : Tail(q)[k] = q[k + 1] /\ k + 1 \in 1 .. Len(q)
<1>1. Len(q) \in Nat /\ Len(q) # 0 BY FrameIs, EmptySeq
<1>2. /\ Head(q) \in Frames /\ Tail(q) \in Seq(Frames) /\ Len(Tail(q)) = Len(q) - 1
      /\ \A i \in 1 .. Len(Tail(q)) : Tail(q)[i] = q[i + 1]
  BY HeadTailProperties, Zenon
<1>3. Head(q) = q[1] OBVIOUS
<1> QED BY <1>1, <1>2, <1>3

LEMMA OrderedAppend ==
  ASSUME NEW q \in Seq(Frames), NEW f \in Frames, NEW a \in Nat, NEW p \in Nat,
         Ordered(q, a, p), a <= p, f.n = p + 1
  PROVE  Ordered(Append(q, f), a, p + 1)
<1> DEFINE r == Append(q, f)
<1>1. /\ Len(r) = Len(q) + 1 /\ Len(q) \in Nat
      /\ \A k \in 1 .. Len(r) : r[k] = IF k <= Len(q) THEN q[k] ELSE f
  BY Appended, FrameIs
<1>2. \A k \in 1 .. Len(q) : q[k].n \in Nat BY FrameIs
<1> HIDE DEF r
<1>3. \A k \in 1 .. Len(r) : a < r[k].n /\ r[k].n <= p + 1
  BY <1>1, <1>2 DEF Ordered
<1>4. ASSUME NEW j \in 1 .. Len(r), NEW k \in 1 .. Len(r), j < k PROVE r[j].n < r[k].n
  <2>1. j \in 1 .. Len(q) /\ r[j] = q[j] /\ q[j].n <= p /\ q[j].n \in Nat
    BY <1>1, <1>2, <1>4 DEF Ordered
  <2>2. CASE k <= Len(q)
    <3>1. r[k] = q[k] /\ k \in 1 .. Len(q) BY <1>1, <2>2
    <3> QED BY <1>4, <2>1, <3>1 DEF Ordered
  <2>3. CASE ~(k <= Len(q)) BY <1>1, <2>1, <2>3
  <2> QED BY <2>2, <2>3
<1> QED BY <1>3, <1>4 DEF Ordered, r

LEMMA OrderedTail ==
  ASSUME NEW q \in Seq(Frames), q # <<>>, NEW a \in Nat, NEW p \in Nat, Ordered(q, a, p)
  PROVE  Ordered(Tail(q), a, p) /\ Ordered(Tail(q), Head(q).n, p) /\ Head(q).n <= p
<1> DEFINE r == Tail(q)
<1>1. /\ \A k \in 1 .. Len(r) : r[k] = q[k + 1] /\ k + 1 \in 1 .. Len(q)
      /\ Head(q) = q[1] /\ 1 \in 1 .. Len(q) /\ Len(r) \in Nat
  BY Tailed, FrameIs
<1>2. \A k \in 1 .. Len(q) : q[k].n \in Nat BY FrameIs
<1> HIDE DEF r
<1>3. \A k \in 1 .. Len(r) : a < r[k].n /\ r[k].n <= p /\ q[1].n < r[k].n
  BY <1>1, <1>2 DEF Ordered
<1>4. ASSUME NEW j \in 1 .. Len(r), NEW k \in 1 .. Len(r), j < k PROVE r[j].n < r[k].n
  <2>1. r[j] = q[j + 1] /\ r[k] = q[k + 1] /\ j + 1 \in 1 .. Len(q) /\ k + 1 \in 1 .. Len(q)
    BY <1>1
  <2>2. j + 1 < k + 1 BY <1>1, <1>4
  <2> QED BY <2>1, <2>2 DEF Ordered
<1>5. q[1].n <= p BY <1>1 DEF Ordered
<1> QED BY <1>1, <1>3, <1>4, <1>5 DEF Ordered, r

LEMMA OrderedUpto ==
  ASSUME NEW q \in Seq(Frames), NEW a \in Nat, NEW p \in Nat, Ordered(q, a, p)
  PROVE  Ordered(q, a, p + 1)
<1>1. \A k \in 1 .. Len(q) : q[k].n \in Nat BY FrameIs
<1> QED BY <1>1 DEF Ordered

-----------------------------------------------------------------------------
(* What a step of the server leaves true.                                  *)

\* The thread stays where it is, or takes one turn, or its checkpoint is lost;
\* what the clients were shown stays known.
Moves ==
    /\ mode' = mode
    /\ \A gate \in Int : Known(mode, server, gate) => Known(mode', server', gate)
    /\ server'.turns \in Nat /\ server'.since \in Nat /\ server.since <= server'.since
    /\ \/ /\ server'.turns = server.turns
          /\ ~server'.gone => ~server.gone /\ server'.current = server.current
       \/ server'.turns = server.turns + 1

Serves == Moves /\ mode' \in Modes /\ server' \in ServerType /\ ServerFits'

LEMMA ServerIs ==
  ASSUME TypeInv
  PROVE  /\ server.turns \in Nat /\ server.since \in Nat /\ server.current \in Nat
         /\ server.open \subseteq Nat /\ server.known \subseteq Nat
         /\ server.gone \in BOOLEAN /\ server.begun \in BOOLEAN
         /\ mode \in Modes /\ mode \in {"memory", "redis", "arq"}
<1>1. server \in ServerType /\ mode \in Modes BY DEF TypeInv
<1>2. mode \in {"memory", "redis", "arq"} BY <1>1, Bounds
<1> QED BY <1>1, <1>2 DEF ServerType, Turns, Gates

LEMMA RequestIs ==
  ASSUME TypeInv, NEW s \in Slots
  PROVE  /\ request[s] \in RequestType
         /\ request[s].turn \in Nat /\ request[s].gate \in Nat
         /\ request[s].mine \in BOOLEAN
         /\ request[s].pc \in {"free", "sent", "turn", "publish", "reply", "blind",
                               "error", "unknown"}
         /\ request[s].kind \in {"start", "resolve", "open", "visit", "aside", "continue"}
<1>1. request[s] \in RequestType BY DEF TypeInv
<1> QED BY <1>1, Zeros DEF RequestType

LEMMA StudioIs ==
  ASSUME TypeInv
  PROVE  /\ studio \in StudioType /\ studio.at \in Nat
         /\ studio.view \in {"none", "here", "away"}
         /\ studio.pending \in Nat \cup {Foreign} /\ studio.pending \in Int
         /\ studio.busy \in BOOLEAN /\ studio.left \in BOOLEAN
         /\ studio.excuse \in {"none", "cleared", "failed", "crossed", "blind", "foreign"}
<1>1. studio \in StudioType BY DEF TypeInv
<1> QED BY <1>1, Zeros DEF StudioType

LEMMA ConnFields ==
  ASSUME NEW k \in ConnType
  PROVE  /\ k.buffer \in Seq(Frames) /\ Len(k.buffer) \in Nat
         /\ k.seen \in Nat /\ k.gap \in BOOLEAN /\ k.left \in BOOLEAN
         /\ k.pc \in {"off", "lost", "replayed", "live"}
<1>1. /\ k.buffer \in Seq(Frames)
      /\ k.seen \in Nat /\ k.gap \in BOOLEAN /\ k.left \in BOOLEAN
      /\ k.pc \in {"off", "lost", "replayed", "live"}
  BY DEF ConnType
<1> QED BY <1>1, FrameIs

LEMMA WireIs ==
  ASSUME WireType, mode \in Modes
  PROVE  /\ frames \in Seq(Frames) /\ Len(frames) \in Nat
         /\ conn \in [Conns -> ConnType] /\ \A c \in Conns : conn[c] \in ConnType
         /\ published \in Nat /\ tokens \in Nat /\ MaxTokens[mode] \in Nat
<1>1. frames \in Seq(Frames) /\ published \in Nat /\ tokens \in Nat BY Bounds DEF WireType
<1>2. conn \in [Conns -> ConnType] BY DEF WireType
<1> QED BY <1>1, <1>2, FrameIs, Bounds

LEMMA ToldMoves ==
  ASSUME TypeInv, Moves, NEW turn \in Nat, NEW gate, Told(server, turn, gate)
  PROVE  Told(server', turn, gate)
  BY ServerIs DEF Moves, Told

LEMMA HonestMoves ==
  ASSUME TypeInv, Moves, NEW f \in Frames, Honest(mode, server, f)
  PROVE  Honest(mode', server', f)
<1>1. f.turn \in Nat /\ f.gate \in Int BY DEF Frames, Turns, Gates
<1>2. Told(server', f.turn, f.gate) BY <1>1, ToldMoves DEF Honest
<1>3. Known(mode', server', f.gate) BY <1>1 DEF Honest, Moves
<1> QED BY <1>2, <1>3 DEF Honest

LEMMA AllHonestMoves ==
  ASSUME TypeInv, Moves, NEW q \in Seq(Frames), AllHonest(mode, server, q)
  PROVE  AllHonest(mode', server', q)
  BY HonestMoves, FrameIs DEF AllHonest

LEMMA RequestMoves ==
  ASSUME TypeInv, Serves, NEW s \in Slots, RequestFits(mode, server, request[s])
  PROVE  RequestFits(mode', server', request[s])
<1>1. request[s].pc \in {"publish", "reply"} => Told(server', request[s].turn, request[s].gate)
  BY RequestIs, ToldMoves DEF RequestFits, Serves
<1>2. Known(mode', server', request[s].gate) BY RequestIs DEF RequestFits, Moves, Serves
<1>3. request[s].pc = "blind" => request[s].turn <= server'.turns
  BY RequestIs, ServerIs DEF RequestFits, Moves, Serves
<1>4. request[s].pc = "unknown" => mode' = "arq" \/ request[s].gate <= server'.since
  BY RequestIs, ServerIs DEF RequestFits, Serves, Moves
<1> QED BY <1>1, <1>2, <1>3, <1>4 DEF RequestFits


LEMMA RequestGoes ==
  ASSUME TypeInv, RequestsFit, Serves, NEW s \in Slots, NEW r \in RequestType,
         request' = [request EXCEPT ![s] = r], RequestFits(mode', server', r)
  PROVE  RequestsFit' /\ request' \in [Slots -> RequestType]
<1>1. request' \in [Slots -> RequestType]
      /\ \A q \in Slots : request'[q] = IF q = s THEN r ELSE request[q]
  BY DEF TypeInv
<1>2. \A q \in Slots : RequestFits(mode', server', request'[q])
  BY <1>1, RequestMoves DEF RequestsFit
<1> QED BY <1>1, <1>2 DEF RequestsFit

LEMMA RequestsStay ==
  ASSUME TypeInv, RequestsFit, Serves, UNCHANGED request
  PROVE  RequestsFit' /\ request' \in [Slots -> RequestType]
<1>1. \A q \in Slots : RequestFits(mode', server', request'[q])
  BY RequestMoves DEF RequestsFit
<1> QED BY <1>1 DEF RequestsFit, TypeInv

LEMMA WorkerStays ==
  ASSUME TypeInv, WorkerFits, Moves, UNCHANGED worker, jobs' \in Nat,
         jobs' = jobs \/ mode = "arq"
  PROVE  WorkerFits' /\ jobs' \in Nat /\ worker' \in WorkerType
<1>1. worker \in WorkerType /\ worker.turn \in Nat BY Zeros DEF TypeInv, WorkerType
<1>2. worker.pc = "publish" => Told(server', worker.turn, worker.gate)
  BY <1>1, ToldMoves DEF WorkerFits
<1> QED BY <1>1, <1>2 DEF WorkerFits, Moves

LEMMA ConnMoves ==
  ASSUME TypeInv, Moves, NEW k \in ConnType, ConnFits(mode, server, published, k)
  PROVE  ConnFits(mode', server', published, k)
<1>1. AllHonest(mode', server', k.buffer) BY ConnFields, AllHonestMoves DEF ConnFits
<1> QED BY <1>1 DEF ConnFits

\* A step of the sockets alone.
LEMMA ConnsGo ==
  ASSUME TypeInv, WireFits, Moves, UNCHANGED <<frames, published, tokens>>,
         conn' \in [Conns -> ConnType],
         \A c \in Conns : ConnFits(mode', server', published, conn'[c])
  PROVE  WireType' /\ WireFits'
<1>1. AllHonest(mode', server', frames)
  BY AllHonestMoves DEF WireFits, TypeInv, WireType
<1>2. mode' = mode BY DEF Moves
<1> QED BY <1>1, <1>2 DEF WireFits, TypeInv, WireType

LEMMA WireStays ==
  ASSUME TypeInv, WireFits, Moves, UNCHANGED wire
  PROVE  WireType' /\ WireFits'
<1>1. UNCHANGED <<frames, published, tokens>> /\ conn' = conn BY DEF wire
<1>2. conn \in [Conns -> ConnType] BY DEF TypeInv, WireType
<1>3. \A c \in Conns : ConnFits(mode', server', published, conn'[c])
  BY <1>1, <1>2, ConnMoves DEF WireFits
<1> QED BY <1>1, <1>2, <1>3, ConnsGo

LEMMA ServerStays ==
  ASSUME TypeInv, ServerFits, UNCHANGED <<mode, server>>
  PROVE  Serves
BY ServerIs DEF Serves, Moves, ServerFits, TypeInv

LEMMA ServerBegins ==
  ASSUME TypeInv, ServerFits, mode' = mode, server' = [server EXCEPT !.begun = TRUE]
  PROVE  Serves
<1>1. server \in ServerType BY DEF TypeInv
<1>2. server' \in ServerType BY <1>1 DEF ServerType
<1>3. /\ server'.turns = server.turns /\ server'.current = server.current
      /\ server'.open = server.open /\ server'.known = server.known
      /\ server'.since = server.since /\ server'.gone = server.gone
  BY <1>1 DEF ServerType
<1>4. \A m, gate : Known(m, server', gate) <=> Known(m, server, gate) BY <1>3 DEF Known
<1>5. ServerFits' BY <1>3, <1>4 DEF ServerFits
<1>6. \A gate \in Int : Known(mode, server, gate) => Known(mode', server', gate)
  BY <1>4
<1>7. Moves
  <2>1. server.turns \in Nat /\ server.since \in Nat BY ServerIs
  <2>2. /\ server'.turns \in Nat /\ server'.since \in Nat /\ server.since <= server'.since
    BY <1>3, <2>1
  <2> QED BY <1>3, <1>6, <2>2 DEF Moves
<1> QED BY <1>2, <1>5, <1>7, ServerIs DEF Serves

LEMMA ServerCloses ==
  ASSUME TypeInv, ServerFits, mode' = mode, NEW g, server' = [server EXCEPT !.open = @ \ {g}]
  PROVE  Serves
<1>1. server \in ServerType BY DEF TypeInv
<1>2. server' \in ServerType BY <1>1 DEF ServerType
<1>3. /\ server'.turns = server.turns /\ server'.current = server.current
      /\ server'.open \subseteq server.open /\ server'.known = server.known
      /\ server'.since = server.since /\ server'.gone = server.gone
  BY <1>1 DEF ServerType
<1>4. \A m, gate : Known(m, server', gate) <=> Known(m, server, gate) BY <1>3 DEF Known
<1>5. ServerFits' BY <1>3, <1>4 DEF ServerFits
<1>6. \A gate \in Int : Known(mode, server, gate) => Known(mode', server', gate)
  BY <1>4
<1>7. Moves BY <1>3, <1>6, ServerIs DEF Moves
<1> QED BY <1>2, <1>5, <1>7, ServerIs DEF Serves

\* A turn ends, at a gate of its own number or at none; its record is the API's,
\* or the worker's.
LEMMA ServerTurns ==
  ASSUME TypeInv, ServerFits, mode' = mode, NEW gate \in Outcomes, NEW api \in BOOLEAN,
         api \/ mode = "arq", server' = AfterTurn(gate, api)
  PROVE  /\ Serves /\ server'.turns = server.turns + 1
         /\ Told(server', server.turns + 1, gate) /\ Known(mode', server', gate)
         /\ gate \in Nat
<1>1. server \in ServerType BY DEF TypeInv
<1>2. gate \in Nat /\ gate <= server.turns + 1 /\ (gate = 0 \/ gate = server.turns + 1)
  BY ServerIs DEF Outcomes
<1>3. /\ server'.turns = server.turns + 1 /\ server'.current = gate /\ server'.gone = FALSE
      /\ server'.since = server.since /\ server'.begun = server.begun
      /\ server'.open = IF ~api THEN server.open
                        ELSE IF gate = 0 THEN {} ELSE server.open \cup {gate}
      /\ server'.known = IF ~api \/ gate = 0 THEN server.known ELSE server.known \cup {gate}
  BY <1>1 DEF AfterTurn, ServerType
<1>4. server' \in ServerType
  <2>1. server.turns + 1 \in Turns /\ gate \in Gates BY <1>2, Zeros, ServerIs
  <2>2. server'.open \in SUBSET Gates /\ server'.known \in SUBSET Gates
    BY <1>3, <2>1, ServerIs DEF Gates
  <2>3. server' = [server EXCEPT !.turns = server.turns + 1, !.current = gate, !.gone = FALSE,
                                 !.open = server'.open, !.known = server'.known]
    BY <1>1, <1>3 DEF AfterTurn, ServerType
  <2> QED BY <1>1, <2>1, <2>2, <2>3 DEF ServerType
<1>5. server.known \subseteq server'.known BY <1>3
<1>6. \A g \in Int : Known(mode, server, g) => Known(mode', server', g)
  BY <1>3, <1>5 DEF Known
<1>7. Known(mode', server', gate) BY <1>2, <1>3, ServerIs DEF Known
<1>8. server'.open \subseteq server'.known BY <1>3 DEF ServerFits
<1>9. \A g \in server'.known : g <= server'.turns
  BY <1>2, <1>3, ServerIs DEF ServerFits
<1>10. server'.since <= server'.turns /\ server'.turns # 0 BY <1>3, ServerIs DEF ServerFits
<1>11. ServerFits' BY <1>3, <1>7, <1>8, <1>9, <1>10 DEF ServerFits
<1>12. Moves BY <1>3, <1>6, ServerIs DEF Moves
<1>13. Told(server', server.turns + 1, gate) BY <1>3, ServerIs DEF Told
<1> QED BY <1>2, <1>3, <1>4, <1>7, <1>11, <1>12, <1>13, ServerIs DEF Serves

\* The records are lost, and what the clients were shown is older than that.
LEMMA ServerRestarts ==
  ASSUME TypeInv, ServerFits, mode' = mode, NEW gone \in {server.gone, TRUE},
         server' = [server EXCEPT !.open = {}, !.known = {},
                                  !.since = server.turns, !.gone = gone,
                                  !.current = IF gone THEN 0 ELSE @]
  PROVE  Serves
<1>1. server \in ServerType BY DEF TypeInv
<1>2. gone \in BOOLEAN /\ (~gone => ~server.gone) BY ServerIs
<1>3. /\ server'.turns = server.turns /\ server'.gone = gone /\ server'.begun = server.begun
      /\ server'.open = {} /\ server'.known = {} /\ server'.since = server.turns
      /\ server'.current = IF gone THEN 0 ELSE server.current
  BY <1>1 DEF ServerType
<1>4. server' \in ServerType BY <1>1, <1>2, Zeros, ServerIs DEF ServerType
<1>5. \A g \in Int : Known(mode, server, g) => Known(mode', server', g)
  BY <1>3, ServerIs DEF Known, ServerFits
<1>6. 0 \in Int /\ server.current \in Int /\ Known(mode, server, 0) BY ServerIs DEF Known
<1>7. Known(mode', server', server'.current)
  BY <1>3, <1>5, <1>6 DEF ServerFits
<1>8. ServerFits' BY <1>3, <1>7, ServerIs DEF ServerFits
<1>9. Moves BY <1>2, <1>3, <1>5, ServerIs DEF Moves, ServerFits
<1> QED BY <1>4, <1>8, <1>9, ServerIs DEF Serves


-----------------------------------------------------------------------------
(* What a step leaves true of the view.                                    *)

\* The requests of the page in flight are those it had before.
Ours(r) == r.pc # "free" /\ r.mine
OursStay == \A s \in Slots :
    /\ Ours(request'[s]) <=> Ours(request[s])
    /\ Ours(request[s]) => request'[s].kind = request[s].kind

LEMMA OursAre ==
    /\ Answers <=> \E s \in Slots : Ours(request[s]) /\ request[s].kind = "resolve"
    /\ Expects <=> \E s \in Slots : Ours(request[s]) /\ request[s].kind \in {"start", "open", "visit"}
  BY DEF Answers, Expects, Mine, Ours

LEMMA OursNext ==
    /\ Answers' <=> \E s \in Slots : Ours(request'[s]) /\ request'[s].kind = "resolve"
    /\ Expects' <=> \E s \in Slots : Ours(request'[s]) /\ request'[s].kind \in {"start", "open", "visit"}
  BY DEF Answers, Expects, Mine, Ours

LEMMA OneGoes ==
  ASSUME TypeInv, NEW s \in Slots, NEW r, request' = [request EXCEPT ![s] = r]
  PROVE  \A q \in Slots : request'[q] = IF q = s THEN r ELSE request[q]
  BY DEF TypeInv

LEMMA OursStayAfter ==
  ASSUME TypeInv, NEW s \in Slots, NEW r, request' = [request EXCEPT ![s] = r],
         Ours(r) <=> Ours(request[s]), Ours(r) => r.kind = request[s].kind
  PROVE  OursStay
  BY OneGoes DEF OursStay

LEMMA OursGrow ==
  ASSUME TypeInv, NEW s \in Slots, NEW r, request' = [request EXCEPT ![s] = r],
         request[s].pc = "free", Ours(r)
  PROVE  /\ Answers' <=> Answers \/ r.kind = "resolve"
         /\ Expects' <=> Expects \/ r.kind \in {"start", "open", "visit"}
<1>1. \A q \in Slots : request'[q] = IF q = s THEN r ELSE request[q] BY OneGoes
<1>2. ~Ours(request[s]) BY DEF Ours
<1> QED BY <1>1, <1>2, OursAre, OursNext

LEMMA OursShrink ==
  ASSUME TypeInv, NEW s \in Slots, request' = [request EXCEPT ![s] = Free]
  PROVE  /\ Answers' => Answers
         /\ Expects => \/ Expects'
                       \/ Ours(request[s]) /\ request[s].kind \in {"start", "open", "visit"}
<1>1. \A q \in Slots : request'[q] = IF q = s THEN Free ELSE request[q] BY OneGoes
<1>2. ~Ours(Free) BY DEF Ours, Free
<1>3. Answers' => Answers
  <2>1. \A q \in Slots : Ours(request'[q]) => request'[q] = request[q] BY <1>1, <1>2
  <2> QED BY <2>1, OursAre, OursNext
<1>4. ASSUME NEW q \in Slots, Ours(request[q]), request[q].kind \in {"start", "open", "visit"},
             ~(Ours(request[s]) /\ request[s].kind \in {"start", "open", "visit"})
      PROVE  Expects'
  <2>1. q # s BY <1>4
  <2>2. request'[q] = request[q] BY <1>1, <2>1
  <2> QED BY <1>4, <2>2, OursNext
<1>5. Expects => \E q \in Slots : Ours(request[q]) /\ request[q].kind \in {"start", "open", "visit"}
  BY OursAre
<1> QED BY <1>3, <1>4, <1>5

LEMMA OursKept ==
  ASSUME OursStay
  PROVE  (Answers' <=> Answers) /\ (Expects' <=> Expects)
  BY OursAre, OursNext DEF OursStay

LEMMA ViewStays ==
  ASSUME TypeInv, ViewFits, Serves, OursStay, UNCHANGED studio
  PROVE  ViewFits'
<1>1. Expects' <=> Expects BY OursKept
<1>2. Known(mode', server', studio.pending) BY StudioIs DEF ViewFits, Serves, Moves
<1>3. studio.at <= server'.turns BY StudioIs, ServerIs DEF ViewFits, Serves, Moves
<1> QED BY <1>1, <1>2, <1>3 DEF ViewFits

LEMMA PendingStays ==
  ASSUME TypeInv, ViewFits, PendingFits, Serves, UNCHANGED studio
  PROVE  PendingFits'
<1>1. CASE server'.turns = server.turns BY <1>1 DEF PendingFits, Serves, Moves
<1>2. CASE server'.turns = server.turns + 1
  BY <1>2, StudioIs, ServerIs DEF PendingFits, ViewFits
<1> QED BY <1>1, <1>2 DEF Serves, Moves

LEMMA LeftStays ==
  ASSUME LeftFits, OursStay, UNCHANGED studio,
         studio.view # "here" => \A c \in Conns :
             /\ conn[c].pc = "off" => conn'[c].pc = "off"
             /\ conn[c].left => conn'[c].pc = "off" \/ conn'[c].left
  PROVE  LeftFits'
<1>1. Answers' <=> Answers BY OursKept
<1> QED BY <1>1 DEF LeftFits

\* An outcome nobody has been told of yet is in no history.
LEMMA ArrivesStays ==
  ASSUME TypeInv, WireFits, Arrives, Serves, UNCHANGED <<studio, frames, conn>>
  PROVE  Arrives'
<1>1. CASE server'.turns = server.turns BY <1>1 DEF Arrives, Owed, Hearing
<1>2. CASE server'.turns = server.turns + 1
  <2>1. \A k \in 1 .. Len(frames) : frames[k].turn <= server.turns /\ frames[k].turn \in Nat
    BY FrameIs DEF WireFits, AllHonest, Honest, Told, TypeInv, WireType
  <2>2. ~Has(frames, server'.turns) BY <1>2, <2>1, ServerIs DEF Has
  <2> QED BY <2>2 DEF Arrives, Owed
<1> QED BY <1>1, <1>2 DEF Serves, Moves

\* A step behind the scenes: of the server, the requests and the worker.
LEMMA Backstage ==
  ASSUME IInv, Serves, OursStay, RequestsFit', request' \in [Slots -> RequestType],
         WorkerFits', jobs' \in Nat, worker' \in WorkerType,
         UNCHANGED <<wire, studio, breaks>>
  PROVE  IInv'
<1> USE DEF IInv, Fits
<1>1. UNCHANGED studio /\ UNCHANGED wire /\ UNCHANGED breaks OBVIOUS
<1>2. conn' = conn /\ frames' = frames BY <1>1 DEF wire
<1>3. Moves /\ mode' = mode BY DEF Serves, Moves
<1>4. WireType' /\ WireFits' BY <1>1, <1>3, WireStays
<1>5. ViewFits' BY <1>1, ViewStays
<1>6. PendingFits' BY <1>1, PendingStays
<1>7. LeftFits' BY <1>1, <1>2, LeftStays
<1>8. Arrives' BY <1>1, <1>2, ArrivesStays
<1>9. TypeInv' BY <1>1, <1>3, <1>4 DEF TypeInv, Serves
<1> QED BY <1>4, <1>5, <1>6, <1>7, <1>8, <1>9 DEF Serves


-----------------------------------------------------------------------------
(* The server, its handlers and the worker.                                *)

LEMMA FitsAre ==
  ASSUME IInv
  PROVE  /\ TypeInv /\ ServerFits /\ RequestsFit /\ WorkerFits /\ WireFits
         /\ ViewFits /\ LeftFits /\ PendingFits /\ Arrives
         /\ jobs \in Nat /\ worker \in WorkerType /\ request \in [Slots -> RequestType]
         /\ server \in ServerType /\ mode \in Modes
         /\ breaks \in 0 .. MaxBreaks[mode] /\ MaxBreaks[mode] \in Nat
  BY Bounds DEF IInv, Fits, TypeInv

LEMMA FreeFits ==
  ASSUME TypeInv, Serves
  PROVE  Free \in RequestType /\ RequestFits(mode', server', Free)
<1>1. Free \in RequestType BY Zeros DEF Free, RequestType
<1>2. Known(mode', server', 0)
  <2>1. 0 \in Int /\ Known(mode, server, 0) BY ServerIs DEF Known
  <2> QED BY <2>1 DEF Serves, Moves
<1>3. Free.pc = "free" /\ Free.gate = 0 BY DEF Free
<1> QED BY <1>1, <1>2, <1>3 DEF RequestFits

\* A request that has just been sent.
Sent(kind, mine, gate) == [pc |-> "sent", kind |-> kind, mine |-> mine, gate |-> gate, turn |-> 0]

LEMMA Sends ==
  ASSUME IInv, Serves, NEW s \in Slots, request[s].pc = "free",
         NEW r \in RequestType, r.pc = "sent", Known(mode, server, r.gate),
         request' = [request EXCEPT ![s] = r]
  PROVE  RequestsFit' /\ request' \in [Slots -> RequestType] /\ ~Ours(request[s])
<1>1. r.gate \in Int BY Zeros DEF RequestType
<1>2. Known(mode', server', r.gate) BY <1>1 DEF Serves, Moves
<1>3. RequestFits(mode', server', r) BY <1>2 DEF RequestFits
<1> QED BY <1>3, FitsAre, RequestGoes DEF Ours

\* One request goes on, and nothing else the view depends on.
LEMMA OneRequest ==
  ASSUME IInv, Serves, NEW s \in Slots, NEW r \in RequestType,
         request' = [request EXCEPT ![s] = r], RequestFits(mode', server', r),
         Ours(r) <=> Ours(request[s]), Ours(r) => r.kind = request[s].kind,
         jobs' \in Nat, jobs' = jobs \/ mode = "arq",
         UNCHANGED <<worker, wire, studio, breaks>>
  PROVE  IInv'
<1>1. OursStay BY FitsAre, OursStayAfter
<1>2. RequestsFit' /\ request' \in [Slots -> RequestType] BY FitsAre, RequestGoes
<1>3. UNCHANGED worker /\ Moves /\ UNCHANGED <<wire, studio, breaks>> BY DEF Serves
<1>4. WorkerFits' /\ worker' \in WorkerType BY <1>3, FitsAre, WorkerStays
<1> QED BY <1>1, <1>2, <1>3, <1>4, Backstage

LEMMA RecommandKeeps == ASSUME IInv, NEW s \in Slots, Recommand(s) PROVE IInv'
<1>1. Serves BY FitsAre, ServerBegins DEF Recommand
<1>2. Known(mode, server, 0) BY FitsAre, ServerIs DEF Known
<1> DEFINE r == Sent("start", FALSE, 0)
<1>3. r \in RequestType /\ r.pc = "sent" /\ r.gate = 0 /\ ~Ours(r)
  BY <1>2, Zeros DEF Sent, RequestType, Ours
<1>4. request[s].pc = "free" /\ request' = [request EXCEPT ![s] = r]
  BY DEF Recommand, Send, Sent
<1> HIDE DEF r
<1>5. RequestsFit' /\ request' \in [Slots -> RequestType] /\ ~Ours(request[s])
  BY <1>1, <1>2, <1>3, <1>4, Sends
<1>6. OursStay BY <1>3, <1>4, <1>5, FitsAre, OursStayAfter
<1>7. UNCHANGED worker /\ UNCHANGED jobs /\ Moves /\ UNCHANGED <<wire, studio, breaks>>
  BY <1>1 DEF Recommand, Serves
<1>8. WorkerFits' /\ worker' \in WorkerType /\ jobs' \in Nat BY <1>7, FitsAre, WorkerStays
<1> QED BY <1>1, <1>5, <1>6, <1>7, <1>8, Backstage

LEMMA AnswerElsewhereKeeps == ASSUME IInv, NEW s \in Slots, AnswerElsewhere(s) PROVE IInv'
<1>1. Serves BY FitsAre, ServerStays DEF AnswerElsewhere
<1>2. Known(mode, server, server.current) /\ server.current \in Nat
  BY FitsAre, ServerIs DEF ServerFits
<1> DEFINE r == Sent("resolve", FALSE, server.current)
<1>3. r \in RequestType /\ r.pc = "sent" /\ r.gate = server.current /\ ~Ours(r)
  BY <1>2, Zeros DEF Sent, RequestType, Ours
<1>4. request[s].pc = "free" /\ request' = [request EXCEPT ![s] = r]
  BY DEF AnswerElsewhere, Send, Sent
<1> HIDE DEF r
<1>5. RequestsFit' /\ request' \in [Slots -> RequestType] /\ ~Ours(request[s])
  BY <1>1, <1>2, <1>3, <1>4, Sends
<1>6. OursStay BY <1>3, <1>4, <1>5, FitsAre, OursStayAfter
<1>7. UNCHANGED worker /\ UNCHANGED jobs /\ Moves /\ UNCHANGED <<wire, studio, breaks>>
  BY <1>1 DEF AnswerElsewhere, Serves
<1>8. WorkerFits' /\ worker' \in WorkerType /\ jobs' \in Nat BY <1>7, FitsAre, WorkerStays
<1> QED BY <1>1, <1>5, <1>6, <1>7, <1>8, Backstage

\* What a request becomes whose status, turn and gate change.
LEMMA Replies ==
  ASSUME IInv, Serves, NEW s \in Slots, request[s].pc # "free",
         NEW status \in {"turn", "publish", "reply", "blind", "error", "unknown"},
         NEW turn \in Nat, NEW gate \in Nat,
         request' = [request EXCEPT ![s] = [request[s] EXCEPT !.pc = status, !.turn = turn, !.gate = gate]],
         Known(mode', server', gate),
         status \in {"publish", "reply"} => Told(server', turn, gate),
         status = "publish" => turn # 0,
         status = "blind" => turn <= server'.turns,
         status = "unknown" => mode' = "arq" \/ gate <= server'.since,
         jobs' \in Nat, jobs' = jobs \/ mode = "arq",
         UNCHANGED <<worker, wire, studio, breaks>>
  PROVE  IInv'
<1> DEFINE r == [request[s] EXCEPT !.pc = status, !.turn = turn, !.gate = gate]
<1>1. request[s] \in RequestType BY FitsAre, RequestIs
<1>2. /\ r \in RequestType /\ r.pc = status /\ r.turn = turn /\ r.gate = gate
      /\ r.kind = request[s].kind /\ r.mine = request[s].mine
  BY <1>1, Zeros DEF RequestType
<1>3. request' = [request EXCEPT ![s] = r] OBVIOUS
<1> HIDE DEF r
<1>4. RequestFits(mode', server', r) BY <1>2 DEF RequestFits
<1>5. Ours(r) <=> Ours(request[s]) BY <1>2 DEF Ours
<1> QED BY <1>2, <1>3, <1>4, <1>5, OneRequest


LEMMA AcceptStartKeeps == ASSUME IInv, NEW s \in Slots, AcceptStart(s) PROVE IInv'
<1>1. Serves BY FitsAre, ServerStays DEF AcceptStart
<1>2. /\ request[s].pc = "sent" /\ mode = "arq" /\ jobs' = jobs + 1 /\ server' = server
      /\ request' = [request EXCEPT ![s].pc = "blind", ![s].turn = server.turns, ![s].gate = 0]
      /\ UNCHANGED <<worker, wire, studio, breaks>>
  BY DEF AcceptStart, Dispatch, ReplyWith
<1>3. request' = [request EXCEPT ![s] = [request[s] EXCEPT !.pc = "blind", !.turn = server.turns, !.gate = 0]]
  BY <1>2, FitsAre
<1>4. Known(mode', server', 0) BY FitsAre, FreeFits, <1>1, ServerIs, <1>2 DEF Known, AcceptStart
<1>5. jobs' \in Nat BY <1>2, FitsAre
<1>6. "blind" \in {"turn", "publish", "reply", "blind", "error", "unknown"}
      /\ server.turns \in Nat /\ 0 \in Nat /\ server.turns <= server'.turns
  BY <1>2, FitsAre, ServerIs
<1> QED BY <1>1, <1>2, <1>3, <1>4, <1>5, <1>6, Replies

LEMMA AcceptOpenKeeps == ASSUME IInv, NEW s \in Slots, AcceptOpen(s) PROVE IInv'
<1> DEFINE first == IF server.open = {} THEN 0 ELSE Min(server.open)
           status == IF first = server.current THEN "reply" ELSE "blind"
<1>1. Serves BY FitsAre, ServerStays DEF AcceptOpen
<1>2. first \in Nat /\ (first = 0 \/ first \in server.open)
  <2>1. CASE server.open = {} BY <2>1
  <2>2. CASE server.open # {}
    <3>1. server.open \in SUBSET Gates BY FitsAre, ServerIs DEF Gates
    <3> QED BY <2>2, <3>1, LeastGate DEF Gates
  <2> QED BY <2>1, <2>2
<1>3. /\ request[s].pc = "sent" /\ server' = server /\ mode' = mode /\ jobs' = jobs
      /\ request' = [request EXCEPT ![s].pc = status, ![s].turn = server.turns, ![s].gate = first]
      /\ UNCHANGED <<worker, wire, studio, breaks>>
  BY DEF AcceptOpen, ReplyWith
<1> HIDE DEF first
<1>4. request' = [request EXCEPT ![s] = [request[s] EXCEPT !.pc = status, !.turn = server.turns, !.gate = first]]
  BY <1>3, FitsAre
<1>5. Known(mode', server', first) BY <1>2, <1>3, FitsAre, ServerIs DEF Known, ServerFits
<1>6. status \in {"turn", "publish", "reply", "blind", "error", "unknown"}
      /\ (status \in {"publish", "reply"} => first = server.current)
      /\ status # "publish" /\ status # "unknown"
  OBVIOUS
<1> HIDE DEF status
<1>7. status \in {"publish", "reply"} => Told(server', server.turns, first)
  BY <1>3, <1>6, FitsAre, ServerIs DEF Told
<1>8. server.turns \in Nat /\ server.turns <= server'.turns /\ jobs' \in Nat
  BY <1>3, FitsAre, ServerIs
<1>9. /\ request[s].pc # "free"
      /\ status = "publish" => server.turns # 0
      /\ status = "blind" => server.turns <= server'.turns
      /\ status = "unknown" => mode' = "arq" \/ first <= server'.since
      /\ jobs' = jobs \/ mode = "arq"
  BY <1>3, <1>6, <1>8
<1>10. UNCHANGED <<worker, wire, studio, breaks>> BY <1>3
<1> QED BY <1>1, <1>2, <1>4, <1>5, <1>6, <1>7, <1>8, <1>9, <1>10, Replies

LEMMA RunTurnKeeps == ASSUME IInv, NEW s \in Slots, RunTurn(s) PROVE IInv'
<1>1. PICK gate \in Outcomes :
          /\ server' = AfterTurn(gate, TRUE)
          /\ ReplyWith(s, "publish", server.turns + 1, gate)
  BY DEF RunTurn
<1>2. /\ request[s].pc # "free" /\ mode' = mode /\ jobs' = jobs
      /\ UNCHANGED <<worker, wire, studio, breaks>>
  BY DEF RunTurn
<1>3. /\ Serves /\ server'.turns = server.turns + 1
      /\ Told(server', server.turns + 1, gate) /\ Known(mode', server', gate) /\ gate \in Nat
  BY <1>1, <1>2, FitsAre, ServerTurns
<1>4. request' = [request EXCEPT ![s] = [request[s] EXCEPT !.pc = "publish", !.turn = server.turns + 1, !.gate = gate]]
  BY <1>1, FitsAre DEF ReplyWith
<1>5. server.turns + 1 \in Nat /\ server.turns + 1 # 0 /\ jobs' \in Nat
  BY <1>2, FitsAre, ServerIs
<1>6. "publish" \in {"turn", "publish", "reply", "blind", "error", "unknown"} OBVIOUS
<1> QED BY <1>2, <1>3, <1>4, <1>5, <1>6, Replies

\* A request whose status alone changes.
LEMMA GoesOn ==
  ASSUME IInv, Serves, NEW s \in Slots, request[s].pc # "free",
         NEW status \in {"turn", "error", "unknown"},
         request' = [request EXCEPT ![s].pc = status],
         status = "unknown" => mode' = "arq" \/ request[s].gate <= server'.since,
         UNCHANGED <<jobs, worker, wire, studio, breaks>>
  PROVE  IInv'
<1> DEFINE r == [request[s] EXCEPT !.pc = status]
<1>1. request[s] \in RequestType /\ request[s].gate \in Int BY FitsAre, RequestIs
<1>2. /\ r \in RequestType /\ r.pc = status /\ r.gate = request[s].gate
      /\ r.kind = request[s].kind /\ r.mine = request[s].mine
  BY <1>1 DEF RequestType
<1>3. request' = [request EXCEPT ![s] = r] OBVIOUS
<1> HIDE DEF r
<1>4. Known(mode', server', r.gate)
  BY <1>1, <1>2, FitsAre DEF RequestsFit, RequestFits, Serves, Moves
<1>5. RequestFits(mode', server', r) BY <1>2, <1>4 DEF RequestFits
<1>6. Ours(r) <=> Ours(request[s]) BY <1>2 DEF Ours
<1>7. jobs' = jobs /\ jobs' \in Nat /\ UNCHANGED <<worker, wire, studio, breaks>> BY FitsAre
<1> QED BY <1>2, <1>3, <1>5, <1>6, <1>7, OneRequest

LEMMA AcceptResolveKeeps == ASSUME IInv, NEW s \in Slots, AcceptResolve(s) PROVE IInv'
<1> DEFINE g == request[s].gate
<1>1. /\ request[s].pc = "sent" /\ mode' = mode
      /\ UNCHANGED <<worker, wire, studio, breaks>>
      /\ \/ /\ g \notin server.known
            /\ request' = [request EXCEPT ![s].pc = "unknown"] /\ UNCHANGED <<server, jobs>>
         \/ request' = [request EXCEPT ![s].pc = "error"] /\ UNCHANGED <<server, jobs>>
         \/ server' = [server EXCEPT !.open = @ \ {g}] /\ Dispatch(s)
  BY Zenon DEF AcceptResolve
<1>2. g \in Nat /\ Known(mode, server, g) BY FitsAre, RequestIs DEF RequestsFit, RequestFits
<1>3. CASE g \notin server.known /\ request' = [request EXCEPT ![s].pc = "unknown"]
           /\ UNCHANGED <<server, jobs>>
  <2>1. Serves BY <1>1, <1>3, FitsAre, ServerStays
  <2>2. mode' = "arq" \/ g <= server'.since BY <1>1, <1>2, <1>3 DEF Known
  <2> QED BY <1>1, <1>3, <2>1, <2>2, GoesOn
<1>4. CASE request' = [request EXCEPT ![s].pc = "error"] /\ UNCHANGED <<server, jobs>>
  <2>1. Serves BY <1>1, <1>4, FitsAre, ServerStays
  <2> QED BY <1>1, <1>4, <2>1, GoesOn
<1>5. CASE server' = [server EXCEPT !.open = @ \ {g}] /\ Dispatch(s)
  <2>1. Serves BY <1>1, <1>5, FitsAre, ServerCloses
  <2>2. server'.turns = server.turns BY <1>5, FitsAre DEF ServerType
  <2>3. CASE mode = "arq"
    <3>1. jobs' = jobs + 1 /\ jobs' \in Nat
          /\ request' = [request EXCEPT ![s].pc = "blind", ![s].turn = server.turns, ![s].gate = 0]
      BY <1>5, <2>3, FitsAre DEF Dispatch, ReplyWith
    <3>2. request' = [request EXCEPT ![s] = [request[s] EXCEPT !.pc = "blind", !.turn = server.turns, !.gate = 0]]
      BY <3>1, FitsAre
    <3>3. Known(mode', server', 0) BY <1>1, <2>3 DEF Known
    <3>4. "blind" \in {"turn", "publish", "reply", "blind", "error", "unknown"}
          /\ server.turns \in Nat /\ 0 \in Nat /\ server.turns <= server'.turns
      BY <2>2, FitsAre, ServerIs
    <3> QED BY <1>1, <2>1, <2>3, <3>1, <3>2, <3>3, <3>4, Replies
  <2>4. CASE mode # "arq"
    <3>1. request' = [request EXCEPT ![s].pc = "turn"] /\ UNCHANGED jobs
      BY <1>5, <2>4 DEF Dispatch
    <3> QED BY <1>1, <2>1, <3>1, GoesOn
  <2> QED BY <2>3, <2>4
<1> QED BY <1>1, <1>3, <1>4, <1>5


LEMMA WorkerTakesKeeps == ASSUME IInv, WorkerTakes PROVE IInv'
<1>1. Serves BY FitsAre, ServerStays DEF WorkerTakes
<1>2. /\ jobs > 0 /\ jobs' = jobs - 1 /\ worker' = [Idle EXCEPT !.pc = "turn"]
      /\ UNCHANGED request /\ UNCHANGED <<wire, studio, breaks>> /\ mode' = mode
  BY DEF WorkerTakes
<1>3. RequestsFit' /\ request' \in [Slots -> RequestType] BY <1>1, <1>2, FitsAre, RequestsStay
<1>4. jobs' \in Nat /\ mode = "arq" BY <1>2, FitsAre DEF WorkerFits
<1>5. worker' \in WorkerType /\ worker'.pc = "turn" BY <1>2, Zeros DEF Idle, WorkerType
<1>6. WorkerFits' BY <1>2, <1>4, <1>5 DEF WorkerFits
<1>7. OursStay BY <1>2 DEF OursStay
<1> QED BY <1>1, <1>2, <1>3, <1>4, <1>5, <1>6, <1>7, Backstage

LEMMA WorkerRunsKeeps == ASSUME IInv, WorkerRuns PROVE IInv'
<1>1. PICK gate \in Outcomes :
          /\ server' = AfterTurn(gate, FALSE)
          /\ worker' = [pc |-> "publish", turn |-> server.turns + 1, gate |-> gate]
  BY DEF WorkerRuns
<1>2. /\ worker.pc = "turn" /\ UNCHANGED request /\ UNCHANGED jobs /\ mode' = mode
      /\ UNCHANGED <<wire, studio, breaks>>
  BY DEF WorkerRuns
<1>3. mode = "arq" BY <1>2, FitsAre DEF WorkerFits
<1>4. /\ Serves /\ Told(server', server.turns + 1, gate) /\ gate \in Nat
  BY <1>1, <1>2, <1>3, FitsAre, ServerTurns
<1>5. RequestsFit' /\ request' \in [Slots -> RequestType] BY <1>2, <1>4, FitsAre, RequestsStay
<1>6. server.turns + 1 \in Nat /\ server.turns + 1 # 0 BY FitsAre, ServerIs
<1>7. /\ worker' \in WorkerType /\ worker'.turn = server.turns + 1 /\ worker'.gate = gate
  BY <1>1, <1>4, <1>6, Zeros DEF WorkerType
<1>8. WorkerFits' BY <1>2, <1>3, <1>4, <1>6, <1>7 DEF WorkerFits
<1>9. OursStay /\ jobs' \in Nat BY <1>2, FitsAre DEF OursStay
<1> QED BY <1>2, <1>4, <1>5, <1>7, <1>8, <1>9, Backstage

LEMMA WorkerFailsKeeps == ASSUME IInv, WorkerFails PROVE IInv'
<1>1. Serves BY FitsAre, ServerStays DEF WorkerFails
<1>2. /\ worker.pc = "turn" /\ worker' = Idle /\ jobs' \in {jobs, jobs + 1}
      /\ UNCHANGED request /\ UNCHANGED <<wire, studio, breaks>> /\ mode' = mode
  BY DEF WorkerFails
<1>3. RequestsFit' /\ request' \in [Slots -> RequestType] BY <1>1, <1>2, FitsAre, RequestsStay
<1>4. jobs' \in Nat /\ mode = "arq" BY <1>2, FitsAre DEF WorkerFits
<1>5. worker' \in WorkerType /\ worker'.pc = "idle" BY <1>2, Zeros DEF Idle, WorkerType
<1>6. WorkerFits' BY <1>2, <1>4, <1>5 DEF WorkerFits
<1>7. OursStay BY <1>2 DEF OursStay
<1> QED BY <1>1, <1>2, <1>3, <1>4, <1>5, <1>6, <1>7, Backstage

-----------------------------------------------------------------------------
(* The bus.                                                                *)

\* A new frame may push the oldest out of the history.
LEMMA KeptIs ==
  ASSUME TypeInv, NEW f \in Frames
  PROVE  /\ Kept(f) \in Seq(Frames) /\ (mode # "memory" => Len(Kept(f)) <= Cap)
         /\ \/ Kept(f) = Append(frames, f)
            \/ Kept(f) = Tail(Append(frames, f)) /\ Append(frames, f) # <<>>
<1> DEFINE all == Append(frames, f)
<1>1. frames \in Seq(Frames) /\ Len(frames) \in Nat /\ (mode # "memory" => Len(frames) <= Cap)
  BY WireIs DEF TypeInv, WireType
<1>2. all \in Seq(Frames) /\ all # <<>> /\ Len(all) = Len(frames) + 1 BY <1>1, Appended
<1>3. Tail(all) \in Seq(Frames) /\ Len(Tail(all)) = Len(all) - 1 BY <1>2, Tailed
<1>4. Kept(f) = IF mode = "memory" \/ Len(all) <= Cap THEN all ELSE Tail(all) BY DEF Kept
<1> HIDE DEF all
<1>5. mode # "memory" => Len(Kept(f)) <= Cap BY <1>1, <1>2, <1>3, <1>4, Bounds
<1>6. Kept(f) \in Seq(Frames) BY <1>2, <1>3, <1>4
<1> QED BY <1>2, <1>4, <1>5, <1>6 DEF all

LEMMA AllHonestAppend ==
  ASSUME NEW m, NEW sv, NEW q \in Seq(Frames), NEW f \in Frames,
         AllHonest(m, sv, q), Honest(m, sv, f)
  PROVE  AllHonest(m, sv, Append(q, f))
<1> DEFINE r == Append(q, f)
<1>1. /\ Len(q) \in Nat /\ Len(r) = Len(q) + 1
      /\ \A k \in 1 .. Len(r) : r[k] = IF k <= Len(q) THEN q[k] ELSE f
  BY Appended, FrameIs
<1> HIDE DEF r
<1>2. \A k \in 1 .. Len(r) : Honest(m, sv, r[k]) BY <1>1 DEF AllHonest
<1> QED BY <1>2 DEF AllHonest, r

LEMMA AllHonestTail ==
  ASSUME NEW m, NEW sv, NEW q \in Seq(Frames), q # <<>>, AllHonest(m, sv, q)
  PROVE  AllHonest(m, sv, Tail(q)) /\ Honest(m, sv, Head(q))
<1>1. /\ Len(q) >= 1 /\ Len(q) \in Nat /\ Head(q) = q[1]
      /\ \A k \in 1 .. Len(Tail(q)) : Tail(q)[k] = q[k + 1] /\ k + 1 \in 1 .. Len(q)
  BY Tailed, FrameIs
<1>2. Honest(m, sv, Head(q)) BY <1>1 DEF AllHonest
<1>3. \A k \in 1 .. Len(Tail(q)) : Honest(m, sv, Tail(q)[k]) BY <1>1 DEF AllHonest
<1> QED BY <1>2, <1>3 DEF AllHonest

LEMMA HasAppend ==
  ASSUME NEW q \in Seq(Frames), NEW f \in Frames, NEW turn
  PROVE  Has(Append(q, f), turn) <=> Has(q, turn) \/ f.turn = turn
<1> DEFINE r == Append(q, f)
<1>1. /\ Len(q) \in Nat /\ Len(r) = Len(q) + 1
      /\ \A k \in 1 .. Len(r) : r[k] = IF k <= Len(q) THEN q[k] ELSE f
  BY Appended, FrameIs
<1> HIDE DEF r
<1>2. Has(r, turn) => Has(q, turn) \/ f.turn = turn BY <1>1 DEF Has
<1>3. \A k \in 1 .. Len(q) : k \in 1 .. Len(r) /\ r[k] = q[k] BY <1>1
<1>4. Has(q, turn) => Has(r, turn) BY <1>3 DEF Has
<1>5. Len(r) \in 1 .. Len(r) /\ r[Len(r)] = f BY <1>1
<1>6. f.turn = turn => Has(r, turn) BY <1>5 DEF Has
<1> QED BY <1>2, <1>4, <1>6 DEF r

LEMMA HasTail ==
  ASSUME NEW q \in Seq(Frames), q # <<>>, NEW turn
  PROVE  /\ Has(Tail(q), turn) => Has(q, turn)
         /\ Has(q, turn) /\ Head(q).turn # turn => Has(Tail(q), turn)
<1>1. /\ Len(q) \in Nat /\ Len(q) >= 1 /\ Head(q) = q[1] /\ Len(Tail(q)) = Len(q) - 1
      /\ \A k \in 1 .. Len(Tail(q)) : Tail(q)[k] = q[k + 1] /\ k + 1 \in 1 .. Len(q)
  BY Tailed, FrameIs
<1>2. Has(Tail(q), turn) => Has(q, turn) BY <1>1 DEF Has
<1>3. ASSUME NEW k \in 1 .. Len(q), q[k].turn = turn, Head(q).turn # turn
      PROVE  Has(Tail(q), turn)
  <2>1. k # 1 BY <1>1, <1>3
  <2>2. k - 1 \in 1 .. Len(Tail(q)) /\ (k - 1) + 1 = k BY <1>1, <2>1
  <2>3. Tail(q)[k - 1] = q[k] BY <1>1, <2>2
  <2> QED BY <1>3, <2>2, <2>3 DEF Has
<1> QED BY <1>2, <1>3 DEF Has


\* A socket that hears a frame which was just published.
LEMMA HearsFits ==
  ASSUME TypeInv, NEW k \in ConnType, ConnFits(mode, server, published, k),
         NEW f \in Frames, f.n = published + 1, Honest(mode, server, f)
  PROVE  /\ Hears(k, f) \in ConnType
         /\ ConnFits(mode, server, published + 1, Hears(k, f))
         /\ Hears(k, f).pc = k.pc /\ Hears(k, f).left = k.left
<1> DEFINE h == Hears(k, f)
<1>1. /\ k.buffer \in Seq(Frames) /\ k.seen \in Nat /\ k.gap \in BOOLEAN /\ published \in Nat
  BY ConnFields, WireIs, ServerIs DEF TypeInv
<1>2. CASE k.pc = "live"
  <2>1. h = [k EXCEPT !.buffer = Append(k.buffer, f)] BY <1>2 DEF Hears
  <2>2. Append(k.buffer, f) \in Seq(Frames) BY <1>1, Appended
  <2>3. /\ h \in ConnType /\ h.pc = k.pc /\ h.left = k.left
        /\ h.buffer = Append(k.buffer, f) /\ h.seen = k.seen
    BY <2>1, <2>2 DEF ConnType
  <2>4. AllHonest(mode, server, Append(k.buffer, f))
    BY <1>1, AllHonestAppend DEF ConnFits
  <2>5. Ordered(Append(k.buffer, f), k.seen, published + 1) /\ k.seen <= published
    BY <1>1, OrderedAppend DEF ConnFits
  <2> HIDE DEF h
  <2>6. ConnFits(mode, server, published + 1, h)
    BY <1>1, <1>2, <2>3, <2>4, <2>5 DEF ConnFits
  <2> QED BY <2>3, <2>6 DEF h
<1>3. CASE k.pc # "live"
  <2>1. h = [k EXCEPT !.gap = k.gap \/ (k.pc = "replayed" /\ f.turn # 0)] BY <1>3 DEF Hears
  <2>2. /\ h \in ConnType /\ h.pc = k.pc /\ h.left = k.left
        /\ h.buffer = k.buffer /\ h.seen = k.seen
    BY <1>1, <2>1 DEF ConnType
  <2>3. Ordered(k.buffer, k.seen, published + 1) /\ k.seen <= published
    BY <1>1, OrderedUpto DEF ConnFits
  <2> HIDE DEF h
  <2>4. ConnFits(mode, server, published + 1, h) BY <1>1, <2>2, <2>3 DEF ConnFits
  <2> QED BY <2>2, <2>4 DEF h
<1> QED BY <1>2, <1>3

LEMMA Publishes ==
  ASSUME IInv, NEW turn \in Nat, NEW gate \in Nat, PublishFrame(turn, gate),
         Told(server, turn, gate), Known(mode, server, gate),
         UNCHANGED <<mode, server, studio>>, tokens' \in 0 .. MaxTokens[mode], OursStay
  PROVE  WireType' /\ WireFits' /\ LeftFits' /\ Arrives'
<1> DEFINE f == [n |-> published + 1, turn |-> turn, gate |-> gate]
<1>1. TypeInv /\ WireFits /\ frames \in Seq(Frames) /\ conn \in [Conns -> ConnType]
      /\ published \in Nat
  BY FitsAre, WireIs DEF TypeInv
<1>2. f \in Frames /\ f.n = published + 1 /\ f.turn = turn /\ f.gate = gate
  BY <1>1, Zeros DEF Frames
<1>3. /\ published' = published + 1 /\ frames' = Kept(f)
      /\ conn' = [c \in Conns |-> Hears(conn[c], f)]
  BY DEF PublishFrame
<1> HIDE DEF f
<1>4. Honest(mode, server, f) BY <1>2 DEF Honest
<1>5. \A c \in Conns : /\ conn[c] \in ConnType /\ conn'[c] = Hears(conn[c], f)
                       /\ conn'[c] \in ConnType
                       /\ ConnFits(mode, server, published + 1, conn'[c])
                       /\ conn'[c].pc = conn[c].pc /\ conn'[c].left = conn[c].left
  BY <1>1, <1>2, <1>3, <1>4, HearsFits DEF WireFits
<1>6. /\ Append(frames, f) \in Seq(Frames) /\ AllHonest(mode, server, Append(frames, f))
      /\ Ordered(Append(frames, f), 0, published + 1)
  BY <1>1, <1>2, <1>4, Appended, AllHonestAppend, OrderedAppend DEF WireFits
<1>7. AllHonest(mode, server, Kept(f)) /\ Ordered(Kept(f), 0, published + 1)
      /\ (Has(Kept(f), server.turns) => Has(Append(frames, f), server.turns))
  <2>1. CASE Kept(f) = Append(frames, f) BY <1>6, <2>1
  <2>2. CASE Kept(f) = Tail(Append(frames, f)) /\ Append(frames, f) # <<>>
    <3> DEFINE all == Append(frames, f)
    <3>1. all \in Seq(Frames) /\ all # <<>> /\ published + 1 \in Nat /\ 0 \in Nat
          /\ AllHonest(mode, server, all) /\ Ordered(all, 0, published + 1)
      BY <1>1, <1>6, <2>2
    <3> HIDE DEF all
    <3>2. AllHonest(mode, server, Tail(all)) BY <3>1, AllHonestTail
    <3>3. Ordered(Tail(all), 0, published + 1) BY <3>1, OrderedTail
    <3>4. Has(Tail(all), server.turns) => Has(all, server.turns) BY <3>1, HasTail
    <3> QED BY <2>2, <3>2, <3>3, <3>4 DEF all
  <2> QED BY <1>1, <1>2, <2>1, <2>2, KeptIs
<1>8. WireType'
  <2>1. conn' \in [Conns -> ConnType] BY <1>3, <1>5
  <2> QED BY <1>1, <1>2, <1>3, <2>1, KeptIs DEF WireType
<1>9. WireFits' BY <1>3, <1>5, <1>7 DEF WireFits
<1>10. LeftFits'
  <2>1. \A c \in Conns : /\ conn[c].pc = "off" => conn'[c].pc = "off"
                         /\ conn[c].left => conn'[c].pc = "off" \/ conn'[c].left
    BY <1>5
  <2> QED BY <2>1, FitsAre, LeftStays
<1>11. Arrives'
  <2>1. SUFFICES ASSUME Owed', NEW c \in Conns, Hearing(conn'[c])
                 PROVE  Has(conn'[c].buffer, server.turns)
    BY DEF Arrives
  <2>2. /\ studio.view = "here" /\ studio.excuse \notin {"crossed", "blind"}
        /\ studio.at # server.turns /\ Has(Kept(f), server.turns)
    BY <1>3, <2>1 DEF Owed
  <2>3. server.turns # 0 BY <2>2, FitsAre, StudioIs DEF ViewFits
  <2>4. conn[c].buffer \in Seq(Frames) /\ conn[c].gap \in BOOLEAN BY <1>5, ConnFields
  <2>5. CASE conn[c].pc = "live"
    <3>1. conn'[c] = [conn[c] EXCEPT !.buffer = Append(conn[c].buffer, f)]
      BY <1>5, <2>5 DEF Hears
    <3>2. conn'[c].buffer = Append(conn[c].buffer, f) /\ conn'[c].gap = conn[c].gap
          /\ conn'[c].left = conn[c].left
      BY <1>5, <3>1 DEF ConnType
    <3>3. Hearing(conn[c]) BY <2>1, <2>5, <3>2 DEF Hearing
    <3>4. f.turn = server.turns \/ Has(frames, server.turns) BY <1>1, <1>2, <1>7, <2>2, HasAppend
    <3>5. Has(frames, server.turns) => Has(conn[c].buffer, server.turns)
      BY <2>2, <3>3, FitsAre DEF Arrives, Owed
    <3> QED BY <1>2, <2>4, <3>2, <3>4, <3>5, HasAppend
  <2>6. CASE conn[c].pc # "live"
    <3>1. conn'[c] = [conn[c] EXCEPT !.gap = conn[c].gap \/ (conn[c].pc = "replayed" /\ f.turn # 0)]
      BY <1>5, <2>6 DEF Hears
    <3>2. /\ conn'[c].buffer = conn[c].buffer /\ conn'[c].left = conn[c].left
          /\ conn'[c].gap = (conn[c].gap \/ (conn[c].pc = "replayed" /\ f.turn # 0))
      BY <1>5, <3>1 DEF ConnType
    <3>3. Hearing(conn[c]) /\ f.turn = 0 BY <1>5, <2>1, <2>6, <3>2 DEF Hearing
    <3>4. Has(frames, server.turns) BY <1>1, <1>2, <1>7, <2>2, <2>3, <3>3, HasAppend
    <3> QED BY <2>2, <3>2, <3>3, <3>4, FitsAre DEF Arrives, Owed
  <2> QED BY <2>5, <2>6
<1> QED BY <1>8, <1>9, <1>10, <1>11


\* The outcome of a turn is published, or Redis refuses.
LEMMA TurnPublished ==
  ASSUME IInv, Serves, NEW turn \in Nat, NEW gate \in Nat,
         PublishFrame(turn, gate) \/ PublishNothing,
         Told(server, turn, gate), Known(mode, server, gate),
         UNCHANGED <<mode, server, studio, tokens>>, tokens' \in 0 .. MaxTokens[mode], OursStay
  PROVE  WireType' /\ WireFits' /\ LeftFits' /\ Arrives'
<1>1. CASE PublishFrame(turn, gate) BY <1>1, Publishes
<1>2. CASE PublishNothing
  <2>1. UNCHANGED wire /\ UNCHANGED studio /\ conn' = conn /\ frames' = frames
    BY <1>2 DEF PublishNothing, wire
  <2>2. WireType' /\ WireFits' BY <2>1, FitsAre, WireStays DEF Serves
  <2>3. LeftFits' BY <2>1, FitsAre, LeftStays
  <2>4. Arrives' BY <2>1, FitsAre, ArrivesStays
  <2> QED BY <2>2, <2>3, <2>4
<1> QED BY <1>1, <1>2

\* A step the page takes no part in.
LEMMA OffPage ==
  ASSUME IInv, Serves, OursStay, RequestsFit', request' \in [Slots -> RequestType],
         WorkerFits', jobs' \in Nat, worker' \in WorkerType,
         WireType', WireFits', LeftFits', Arrives', UNCHANGED studio,
         breaks' \in 0 .. MaxBreaks[mode]
  PROVE  IInv'
<1>1. mode' = mode BY DEF Serves, Moves
<1>2. ViewFits' BY FitsAre, ViewStays
<1>3. PendingFits' BY FitsAre, PendingStays
<1>4. TypeInv' BY <1>1, FitsAre DEF TypeInv, Serves
<1> QED BY <1>2, <1>3, <1>4 DEF IInv, Fits, Serves


LEMMA PublishKeeps == ASSUME IInv, NEW s \in Slots, Publish(s) PROVE IInv'
<1>1. /\ request[s].pc = "publish" /\ UNCHANGED <<mode, server, jobs, worker, tokens, studio, breaks>>
      /\ request' = [request EXCEPT ![s] =
             IF request[s].mine THEN [request[s] EXCEPT !.pc = "reply"] ELSE Free]
      /\ PublishFrame(request[s].turn, request[s].gate) \/ PublishNothing
  BY DEF Publish
<1>2. Serves BY <1>1, FitsAre, ServerStays
<1>3. /\ request[s] \in RequestType /\ request[s].turn \in Nat /\ request[s].gate \in Nat
      /\ Told(server, request[s].turn, request[s].gate) /\ Known(mode, server, request[s].gate)
  BY <1>1, FitsAre, RequestIs DEF RequestsFit, RequestFits
<1>4. /\ RequestsFit' /\ request' \in [Slots -> RequestType] /\ OursStay
  <2>1. CASE request[s].mine
    <3> DEFINE r == [request[s] EXCEPT !.pc = "reply"]
    <3>1. /\ r \in RequestType /\ r.pc = "reply" /\ r.turn = request[s].turn
          /\ r.gate = request[s].gate /\ r.kind = request[s].kind /\ r.mine = request[s].mine
      BY <1>3 DEF RequestType
    <3>2. request' = [request EXCEPT ![s] = r] BY <1>1, <2>1
    <3> HIDE DEF r
    <3>3. RequestFits(mode', server', r) BY <1>1, <1>3, <3>1 DEF RequestFits
    <3>4. Ours(r) <=> Ours(request[s]) BY <1>1, <3>1 DEF Ours
    <3> QED BY <1>2, <3>1, <3>2, <3>3, <3>4, FitsAre, RequestGoes, OursStayAfter
  <2>2. CASE ~request[s].mine
    <3>1. request' = [request EXCEPT ![s] = Free] BY <1>1, <2>2
    <3>2. ~Ours(Free) /\ ~Ours(request[s]) BY <2>2 DEF Ours, Free
    <3> QED BY <1>2, <3>1, <3>2, FitsAre, FreeFits, RequestGoes, OursStayAfter
  <2> QED BY <2>1, <2>2
<1>5. WorkerFits' /\ jobs' \in Nat /\ worker' \in WorkerType
  BY <1>1, <1>2, FitsAre, WorkerStays DEF Serves
<1>6. tokens' \in 0 .. MaxTokens[mode] BY <1>1, FitsAre DEF TypeInv, WireType
<1>7. WireType' /\ WireFits' /\ LeftFits' /\ Arrives'
  BY <1>1, <1>2, <1>3, <1>4, <1>6, TurnPublished
<1>8. breaks' \in 0 .. MaxBreaks[mode] /\ UNCHANGED studio BY <1>1, FitsAre
<1> QED BY <1>2, <1>4, <1>5, <1>7, <1>8, OffPage

LEMMA TokenKeeps == ASSUME IInv, Token PROVE IInv'
<1>1. /\ tokens < MaxTokens[mode] /\ tokens' = tokens + 1 /\ PublishFrame(0, 0)
      /\ UNCHANGED <<mode, server, request, jobs, worker, studio, breaks>>
  BY DEF Token
<1>2. Serves BY <1>1, FitsAre, ServerStays
<1>3. tokens \in Nat /\ MaxTokens[mode] \in Nat /\ 0 \in Nat BY FitsAre, WireIs DEF TypeInv
<1>4. tokens' \in 0 .. MaxTokens[mode] BY <1>1, <1>3
<1>5. Told(server, 0, 0) /\ Known(mode, server, 0)
  BY FitsAre, ServerIs DEF Told, Known, ServerFits
<1>6. RequestsFit' /\ request' \in [Slots -> RequestType] BY <1>1, <1>2, FitsAre, RequestsStay
<1>7. OursStay BY <1>1 DEF OursStay
<1>8. WorkerFits' /\ jobs' \in Nat /\ worker' \in WorkerType
  BY <1>1, <1>2, FitsAre, WorkerStays DEF Serves
<1>9. WireType' /\ WireFits' /\ LeftFits' /\ Arrives'
  BY <1>1, <1>3, <1>4, <1>5, <1>7, Publishes
<1>10. breaks' \in 0 .. MaxBreaks[mode] /\ UNCHANGED studio BY <1>1, FitsAre
<1> QED BY <1>2, <1>6, <1>7, <1>8, <1>9, <1>10, OffPage

LEMMA WorkerPublishesKeeps == ASSUME IInv, WorkerPublishes PROVE IInv'
<1>1. /\ worker.pc = "publish" /\ worker' = Idle
      /\ UNCHANGED <<mode, server, request, jobs, tokens, studio, breaks>>
      /\ PublishFrame(worker.turn, worker.gate) \/ PublishNothing
  BY DEF WorkerPublishes
<1>2. Serves BY <1>1, FitsAre, ServerStays
<1>3. /\ mode = "arq" /\ Told(server, worker.turn, worker.gate)
      /\ worker.turn \in Nat /\ worker.gate \in Nat
  BY <1>1, FitsAre, Zeros DEF WorkerFits, WorkerType
<1>4. Known(mode, server, worker.gate) BY <1>3 DEF Known
<1>5. RequestsFit' /\ request' \in [Slots -> RequestType] BY <1>1, <1>2, FitsAre, RequestsStay
<1>6. OursStay BY <1>1 DEF OursStay
<1>7. worker' \in WorkerType /\ worker'.pc = "idle" BY <1>1, Zeros DEF Idle, WorkerType
<1>8. WorkerFits' /\ jobs' \in Nat BY <1>1, <1>3, <1>7, FitsAre DEF WorkerFits
<1>9. tokens' \in 0 .. MaxTokens[mode] BY <1>1, FitsAre DEF TypeInv, WireType
<1>10. WireType' /\ WireFits' /\ LeftFits' /\ Arrives'
  BY <1>1, <1>2, <1>3, <1>4, <1>6, <1>9, TurnPublished
<1>11. breaks' \in 0 .. MaxBreaks[mode] /\ UNCHANGED studio BY <1>1, FitsAre
<1> QED BY <1>2, <1>5, <1>6, <1>7, <1>8, <1>10, <1>11, OffPage


\* The history expires.
LEMMA ExpireKeeps == ASSUME IInv, Expire PROVE IInv'
<1>1. /\ frames' = <<>> /\ conn' = conn
      /\ UNCHANGED <<mode, server, request, jobs, worker, published, tokens, studio, breaks>>
  BY DEF Expire
<1>2. Serves BY <1>1, FitsAre, ServerStays
<1>3. RequestsFit' /\ request' \in [Slots -> RequestType] BY <1>1, <1>2, FitsAre, RequestsStay
<1>4. OursStay BY <1>1 DEF OursStay
<1>5. WorkerFits' /\ jobs' \in Nat /\ worker' \in WorkerType
  BY <1>1, <1>2, FitsAre, WorkerStays DEF Serves
<1>6. frames' \in Seq(Frames) /\ Len(frames') = 0 BY <1>1
<1>7. WireType' BY <1>1, <1>6, FitsAre, Bounds DEF TypeInv, WireType
<1>8. WireFits' BY <1>1, <1>6, FitsAre DEF WireFits, AllHonest, Ordered
<1>9. LeftFits' BY <1>1, <1>4, FitsAre, LeftStays
<1>10. Arrives' BY <1>6 DEF Arrives, Owed, Has
<1>11. breaks' \in 0 .. MaxBreaks[mode] /\ UNCHANGED studio BY <1>1, FitsAre
<1> QED BY <1>2, <1>3, <1>4, <1>5, <1>7, <1>8, <1>9, <1>10, <1>11, OffPage

-----------------------------------------------------------------------------
(* The sockets.                                                            *)

\* Only the sockets change, and those that hear what is owed have it.
LEMMA SocketsGo ==
  ASSUME IInv, UNCHANGED <<mode, server, request, jobs, worker, frames, published, tokens, studio>>,
         breaks' \in 0 .. MaxBreaks[mode], conn' \in [Conns -> ConnType],
         \A c \in Conns : ConnFits(mode, server, published, conn'[c]),
         studio.view # "here" => \A c \in Conns :
             /\ conn[c].pc = "off" => conn'[c].pc = "off"
             /\ conn[c].left => conn'[c].pc = "off" \/ conn'[c].left,
         Owed => \A c \in Conns : Hearing(conn'[c]) => Has(conn'[c].buffer, server.turns)
  PROVE  IInv'
<1>1. Serves BY FitsAre, ServerStays
<1>2. RequestsFit' /\ request' \in [Slots -> RequestType] BY <1>1, FitsAre, RequestsStay
<1>3. OursStay BY DEF OursStay
<1>4. WorkerFits' /\ jobs' \in Nat /\ worker' \in WorkerType
  BY <1>1, FitsAre, WorkerStays DEF Serves
<1>5. UNCHANGED <<frames, published, tokens>> /\ UNCHANGED studio /\ Moves BY <1>1 DEF Serves
<1>6. \A c \in Conns : ConnFits(mode', server', published, conn'[c]) OBVIOUS
<1>7. WireType' /\ WireFits' BY <1>5, <1>6, FitsAre, ConnsGo
<1>8. LeftFits' BY <1>3, <1>5, FitsAre, LeftStays
<1>9. Arrives' BY DEF Arrives, Owed
<1> QED BY <1>1, <1>2, <1>3, <1>4, <1>5, <1>7, <1>8, <1>9, OffPage

LEMMA OffFits ==
    /\ Off \in ConnType /\ Off.pc = "off" /\ Off.left = FALSE
    /\ \A m, sv : \A upto \in Nat : ConnFits(m, sv, upto, Off)
<1>1. <<>> \in Seq(Frames) /\ Len(<<>>) = 0 OBVIOUS
<1>2. /\ Off \in ConnType /\ Off.pc = "off" /\ Off.left = FALSE /\ Off.buffer = <<>> /\ Off.seen = 0
  BY <1>1 DEF Off, ConnType
<1>3. \A m, sv : AllHonest(m, sv, <<>>) BY <1>1 DEF AllHonest
<1>4. \A upto \in Nat : Ordered(<<>>, 0, upto) BY <1>1 DEF Ordered
<1> QED BY <1>2, <1>3, <1>4 DEF ConnFits

\* What becomes of one that is left, and of one that closes.
LEMMA LeaveIs ==
  ASSUME NEW k \in ConnType, NEW m, NEW sv, NEW upto \in Nat, ConnFits(m, sv, upto, k)
  PROVE  /\ Leave(k) \in ConnType /\ ConnFits(m, sv, upto, Leave(k))
         /\ Leave(k).pc = "off" \/ Leave(k).left
         /\ k.pc = "off" => Leave(k).pc = "off"
         /\ k.pc # "lost" /\ ~k.left => Leave(k).pc = "off"
         /\ ~Hearing(Leave(k))
<1>1. CASE k.pc = "lost"
  <2>1. Leave(k) = [k EXCEPT !.left = TRUE] BY <1>1 DEF Leave
  <2>2. /\ Leave(k) \in ConnType /\ Leave(k).left = TRUE /\ Leave(k).pc = "lost"
        /\ Leave(k).buffer = k.buffer /\ Leave(k).seen = k.seen
    BY <1>1, <2>1 DEF ConnType
  <2> QED BY <1>1, <2>2 DEF ConnFits, Hearing
<1>2. CASE k.pc # "lost" /\ k.left BY <1>2 DEF Leave, Hearing
<1>3. CASE k.pc # "lost" /\ ~k.left BY <1>3, OffFits DEF Leave, Hearing
<1> QED BY <1>1, <1>2, <1>3

LEMMA ShutIs ==
  ASSUME NEW k \in ConnType, NEW m, NEW sv, NEW upto \in Nat, ConnFits(m, sv, upto, k)
  PROVE  /\ Shut(k) \in ConnType /\ ConnFits(m, sv, upto, Shut(k))
         /\ k.pc = "off" => Shut(k).pc = "off"
         /\ k.left => Shut(k).pc = "off" \/ Shut(k).left
         /\ ~Hearing(Shut(k))
<1>1. CASE k.pc \in {"off", "lost"} BY <1>1 DEF Shut, Hearing
<1>2. CASE k.pc \notin {"off", "lost"} /\ k.left BY <1>2, OffFits DEF Shut, Hearing
<1>3. CASE k.pc \notin {"off", "lost"} /\ ~k.left
  <2>1. Shut(k) = [Off EXCEPT !.pc = "lost"] BY <1>3 DEF Shut
  <2>2. /\ Shut(k) \in ConnType /\ Shut(k).pc = "lost" /\ Shut(k).buffer = <<>> /\ Shut(k).seen = 0
    BY <2>1, OffFits DEF Off, ConnType
  <2>3. Off.buffer = <<>> /\ Off.seen = 0 BY DEF Off
  <2>4. ConnFits(m, sv, upto, Off) BY OffFits
  <2>5. ConnFits(m, sv, upto, Shut(k)) BY <2>2, <2>3, <2>4 DEF ConnFits
  <2> QED BY <1>3, <2>2, <2>5 DEF Hearing
<1> QED BY <1>1, <1>2, <1>3

LEMMA SocketIs ==
  ASSUME IInv, NEW c \in Conns
  PROVE  /\ conn \in [Conns -> ConnType] /\ conn[c] \in ConnType
         /\ ConnFits(mode, server, published, conn[c])
         /\ published \in Nat /\ frames \in Seq(Frames)
         /\ AllHonest(mode, server, frames) /\ Ordered(frames, 0, published)
  BY FitsAre, WireIs DEF WireFits, TypeInv


\* One socket changes.
LEMMA OneSocket ==
  ASSUME IInv, NEW c \in Conns, NEW k \in ConnType, conn' = [conn EXCEPT ![c] = k],
         UNCHANGED <<mode, server, request, jobs, worker, frames, published, tokens, studio>>,
         breaks' \in 0 .. MaxBreaks[mode], ConnFits(mode, server, published, k),
         studio.view # "here" =>
             /\ conn[c].pc = "off" => k.pc = "off"
             /\ conn[c].left => k.pc = "off" \/ k.left,
         Owed /\ Hearing(k) => Has(k.buffer, server.turns)
  PROVE  IInv'
<1>1. conn' \in [Conns -> ConnType] /\ \A d \in Conns : conn'[d] = IF d = c THEN k ELSE conn[d]
  BY SocketIs
<1>2. \A d \in Conns : ConnFits(mode, server, published, conn'[d]) BY <1>1, SocketIs
<1>3. studio.view # "here" => \A d \in Conns :
          /\ conn[d].pc = "off" => conn'[d].pc = "off"
          /\ conn[d].left => conn'[d].pc = "off" \/ conn'[d].left
  BY <1>1
<1>4. Owed => \A d \in Conns : Hearing(conn'[d]) => Has(conn'[d].buffer, server.turns)
  BY <1>1, FitsAre DEF Arrives
<1> QED BY <1>1, <1>2, <1>3, <1>4, SocketsGo

LEMMA ConnectKeeps == ASSUME IInv, NEW c \in Conns, Connect(c) PROVE IInv'
<1> DEFINE pc == IF mode = "memory" THEN "live" ELSE "replayed"
           k == [conn[c] EXCEPT !.pc = pc, !.buffer = frames]
<1>1. /\ Opens(c) /\ conn' = [conn EXCEPT ![c] = k]
      /\ UNCHANGED <<mode, server, request, jobs, worker, frames, published, tokens, studio>>
      /\ breaks' \in 0 .. MaxBreaks[mode]
  BY FitsAre DEF Connect
<1>2. pc \in {"live", "replayed"} OBVIOUS
<1> HIDE DEF pc
<1>3. /\ k \in ConnType /\ k.pc = pc /\ k.buffer = frames
      /\ k.left = conn[c].left /\ k.seen = conn[c].seen
  BY <1>2, SocketIs DEF ConnType
<1> HIDE DEF k
<1>4. conn[c].pc \in {"off", "lost"} BY <1>1 DEF Opens
<1>5. conn[c].seen = 0 BY <1>4, SocketIs DEF ConnFits
<1>6. ConnFits(mode, server, published, k) BY <1>2, <1>3, <1>5, SocketIs DEF ConnFits
<1>7. studio.view # "here" =>
          /\ conn[c].pc = "off" => k.pc = "off"
          /\ conn[c].left => k.pc = "off" \/ k.left
  BY <1>1, <1>3 DEF Opens
<1>8. Owed /\ Hearing(k) => Has(k.buffer, server.turns) BY <1>3 DEF Owed
<1> QED BY <1>1, <1>3, <1>6, <1>7, <1>8, OneSocket

LEMMA SubscribeKeeps == ASSUME IInv, NEW c \in Conns, Subscribe(c) PROVE IInv'
<1> DEFINE k == [conn[c] EXCEPT !.pc = "live"]
<1>1. /\ conn[c].pc = "replayed" /\ conn' = [conn EXCEPT ![c] = k]
      /\ UNCHANGED <<mode, server, request, jobs, worker, frames, published, tokens, studio>>
      /\ breaks' \in 0 .. MaxBreaks[mode]
  BY FitsAre DEF Subscribe
<1>2. /\ k \in ConnType /\ k.pc = "live" /\ k.buffer = conn[c].buffer
      /\ k.left = conn[c].left /\ k.seen = conn[c].seen /\ k.gap = conn[c].gap
  BY SocketIs DEF ConnType
<1> HIDE DEF k
<1>3. ConnFits(mode, server, published, k) BY <1>2, SocketIs DEF ConnFits
<1>4. studio.view # "here" =>
          /\ conn[c].pc = "off" => k.pc = "off"
          /\ conn[c].left => k.pc = "off" \/ k.left
  BY <1>1, <1>2
<1>5. Owed /\ Hearing(k) => Has(k.buffer, server.turns)
  BY <1>1, <1>2, FitsAre DEF Arrives, Hearing
<1> QED BY <1>1, <1>2, <1>3, <1>4, <1>5, OneSocket

LEMMA DropKeeps == ASSUME IInv, NEW c \in Conns, Drop(c) PROVE IInv'
<1> DEFINE k == Shut(conn[c])
<1>1. /\ conn' = [conn EXCEPT ![c] = k] /\ breaks < MaxBreaks[mode] /\ breaks' = breaks + 1
      /\ UNCHANGED <<mode, server, request, jobs, worker, frames, published, tokens, studio>>
  BY DEF Drop
<1>2. breaks' \in 0 .. MaxBreaks[mode] BY <1>1, FitsAre
<1>3. /\ k \in ConnType /\ ConnFits(mode, server, published, k)
      /\ conn[c].pc = "off" => k.pc = "off"
      /\ conn[c].left => k.pc = "off" \/ k.left
      /\ ~Hearing(k)
  BY SocketIs, ShutIs
<1> HIDE DEF k
<1> QED BY <1>1, <1>2, <1>3, OneSocket

LEMMA AllLeave ==
  ASSUME IInv, conn' = [c \in Conns |-> Leave(conn[c])]
  PROVE  /\ conn' \in [Conns -> ConnType]
         /\ \A c \in Conns : /\ conn'[c] = Leave(conn[c])
                             /\ ConnFits(mode, server, published, conn'[c])
                             /\ conn'[c].pc = "off" \/ conn'[c].left
                             /\ conn[c].pc # "lost" /\ ~conn[c].left => conn'[c].pc = "off"
                             /\ ~Hearing(conn'[c])
<1>1. \A c \in Conns : conn'[c] = Leave(conn[c]) OBVIOUS
<1>2. ASSUME NEW c \in Conns
      PROVE  /\ Leave(conn[c]) \in ConnType
             /\ ConnFits(mode, server, published, Leave(conn[c]))
             /\ Leave(conn[c]).pc = "off" \/ Leave(conn[c]).left
             /\ conn[c].pc # "lost" /\ ~conn[c].left => Leave(conn[c]).pc = "off"
             /\ ~Hearing(Leave(conn[c]))
  BY SocketIs, LeaveIs
<1> QED BY <1>1, <1>2

LEMMA RemountKeeps == ASSUME IInv, Remount PROVE IInv'
<1>1. /\ studio.view = "here" /\ breaks < MaxBreaks[mode] /\ breaks' = breaks + 1
      /\ conn' = [c \in Conns |-> Leave(conn[c])]
      /\ UNCHANGED <<mode, server, request, jobs, worker, frames, published, tokens, studio>>
  BY DEF Remount
<1>2. breaks' \in 0 .. MaxBreaks[mode] BY <1>1, FitsAre
<1>3. /\ conn' \in [Conns -> ConnType]
      /\ \A c \in Conns : ConnFits(mode, server, published, conn'[c]) /\ ~Hearing(conn'[c])
  BY <1>1, AllLeave
<1> QED BY <1>1, <1>2, <1>3, SocketsGo

LEMMA RestartKeeps == ASSUME IInv, Restart PROVE IInv'
<1>1. PICK gone \in {server.gone, TRUE} :
          server' = [server EXCEPT !.open = {}, !.known = {},
                                   !.since = server.turns, !.gone = gone,
                                   !.current = IF gone THEN 0 ELSE @]
  BY DEF Restart
<1>2. /\ breaks < MaxBreaks[mode] /\ breaks' = breaks + 1
      /\ request' = [s \in Slots |->
             IF request[s].pc \in {"sent", "turn", "publish"}
             THEN [request[s] EXCEPT !.pc = "error"] ELSE request[s]]
      /\ frames' = (IF mode = "memory" THEN <<>> ELSE frames)
      /\ conn' = [c \in Conns |-> Shut(conn[c])]
      /\ UNCHANGED <<jobs, worker, published, tokens, studio>> /\ mode' = mode
  BY DEF Restart
<1>3. Serves BY <1>1, <1>2, FitsAre, ServerRestarts
<1>4. \A s \in Slots : /\ request'[s] \in RequestType
                       /\ RequestFits(mode', server', request'[s])
                       /\ Ours(request'[s]) <=> Ours(request[s])
                       /\ request'[s].kind = request[s].kind
  <2> TAKE s \in Slots
  <2>1. request[s] \in RequestType /\ RequestFits(mode', server', request[s])
    BY <1>3, FitsAre, RequestMoves, RequestIs DEF RequestsFit
  <2>2. CASE request[s].pc \in {"sent", "turn", "publish"}
    <3> DEFINE r == [request[s] EXCEPT !.pc = "error"]
    <3>1. /\ r \in RequestType /\ r.pc = "error" /\ r.gate = request[s].gate
          /\ r.kind = request[s].kind /\ r.mine = request[s].mine
      BY <2>1 DEF RequestType
    <3>2. request'[s] = r BY <1>2, <2>2
    <3> HIDE DEF r
    <3> QED BY <2>1, <2>2, <3>1, <3>2 DEF RequestFits, Ours
  <2>3. CASE request[s].pc \notin {"sent", "turn", "publish"}
    <3>1. request'[s] = request[s] BY <1>2, <2>3
    <3> QED BY <2>1, <3>1
  <2> QED BY <2>2, <2>3
<1>5. RequestsFit' /\ request' \in [Slots -> RequestType] /\ OursStay
  BY <1>2, <1>4 DEF RequestsFit, OursStay
<1>6. WorkerFits' /\ jobs' \in Nat /\ worker' \in WorkerType
  BY <1>2, <1>3, FitsAre, WorkerStays DEF Serves
<1>7. \A c \in Conns : /\ conn'[c] \in ConnType
                       /\ ConnFits(mode', server', published, conn'[c])
                       /\ conn[c].pc = "off" => conn'[c].pc = "off"
                       /\ conn[c].left => conn'[c].pc = "off" \/ conn'[c].left
                       /\ ~Hearing(conn'[c])
  <2> TAKE c \in Conns
  <2>1. ConnFits(mode', server', published, conn[c]) /\ conn[c] \in ConnType /\ published \in Nat
    BY <1>3, FitsAre, SocketIs, ConnMoves DEF Serves
  <2>2. conn'[c] = Shut(conn[c]) BY <1>2
  <2> QED BY <2>1, <2>2, ShutIs
<1>8. /\ frames' \in Seq(Frames) /\ (mode # "memory" => Len(frames') <= Cap)
      /\ AllHonest(mode', server', frames') /\ Ordered(frames', 0, published)
  <2>1. CASE mode = "memory"
    <3>1. frames' = <<>> /\ Len(<<>>) = 0 BY <1>2, <2>1
    <3> QED BY <2>1, <3>1 DEF AllHonest, Ordered
  <2>2. CASE mode # "memory"
    <3>1. frames' = frames BY <1>2, <2>2
    <3>2. frames \in Seq(Frames) /\ AllHonest(mode, server, frames) /\ Ordered(frames, 0, published)
          /\ Len(frames) <= Cap
      BY <2>2, FitsAre DEF WireFits, TypeInv, WireType
    <3>3. AllHonest(mode', server', frames) BY <1>3, <3>2, FitsAre, AllHonestMoves DEF Serves
    <3> QED BY <3>1, <3>2, <3>3
  <2> QED BY <2>1, <2>2
<1>9. WireType'
  <2>1. conn' \in [Conns -> ConnType] BY <1>2, <1>7
  <2> QED BY <1>2, <1>8, <2>1, FitsAre DEF TypeInv, WireType
<1>10. WireFits' BY <1>2, <1>7, <1>8 DEF WireFits
<1>11. LeftFits' BY <1>2, <1>5, <1>7, FitsAre, LeftStays
<1>12. Arrives' BY <1>7 DEF Arrives, Hearing
<1>13. breaks' \in 0 .. MaxBreaks[mode] /\ UNCHANGED studio BY <1>2, FitsAre
<1> QED BY <1>3, <1>5, <1>6, <1>9, <1>10, <1>11, <1>12, <1>13, OffPage


-----------------------------------------------------------------------------
(* The page.                                                               *)

\* A request and what is shown change, and no frame or socket.
LEMMA PageGoes ==
  ASSUME IInv, Serves, server'.turns = server.turns, UNCHANGED <<jobs, worker, wire>>,
         RequestsFit', request' \in [Slots -> RequestType],
         studio' \in StudioType, breaks' \in 0 .. MaxBreaks[mode],
         ViewFits', LeftFits', PendingFits', Owed' => Owed
  PROVE  IInv'
<1>1. Moves /\ mode' = mode /\ UNCHANGED worker /\ UNCHANGED wire /\ jobs' = jobs
  BY DEF Serves, Moves
<1>2. WorkerFits' /\ jobs' \in Nat /\ worker' \in WorkerType BY <1>1, FitsAre, WorkerStays
<1>3. WireType' /\ WireFits' BY <1>1, FitsAre, WireStays
<1>4. Arrives' BY <1>1, FitsAre DEF Arrives, wire
<1>5. TypeInv' BY <1>1, <1>2, <1>3 DEF TypeInv, Serves
<1> QED BY <1>2, <1>3, <1>4, <1>5 DEF IInv, Fits, Serves

\* A request that will replace what is shown.
LEMMA AskingKeeps ==
  ASSUME IInv, Serves, server'.turns = server.turns, NEW s \in Slots,
         NEW kind \in {"start", "open", "visit"}, Send(s, kind, TRUE, 0), studio' = Asking,
         UNCHANGED <<jobs, worker, wire>>, breaks' \in 0 .. MaxBreaks[mode]
  PROVE  IInv'
<1> DEFINE r == Sent(kind, TRUE, 0)
<1>1. request[s].pc = "free" /\ request' = [request EXCEPT ![s] = r] BY DEF Send, Sent
<1>2. r \in RequestType /\ r.pc = "sent" /\ r.gate = 0 /\ r.kind = kind /\ Ours(r)
  BY Zeros DEF Sent, RequestType, Ours
<1> HIDE DEF r
<1>3. Known(mode, server, 0) /\ Known(mode', server', 0)
  <2>1. 0 \in Int /\ Known(mode, server, 0) BY FitsAre, ServerIs DEF Known
  <2> QED BY <2>1 DEF Serves, Moves
<1>4. RequestsFit' /\ request' \in [Slots -> RequestType] BY <1>1, <1>2, <1>3, Sends
<1>5. (Answers' <=> Answers) /\ Expects' BY <1>1, <1>2, FitsAre, OursGrow
<1>6. /\ studio' \in StudioType /\ studio'.view = studio.view /\ studio'.pending = 0
      /\ studio'.at = studio.at /\ studio'.left = studio.left
      /\ studio'.excuse = Because("cleared")
      /\ Because("cleared") \in {"crossed", "blind", "cleared"}
      /\ studio.excuse \in {"crossed", "blind"} => studio'.excuse \in {"crossed", "blind"}
  BY FitsAre, StudioIs, Zeros DEF Asking, Because, StudioType
<1>7. ViewFits' BY <1>3, <1>5, <1>6, FitsAre DEF ViewFits
<1>8. conn' = conn /\ frames' = frames BY DEF wire
<1>9. LeftFits' BY <1>5, <1>6, <1>8, FitsAre DEF LeftFits
<1>10. PendingFits' BY <1>6 DEF PendingFits
<1>11. Owed' => Owed BY <1>6, <1>8 DEF Owed
<1> QED BY <1>4, <1>6, <1>7, <1>9, <1>10, <1>11, PageGoes

LEMMA StartKeeps == ASSUME IInv, NEW s \in Slots, Start(s) PROVE IInv'
<1>1. /\ mode' = mode /\ server' = [server EXCEPT !.begun = TRUE]
      /\ Send(s, "start", TRUE, 0) /\ studio' = Asking /\ UNCHANGED <<jobs, worker, wire>>
      /\ breaks' \in 0 .. MaxBreaks[mode]
  BY FitsAre DEF Start
<1>2. Serves /\ server'.turns = server.turns BY <1>1, FitsAre, ServerBegins DEF ServerType
<1> QED BY <1>1, <1>2, AskingKeeps

LEMMA VisitKeeps == ASSUME IInv, NEW s \in Slots, Visit(s) PROVE IInv'
<1>1. /\ UNCHANGED <<mode, server>>
      /\ Send(s, "visit", TRUE, 0) /\ studio' = Asking /\ UNCHANGED <<jobs, worker, wire>>
      /\ breaks < MaxBreaks[mode] /\ breaks' = breaks + 1
  BY DEF Visit
<1>2. Serves /\ server'.turns = server.turns BY <1>1, FitsAre, ServerStays
<1>3. breaks' \in 0 .. MaxBreaks[mode] BY <1>1, FitsAre
<1> QED BY <1>1, <1>2, <1>3, AskingKeeps

LEMMA OpenThreadKeeps == ASSUME IInv, NEW s \in Slots, OpenThread(s) PROVE IInv'
<1>1. /\ UNCHANGED <<mode, server>>
      /\ Send(s, "open", TRUE, 0) /\ studio' = Asking /\ UNCHANGED <<jobs, worker, wire>>
      /\ breaks < MaxBreaks[mode] /\ breaks' = breaks + 1
  BY DEF OpenThread
<1>2. Serves /\ server'.turns = server.turns BY <1>1, FitsAre, ServerStays
<1>3. breaks' \in 0 .. MaxBreaks[mode] BY <1>1, FitsAre
<1> QED BY <1>1, <1>2, <1>3, AskingKeeps

\* A request that leaves what is shown where it is: an answer, to what is
\* shown, or one that no turn of the thread runs for.
LEMMA AnsweringKeeps ==
  ASSUME IInv, NEW s \in Slots, NEW kind \in {"resolve", "aside", "continue"}, NEW gate \in Nat,
         Known(mode, server, gate), kind = "resolve" => studio.pending \notin {0, Foreign},
         Send(s, kind, TRUE, gate), studio' = [studio EXCEPT !.busy = TRUE],
         UNCHANGED <<mode, server, jobs, worker, wire>>, breaks' \in 0 .. MaxBreaks[mode]
  PROVE  IInv'
<1> DEFINE r == Sent(kind, TRUE, gate)
<1>1. request[s].pc = "free" /\ request' = [request EXCEPT ![s] = r] BY DEF Send, Sent
<1>2. r \in RequestType /\ r.pc = "sent" /\ r.gate = gate /\ r.kind = kind /\ Ours(r)
  BY Zeros DEF Sent, RequestType, Ours
<1> HIDE DEF r
<1>3. Serves /\ server'.turns = server.turns BY FitsAre, ServerStays
<1>4. RequestsFit' /\ request' \in [Slots -> RequestType] BY <1>1, <1>2, <1>3, Sends
<1>5. /\ Answers' <=> Answers \/ kind = "resolve"
      /\ Expects => Expects'
  BY <1>1, <1>2, FitsAre, OursGrow
<1>6. /\ studio' \in StudioType /\ studio'.view = studio.view /\ studio'.pending = studio.pending
      /\ studio'.at = studio.at /\ studio'.left = studio.left /\ studio'.excuse = studio.excuse
  BY FitsAre, StudioIs DEF StudioType
<1>7. ViewFits' BY <1>5, <1>6, FitsAre DEF ViewFits
<1>8. conn' = conn /\ frames' = frames BY DEF wire
<1>9. LeftFits' BY <1>5, <1>6, <1>8, FitsAre DEF LeftFits
<1>10. PendingFits' BY <1>6, FitsAre DEF PendingFits
<1>11. Owed' => Owed BY <1>6, <1>8 DEF Owed
<1> QED BY <1>3, <1>4, <1>6, <1>7, <1>9, <1>10, <1>11, PageGoes

LEMMA AnswerKeeps == ASSUME IInv, NEW s \in Slots, Answer(s) PROVE IInv'
<1> DEFINE gate == studio.pending
<1>1. /\ UNCHANGED <<mode, server, jobs, worker, wire>> /\ gate \notin {0, Foreign}
      /\ Send(s, "resolve", TRUE, gate) /\ studio' = [studio EXCEPT !.busy = TRUE]
      /\ breaks' \in 0 .. MaxBreaks[mode]
  BY FitsAre DEF Answer
<1>2. gate \in Nat /\ Known(mode, server, gate) BY <1>1, FitsAre, StudioIs DEF ViewFits
<1> QED BY <1>1, <1>2, AnsweringKeeps

LEMMA AnswerAfarKeeps == ASSUME IInv, NEW s \in Slots, AnswerAfar(s) PROVE IInv'
<1>1. /\ UNCHANGED <<mode, server, jobs, worker, wire>>
      /\ Send(s, "aside", TRUE, 0) /\ studio' = [studio EXCEPT !.busy = TRUE]
      /\ breaks < MaxBreaks[mode] /\ breaks' = breaks + 1
  BY DEF AnswerAfar
<1>2. breaks' \in 0 .. MaxBreaks[mode] BY <1>1, FitsAre
<1>3. 0 \in Nat /\ Known(mode, server, 0) BY FitsAre, ServerIs DEF Known
<1> QED BY <1>1, <1>2, <1>3, AnsweringKeeps

LEMMA ContinueKeeps == ASSUME IInv, NEW s \in Slots, Continue(s) PROVE IInv'
<1>1. /\ UNCHANGED <<mode, server, jobs, worker, wire>>
      /\ Send(s, "continue", TRUE, 0) /\ studio' = [studio EXCEPT !.busy = TRUE]
      /\ breaks < MaxBreaks[mode] /\ breaks' = breaks + 1
  BY DEF Continue
<1>2. breaks' \in 0 .. MaxBreaks[mode] BY <1>1, FitsAre
<1>3. 0 \in Nat /\ Known(mode, server, 0) BY FitsAre, ServerIs DEF Known
<1> QED BY <1>1, <1>2, <1>3, AnsweringKeeps


\* Nothing of this thread is due to a page that has left it without reason.
LEMMA LingersNot ==
  ASSUME ~Lingers
  PROVE  ~Answers /\ \A c \in Conns : conn[c].pc # "lost" /\ ~conn[c].left
  BY DEF Lingers, InFlight, Answers, Mine

LEMMA NewThreadKeeps == ASSUME IInv, NewThread PROVE IInv'
<1>1. /\ studio' = [Blank EXCEPT !.left = Lingers]
      /\ conn' = [c \in Conns |-> Leave(conn[c])]
      /\ UNCHANGED <<mode, server, request, jobs, worker, frames, published, tokens, breaks>>
  BY DEF NewThread
<1>2. Serves BY <1>1, FitsAre, ServerStays
<1>3. RequestsFit' /\ request' \in [Slots -> RequestType] BY <1>1, <1>2, FitsAre, RequestsStay
<1>4. WorkerFits' /\ jobs' \in Nat /\ worker' \in WorkerType
  BY <1>1, <1>2, FitsAre, WorkerStays DEF Serves
<1>5. /\ conn' \in [Conns -> ConnType]
      /\ \A c \in Conns : /\ ConnFits(mode', server', published, conn'[c])
                          /\ conn'[c].pc = "off" \/ conn'[c].left
                          /\ conn[c].pc # "lost" /\ ~conn[c].left => conn'[c].pc = "off"
  BY <1>1, AllLeave
<1>6. WireType' /\ WireFits' BY <1>1, <1>2, <1>5, FitsAre, ConnsGo DEF Serves
<1>7. Lingers \in BOOLEAN BY DEF Lingers
<1>8. /\ studio' \in StudioType /\ studio'.view = "none" /\ studio'.pending = 0
      /\ studio'.at = 0 /\ studio'.excuse = "none" /\ studio'.left = Lingers
  BY <1>1, <1>7, Zeros DEF Blank, StudioType
<1>9. ViewFits' BY <1>1, <1>8, FitsAre, ServerIs DEF ViewFits, Known
<1>10. Answers' <=> Answers BY <1>1 DEF Answers, Mine
<1>11. LeftFits' BY <1>5, <1>8, <1>10, LingersNot DEF LeftFits
<1>12. PendingFits' /\ Arrives' BY <1>8 DEF PendingFits, Arrives, Owed
<1>13. TypeInv' BY <1>1, <1>3, <1>4, <1>6, <1>8, FitsAre DEF TypeInv
<1> QED BY <1>2, <1>3, <1>4, <1>6, <1>9, <1>11, <1>12, <1>13 DEF IInv, Fits, Serves

LEMMA ReloadKeeps == ASSUME IInv, NEW s \in Slots, Reload(s) PROVE IInv'
<1> DEFINE r == [Free EXCEPT !.pc = "sent", !.mine = TRUE,
                             !.kind = IF studio.view = "here" THEN "open" ELSE "visit"]
<1>1. /\ breaks < MaxBreaks[mode] /\ breaks' = breaks + 1
      /\ request' = [q \in Slots |-> IF q = s /\ studio.view # "none" THEN r
                                     ELSE [request[q] EXCEPT !.mine = FALSE]]
      /\ studio' = [Blank EXCEPT !.view = studio.view, !.busy = studio.view # "none",
                                 !.excuse = IF studio.view = "none" THEN "none" ELSE "cleared"]
      /\ conn' = [c \in Conns |-> Off]
      /\ UNCHANGED <<mode, server, jobs, worker, frames, published, tokens>>
  BY DEF Reload
<1>2. Serves BY <1>1, FitsAre, ServerStays
<1>3. /\ r \in RequestType /\ r.pc = "sent" /\ r.gate = 0 /\ r.kind \in {"open", "visit"} /\ Ours(r)
  BY Zeros DEF Free, RequestType, Ours
<1> HIDE DEF r
<1>4. Known(mode', server', 0) BY <1>2, FitsAre, FreeFits DEF RequestFits, Free
<1>5. RequestFits(mode', server', r) BY <1>3, <1>4 DEF RequestFits
<1>6. \A q \in Slots :
          /\ request'[q] \in RequestType /\ RequestFits(mode', server', request'[q])
          /\ Ours(request'[q]) => request'[q].kind # "resolve"
  <2> TAKE q \in Slots
  <2>1. CASE q = s /\ studio.view # "none" BY <1>1, <1>3, <1>5, <2>1
  <2>2. CASE ~(q = s /\ studio.view # "none")
    <3> DEFINE p == [request[q] EXCEPT !.mine = FALSE]
    <3>1. request[q] \in RequestType /\ RequestFits(mode', server', request[q])
      BY <1>2, FitsAre, RequestMoves, RequestIs DEF RequestsFit
    <3>2. /\ p \in RequestType /\ p.pc = request[q].pc /\ p.gate = request[q].gate
          /\ p.turn = request[q].turn /\ ~p.mine
      BY <3>1 DEF RequestType
    <3>3. request'[q] = p BY <1>1, <2>2
    <3> HIDE DEF p
    <3>4. RequestFits(mode', server', p) BY <3>1, <3>2 DEF RequestFits
    <3> QED BY <3>2, <3>3, <3>4 DEF Ours
  <2> QED BY <2>1, <2>2
<1>7. RequestsFit' /\ request' \in [Slots -> RequestType] /\ ~Answers'
  BY <1>1, <1>6, OursNext DEF RequestsFit
<1>8. studio.view # "none" => Expects' BY <1>1, <1>3, OursNext
<1>9. WorkerFits' /\ jobs' \in Nat /\ worker' \in WorkerType
  BY <1>1, <1>2, FitsAre, WorkerStays DEF Serves
<1>10. /\ conn' \in [Conns -> ConnType]
       /\ \A c \in Conns : ConnFits(mode', server', published, conn'[c]) /\ conn'[c].pc = "off"
  BY <1>1, FitsAre, WireIs, OffFits DEF TypeInv
<1>11. WireType' /\ WireFits' BY <1>1, <1>2, <1>10, FitsAre, ConnsGo DEF Serves
<1>12. /\ studio' \in StudioType /\ studio'.view = studio.view /\ studio'.pending = 0
       /\ studio'.at = 0
       /\ studio'.excuse = IF studio.view = "none" THEN "none" ELSE "cleared"
  BY <1>1, Zeros, FitsAre, StudioIs DEF Blank, StudioType
<1>13. ViewFits' BY <1>1, <1>4, <1>8, <1>12, FitsAre, ServerIs DEF ViewFits
<1>14. LeftFits' BY <1>7, <1>10, <1>12 DEF LeftFits
<1>15. PendingFits' BY <1>12 DEF PendingFits
<1>16. Arrives' BY <1>10 DEF Arrives, Hearing
<1>17. breaks' \in 0 .. MaxBreaks[mode'] BY <1>1, FitsAre
<1>18. TypeInv' BY <1>1, <1>7, <1>9, <1>11, <1>12, <1>17, FitsAre DEF TypeInv
<1> QED BY <1>2, <1>7, <1>9, <1>11, <1>13, <1>14, <1>15, <1>16, <1>18 DEF IInv, Fits, Serves

\* What another thread waits at replaces what is shown.
LEMMA IntrudeIs ==
  ASSUME IInv, NEW busy \in BOOLEAN, studio' = Intrude(busy)
  PROVE  /\ studio' \in StudioType /\ studio'.view = studio.view /\ studio'.pending = Foreign
         /\ studio'.at = studio.at /\ studio'.left = studio.left
         /\ studio.view = "here" => studio'.excuse \in {"crossed", "blind", "foreign"}
         /\ studio.excuse \in {"crossed", "blind"} => studio'.excuse \in {"crossed", "blind"}
         /\ studio'.excuse = "cleared" => studio.excuse = "cleared"
<1>1. studio' = [studio EXCEPT !.pending = Foreign, !.busy = busy,
            !.excuse = IF studio.view = "here"
                       THEN IF studio.excuse \in {"crossed", "blind"} THEN studio.excuse ELSE "foreign"
                       ELSE studio.excuse]
  BY DEF Intrude, Because
<1>2. /\ studio'.view = studio.view /\ studio'.pending = Foreign /\ studio'.busy = busy
      /\ studio'.at = studio.at /\ studio'.left = studio.left
      /\ studio'.excuse = IF studio.view = "here"
                          THEN IF studio.excuse \in {"crossed", "blind"} THEN studio.excuse ELSE "foreign"
                          ELSE studio.excuse
  BY <1>1, FitsAre, StudioIs DEF StudioType
<1>3. studio' \in StudioType BY <1>1, FitsAre, StudioIs DEF StudioType
<1> QED BY <1>2, <1>3

LEMMA IntrudeKeeps ==
  ASSUME IInv, UNCHANGED <<mode, server, jobs, worker, wire>>,
         RequestsFit', request' \in [Slots -> RequestType],
         Answers' => Answers, Expects => Expects',
         NEW busy \in BOOLEAN, studio' = Intrude(busy), breaks' \in 0 .. MaxBreaks[mode]
  PROVE  IInv'
<1>1. Serves /\ server'.turns = server.turns BY FitsAre, ServerStays
<1>2. /\ studio' \in StudioType /\ studio'.view = studio.view /\ studio'.pending = Foreign
      /\ studio'.at = studio.at /\ studio'.left = studio.left
      /\ studio.view = "here" => studio'.excuse \in {"crossed", "blind", "foreign"}
      /\ studio.excuse \in {"crossed", "blind"} => studio'.excuse \in {"crossed", "blind"}
      /\ studio'.excuse = "cleared" => studio.excuse = "cleared"
  BY IntrudeIs
<1>3. Known(mode', server', Foreign) BY Zeros, FitsAre, ServerIs DEF Known
<1>4. ViewFits' BY <1>2, <1>3, FitsAre DEF ViewFits
<1>5. conn' = conn /\ frames' = frames BY DEF wire
<1>6. LeftFits' BY <1>2, <1>5, FitsAre DEF LeftFits
<1>7. PendingFits' BY <1>2 DEF PendingFits
<1>8. Owed' => Owed BY <1>2, <1>5 DEF Owed
<1> QED BY <1>1, <1>2, <1>4, <1>6, <1>7, <1>8, PageGoes

LEMMA DeliverAfarKeeps == ASSUME IInv, DeliverAfar PROVE IInv'
<1>1. PICK busy \in {studio.busy, FALSE} : studio' = Intrude(busy) BY DEF DeliverAfar
<1>2. busy \in BOOLEAN BY FitsAre, StudioIs
<1>3. UNCHANGED <<mode, server, jobs, worker, wire>> /\ UNCHANGED request
      /\ breaks' \in 0 .. MaxBreaks[mode]
  BY FitsAre DEF DeliverAfar
<1>4. Serves BY <1>3, FitsAre, ServerStays
<1>5. RequestsFit' /\ request' \in [Slots -> RequestType] BY <1>3, <1>4, FitsAre, RequestsStay
<1>6. (Answers' => Answers) /\ (Expects => Expects') BY <1>3 DEF Answers, Expects, Mine
<1> QED BY <1>1, <1>2, <1>3, <1>5, <1>6, IntrudeKeeps


\* An outcome that is shown and is not the newest, without having crossed a
\* newer one, leaves the newest owed as it was.
LEMMA ExcusedIs ==
  ASSUME IInv, NEW turn \in Nat, turn <= server.turns
  PROVE  /\ Excused(turn) \in {"none", "crossed", "blind"}
         /\ Excused(turn) \notin {"crossed", "blind"} /\ turn # server.turns
               => studio.excuse \notin {"crossed", "blind"} /\ studio.at # server.turns
<1>1. studio.at \in Nat /\ server.turns \in Nat /\ studio.at <= server.turns
  BY FitsAre, StudioIs, ServerIs DEF ViewFits
<1>2. CASE turn = server.turns BY <1>2 DEF Excused
<1>3. CASE turn # server.turns /\ turn < studio.at BY <1>3 DEF Excused
<1>4. CASE turn # server.turns /\ ~(turn < studio.at)
  <2>1. studio.at # server.turns BY <1>1, <1>4
  <2>2. Excused(turn) = IF studio.excuse \in {"crossed", "blind"} THEN studio.excuse ELSE "none"
    BY <1>4 DEF Excused, Because
  <2> QED BY <2>1, <2>2
<1> QED BY <1>2, <1>3, <1>4

LEMMA SetPendingIs ==
  ASSUME IInv, NEW f \in Frames, f.turn <= server.turns, studio' = SetPending(f)
  PROVE  /\ studio' \in StudioType /\ studio'.view = studio.view /\ studio'.left = studio.left
         /\ studio'.pending = f.gate /\ studio'.at = f.turn /\ studio'.excuse = Excused(f.turn)
<1>1. f.turn \in Nat /\ f.gate \in Nat BY Zeros DEF Frames
<1>2. Excused(f.turn) \in {"none", "crossed", "blind"} BY <1>1, ExcusedIs
<1>3. studio \in StudioType /\ studio.busy \in BOOLEAN BY FitsAre, StudioIs
<1> DEFINE b == studio.busy /\ f.gate = 0
<1>4. b \in BOOLEAN OBVIOUS
<1>5. studio' = [studio EXCEPT !.pending = f.gate, !.at = f.turn, !.excuse = Excused(f.turn),
                               !.busy = b]
  BY DEF SetPending
<1> HIDE DEF b
<1> QED BY <1>1, <1>2, <1>3, <1>4, <1>5, Zeros DEF StudioType

LEMMA DeliverKeeps == ASSUME IInv, NEW c \in Conns, Deliver(c) PROVE IInv'
<1> DEFINE q == conn[c].buffer
           f == Head(q)
           k == [conn[c] EXCEPT !.buffer = Tail(q), !.seen = f.n,
                                !.gap = conn[c].gap /\ f.turn # server.turns]
<1>1. /\ q # <<>> /\ conn' = [conn EXCEPT ![c] = k]
      /\ studio' = IF f.turn = 0 THEN studio ELSE SetPending(f)
      /\ UNCHANGED <<mode, server, request, jobs, worker, frames, published, tokens, breaks>>
  BY DEF Deliver
<1>2. /\ conn[c] \in ConnType /\ q \in Seq(Frames) /\ conn[c].gap \in BOOLEAN
      /\ AllHonest(mode, server, q) /\ Ordered(q, conn[c].seen, published)
      /\ conn[c].pc \notin {"off", "lost"}
      /\ conn[c].seen \in Nat /\ published \in Nat
  BY <1>1, SocketIs, ConnFields DEF ConnFits
<1>3. /\ f \in Frames /\ Tail(q) \in Seq(Frames) /\ Honest(mode, server, f)
      /\ AllHonest(mode, server, Tail(q))
      /\ Ordered(Tail(q), f.n, published) /\ f.n <= published
      /\ Has(q, server.turns) /\ f.turn # server.turns => Has(Tail(q), server.turns)
  <2>1. f \in Frames /\ Tail(q) \in Seq(Frames) BY <1>1, <1>2, Tailed
  <2>2. Honest(mode, server, f) /\ AllHonest(mode, server, Tail(q)) BY <1>1, <1>2, AllHonestTail
  <2>3. Ordered(Tail(q), f.n, published) /\ f.n <= published BY <1>1, <1>2, OrderedTail
  <2>4. Has(q, server.turns) /\ f.turn # server.turns => Has(Tail(q), server.turns)
    BY <1>1, <1>2, HasTail
  <2> QED BY <2>1, <2>2, <2>3, <2>4
<1>4. f.turn \in Nat /\ f.gate \in Nat /\ f.n \in Nat /\ f.turn <= server.turns
      /\ Told(server, f.turn, f.gate) /\ Known(mode, server, f.gate)
  BY <1>3, Zeros DEF Frames, Honest, Told
<1> HIDE DEF q, f
<1>5. /\ k \in ConnType /\ k.pc = conn[c].pc /\ k.left = conn[c].left
      /\ k.buffer = Tail(q) /\ k.seen = f.n
      /\ k.gap = (conn[c].gap /\ f.turn # server.turns)
  BY <1>2, <1>3, <1>4 DEF ConnType
<1> HIDE DEF k
<1>6. conn' \in [Conns -> ConnType] /\ \A d \in Conns : conn'[d] = IF d = c THEN k ELSE conn[d]
  BY <1>1, <1>5, SocketIs
<1>7. ConnFits(mode, server, published, k) BY <1>2, <1>3, <1>5 DEF ConnFits
<1>8. Serves BY <1>1, FitsAre, ServerStays
<1>9. RequestsFit' /\ request' \in [Slots -> RequestType] BY <1>1, <1>8, FitsAre, RequestsStay
<1>10. WorkerFits' /\ jobs' \in Nat /\ worker' \in WorkerType
  BY <1>1, <1>8, FitsAre, WorkerStays DEF Serves
<1>11. WireType' /\ WireFits'
  <2>1. \A d \in Conns : ConnFits(mode', server', published, conn'[d]) BY <1>1, <1>6, <1>7, SocketIs
  <2> QED BY <1>1, <1>6, <1>8, <2>1, FitsAre, ConnsGo DEF Serves
<1>12. /\ studio' \in StudioType /\ studio'.view = studio.view /\ studio'.left = studio.left
       /\ \/ f.turn = 0 /\ studio' = studio
          \/ /\ f.turn # 0 /\ studio'.pending = f.gate /\ studio'.at = f.turn
             /\ studio'.excuse = Excused(f.turn)
  BY <1>1, <1>3, <1>4, FitsAre, StudioIs, SetPendingIs
<1>13. Excused(f.turn) \in {"none", "crossed", "blind"} BY <1>4, ExcusedIs
<1>14. ViewFits'
  <2>1. Expects' <=> Expects BY <1>1 DEF Expects, Mine
  <2> QED BY <1>1, <1>4, <1>12, <1>13, <2>1, FitsAre DEF ViewFits
<1>15. LeftFits'
  <2>1. Answers' <=> Answers BY <1>1 DEF Answers, Mine
  <2>2. \A d \in Conns : conn'[d].pc = conn[d].pc /\ conn'[d].left = conn[d].left
    BY <1>5, <1>6
  <2>3. studio.view # "here" => studio.left BY <1>2, FitsAre DEF LeftFits
  <2> QED BY <1>12, <2>1, <2>2, <2>3, FitsAre DEF LeftFits
<1>16. PendingFits' BY <1>1, <1>4, <1>12, FitsAre DEF PendingFits, Told
<1>17. Owed' => Owed /\ (f.turn = 0 \/ f.turn # server.turns)
  <2>1. CASE f.turn = 0 BY <1>1, <1>12, <2>1 DEF Owed
  <2>2. CASE f.turn # 0
    <3>1. Owed' => Excused(f.turn) \notin {"crossed", "blind"} /\ f.turn # server.turns
      BY <1>1, <1>12, <2>2 DEF Owed
    <3> QED BY <1>1, <1>4, <1>12, <3>1, ExcusedIs DEF Owed
  <2> QED BY <2>1, <2>2
<1>18. Arrives'
  <2>1. SUFFICES ASSUME Owed', NEW d \in Conns, Hearing(conn'[d])
                 PROVE  Has(conn'[d].buffer, server.turns)
    BY <1>1 DEF Arrives
  <2>2. Owed /\ f.turn # server.turns
    <3>1. server.turns # 0 BY <1>17, <2>1, FitsAre, StudioIs DEF Owed, ViewFits
    <3> QED BY <1>17, <2>1, <3>1
  <2>3. CASE d = c
    <3>1. Hearing(conn[c]) BY <1>2, <1>5, <1>6, <2>1, <2>2, <2>3 DEF Hearing
    <3>2. Has(q, server.turns) BY <2>2, <3>1, FitsAre DEF Arrives, q
    <3> QED BY <1>3, <1>5, <1>6, <2>2, <2>3, <3>2
  <2>4. CASE d # c BY <1>6, <2>1, <2>2, <2>4, FitsAre DEF Arrives
  <2> QED BY <2>3, <2>4
<1>19. TypeInv' BY <1>1, <1>9, <1>10, <1>11, <1>12, FitsAre DEF TypeInv
<1> QED BY <1>8, <1>9, <1>10, <1>11, <1>14, <1>15, <1>16, <1>18, <1>19 DEF IInv, Fits, Serves


\* A request is done with.
LEMMA Done ==
  ASSUME IInv, NEW s \in Slots, request' = [request EXCEPT ![s] = Free],
         UNCHANGED <<mode, server>>
  PROVE  /\ Serves /\ server'.turns = server.turns
         /\ RequestsFit' /\ request' \in [Slots -> RequestType]
         /\ Answers' => Answers
         /\ Expects /\ ~(Ours(request[s]) /\ request[s].kind \in {"start", "open", "visit"})
                => Expects'
         /\ ~Ours(request[s]) => OursStay
<1>1. Serves /\ server'.turns = server.turns BY FitsAre, ServerStays
<1>2. RequestsFit' /\ request' \in [Slots -> RequestType] BY <1>1, FitsAre, FreeFits, RequestGoes
<1>3. ~Ours(Free) BY DEF Ours, Free
<1>4. ~Ours(request[s]) => OursStay BY <1>3, FitsAre, OursStayAfter
<1>5. /\ Answers' => Answers
      /\ Expects => \/ Expects'
                    \/ Ours(request[s]) /\ request[s].kind \in {"start", "open", "visit"}
  BY FitsAre, OursShrink
<1> QED BY <1>1, <1>2, <1>4, <1>5

\* A request of another client is done with.
LEMMA DoneElsewhere ==
  ASSUME IInv, NEW s \in Slots, request' = [request EXCEPT ![s] = Free], ~request[s].mine,
         UNCHANGED <<mode, server>>, UNCHANGED <<jobs, worker>>, UNCHANGED <<wire, studio, breaks>>
  PROVE  IInv'
<1>1. /\ Serves /\ RequestsFit' /\ request' \in [Slots -> RequestType] /\ OursStay
  BY Done DEF Ours
<1>2. Moves /\ UNCHANGED worker /\ jobs' = jobs BY <1>1 DEF Serves
<1>3. WorkerFits' /\ jobs' \in Nat /\ worker' \in WorkerType BY <1>2, FitsAre, WorkerStays
<1> QED BY <1>1, <1>3, Backstage

LEMMA ReplyKeeps == ASSUME IInv, NEW s \in Slots, Reply(s) PROVE IInv'
<1> DEFINE turn == request[s].turn
           gate == request[s].gate
           resolve == request[s].kind = "resolve"
           excuse == IF request[s].pc = "blind" THEN "blind" ELSE Excused(turn)
<1>1. /\ request[s].pc \in {"reply", "blind"}
      /\ request' = [request EXCEPT ![s] = Free]
      /\ UNCHANGED <<mode, server>> /\ UNCHANGED <<jobs, worker>> /\ UNCHANGED <<wire, breaks>>
      /\ studio' = IF ~request[s].mine THEN studio
                   ELSE [studio EXCEPT !.pending = gate, !.at = turn, !.busy = FALSE,
                                       !.excuse = excuse,
                                       !.view = IF resolve THEN studio.view ELSE "here",
                                       !.left = studio.left /\ resolve]
  BY DEF Reply
<1>2. CASE ~request[s].mine
  <2>1. UNCHANGED <<wire, studio, breaks>> BY <1>1, <1>2
  <2> QED BY <1>1, <1>2, <2>1, DoneElsewhere
<1>3. CASE request[s].mine
  <2>1. /\ Serves /\ server'.turns = server.turns
        /\ RequestsFit' /\ request' \in [Slots -> RequestType]
        /\ Answers' => Answers
    BY <1>1, Done
  <2>2. /\ turn \in Nat /\ gate \in Nat /\ turn <= server.turns /\ Known(mode, server, gate)
        /\ request[s].pc = "reply" => Told(server, turn, gate)
    <3>1. turn \in Nat /\ gate \in Nat /\ RequestFits(mode, server, request[s])
      BY FitsAre, RequestIs DEF RequestsFit
    <3>2. Known(mode, server, gate)
          /\ (request[s].pc = "reply" => Told(server, turn, gate))
          /\ (request[s].pc = "blind" => turn <= server.turns)
      BY <3>1 DEF RequestFits
    <3> QED BY <1>1, <3>1, <3>2 DEF Told
  <2>3. resolve => Answers BY <1>1, <1>3 DEF Answers, Mine
  <2>4. /\ excuse \in {"none", "crossed", "blind"}
        /\ excuse \notin {"crossed", "blind"} => request[s].pc = "reply" /\ excuse = Excused(turn)
    BY <1>1, <2>2, ExcusedIs
  <2>5. resolve \in BOOLEAN OBVIOUS
  <2> HIDE DEF turn, gate, resolve, excuse
  <2>6. studio' = [studio EXCEPT !.pending = gate, !.at = turn, !.busy = FALSE,
                                 !.excuse = excuse,
                                 !.view = IF resolve THEN studio.view ELSE "here",
                                 !.left = studio.left /\ resolve]
    BY <1>1, <1>3
  <2>7. /\ studio'.pending = gate /\ studio'.at = turn /\ studio'.excuse = excuse
        /\ studio'.view = (IF resolve THEN studio.view ELSE "here")
        /\ studio'.left = (studio.left /\ resolve) /\ studio'.busy = FALSE
    BY <2>6, FitsAre, StudioIs DEF StudioType
  <2>8. studio' \in StudioType
    <3>1. (IF resolve THEN studio.view ELSE "here") \in {"none", "here", "away"}
          /\ (studio.left /\ resolve) \in BOOLEAN
      BY <2>5, FitsAre, StudioIs
    <3>2. excuse \in {"none", "cleared", "failed", "crossed", "blind", "foreign"}
          /\ gate \in Gates \cup {Foreign} /\ turn \in Turns
      BY <2>2, <2>4, Zeros
    <3> DEFINE view == IF resolve THEN studio.view ELSE "here"
               left == studio.left /\ resolve
    <3>3. /\ view \in {"none", "here", "away"} /\ left \in BOOLEAN
          /\ studio' = [studio EXCEPT !.pending = gate, !.at = turn, !.busy = FALSE,
                                      !.excuse = excuse, !.view = view, !.left = left]
      BY <2>6, <3>1
    <3> HIDE DEF view, left
    <3>4. studio \in StudioType BY FitsAre, StudioIs
    <3> QED BY <3>2, <3>3, <3>4 DEF StudioType
  <2>9. ViewFits' BY <1>1, <2>2, <2>4, <2>7 DEF ViewFits
  <2>10. conn' = conn /\ frames' = frames BY <1>1 DEF wire
  <2>11. LeftFits'
    <3>1. studio'.view # "here" => studio.view # "here" /\ resolve /\ studio.left /\ studio'.left
      BY <2>3, <2>5, <2>7, FitsAre DEF LeftFits
    <3> QED BY <2>10, <3>1, FitsAre DEF LeftFits
  <2>12. PendingFits' BY <1>1, <2>2, <2>4, <2>7 DEF PendingFits, Told
  <2>13. Arrives'
    <3>1. CASE studio.view = "here"
      <4>1. Owed' => Owed BY <1>1, <2>2, <2>4, <2>7, <2>10, <3>1, ExcusedIs DEF Owed
      <4> QED BY <1>1, <2>10, <4>1, FitsAre DEF Arrives
    <3>2. CASE studio.view # "here"
      <4>1. \A c \in Conns : ~Hearing(conn[c]) BY <3>2, FitsAre DEF LeftFits, Hearing
      <4> QED BY <2>10, <4>1 DEF Arrives
    <3> QED BY <3>1, <3>2
  <2>14. WorkerFits' /\ jobs' \in Nat /\ worker' \in WorkerType
    BY <1>1, <2>1, FitsAre, WorkerStays DEF Serves
  <2>15. WireType' /\ WireFits' BY <1>1, <2>1, FitsAre, WireStays DEF Serves
  <2>16. TypeInv' BY <1>1, <2>1, <2>8, <2>14, <2>15, FitsAre DEF TypeInv
  <2> QED BY <2>1, <2>9, <2>11, <2>12, <2>13, <2>14, <2>15, <2>16 DEF IInv, Fits, Serves
<1> QED BY <1>2, <1>3

LEMMA RequestFailsKeeps == ASSUME IInv, NEW s \in Slots, RequestFails(s) PROVE IInv'
<1>1. /\ request' = [request EXCEPT ![s] = Free]
      /\ UNCHANGED <<mode, server>> /\ UNCHANGED <<jobs, worker>> /\ UNCHANGED <<wire, breaks>>
      /\ studio' = IF request[s].mine THEN Failed ELSE studio
  BY DEF RequestFails
<1>2. CASE ~request[s].mine
  <2>1. UNCHANGED <<wire, studio, breaks>> BY <1>1, <1>2
  <2> QED BY <1>1, <1>2, <2>1, DoneElsewhere
<1>3. CASE request[s].mine
  <2>1. /\ Serves /\ server'.turns = server.turns
        /\ RequestsFit' /\ request' \in [Slots -> RequestType]
        /\ Answers' => Answers
    BY <1>1, Done
  <2>2. /\ studio' \in StudioType /\ studio'.view = studio.view /\ studio'.pending = studio.pending
        /\ studio'.at = studio.at /\ studio'.left = studio.left
        /\ studio'.excuse = IF studio.excuse = "cleared" THEN "failed" ELSE studio.excuse
    BY <1>1, <1>3, FitsAre, StudioIs DEF Failed, StudioType
  <2>3. ViewFits' BY <1>1, <2>2, FitsAre DEF ViewFits
  <2>4. conn' = conn /\ frames' = frames BY <1>1 DEF wire
  <2>5. LeftFits' BY <2>1, <2>2, <2>4, FitsAre DEF LeftFits
  <2>6. PendingFits' BY <1>1, <2>2, FitsAre DEF PendingFits
  <2>7. Owed' => Owed BY <1>1, <2>2, <2>4 DEF Owed
  <2>8. UNCHANGED <<jobs, worker, wire>> /\ breaks' \in 0 .. MaxBreaks[mode] BY <1>1, FitsAre
  <2> QED BY <2>1, <2>2, <2>3, <2>5, <2>6, <2>7, <2>8, PageGoes
<1> QED BY <1>2, <1>3

LEMMA ReplyAsideKeeps == ASSUME IInv, NEW s \in Slots, ReplyAside(s) PROVE IInv'
<1>1. /\ request' = [request EXCEPT ![s] = Free]
      /\ UNCHANGED <<mode, server>> /\ UNCHANGED <<jobs, worker>>
      /\ UNCHANGED <<frames, published, tokens>> /\ breaks' = breaks
  BY DEF ReplyAside
<1>2. \/ ~request[s].mine /\ UNCHANGED <<studio, conn>>
      \/ /\ request[s].mine /\ request[s].kind = "continue"
         /\ studio' = [studio EXCEPT !.busy = FALSE] /\ UNCHANGED conn
      \/ /\ request[s].mine /\ request[s].kind = "aside"
         /\ studio' = Intrude(FALSE) /\ UNCHANGED conn
      \/ /\ request[s].mine /\ request[s].kind = "visit"
         /\ studio' = [studio EXCEPT !.view = "away", !.pending = Foreign, !.busy = FALSE,
                                     !.excuse = "none", !.left = Lingers]
         /\ conn' = [c \in Conns |-> Leave(conn[c])]
  BY Zenon DEF ReplyAside
<1>3. /\ Serves /\ server'.turns = server.turns
      /\ RequestsFit' /\ request' \in [Slots -> RequestType]
      /\ Answers' => Answers
  BY <1>1, Done
<1>4. breaks' \in 0 .. MaxBreaks[mode] BY <1>1, FitsAre
<1>5. CASE ~request[s].mine /\ UNCHANGED <<studio, conn>>
  <2>1. UNCHANGED <<wire, studio, breaks>> BY <1>1, <1>5 DEF wire
  <2> QED BY <1>1, <1>5, <2>1, DoneElsewhere
<1>6. CASE /\ request[s].mine /\ request[s].kind = "continue"
           /\ studio' = [studio EXCEPT !.busy = FALSE] /\ UNCHANGED conn
  <2>1. Expects => Expects' BY <1>1, <1>6, Done
  <2>2. UNCHANGED <<jobs, worker, wire>> /\ conn' = conn /\ frames' = frames
    BY <1>1, <1>6 DEF wire
  <2>3. /\ studio' \in StudioType /\ studio'.view = studio.view /\ studio'.pending = studio.pending
        /\ studio'.at = studio.at /\ studio'.left = studio.left /\ studio'.excuse = studio.excuse
    BY <1>6, FitsAre, StudioIs DEF StudioType
  <2>4. ViewFits' BY <1>1, <2>1, <2>3, FitsAre DEF ViewFits
  <2>5. LeftFits' BY <1>3, <2>2, <2>3, FitsAre DEF LeftFits
  <2>6. PendingFits' BY <1>1, <2>3, FitsAre DEF PendingFits
  <2>7. Owed' => Owed BY <1>1, <2>2, <2>3 DEF Owed
  <2> QED BY <1>3, <1>4, <2>2, <2>3, <2>4, <2>5, <2>6, <2>7, PageGoes
<1>7. CASE /\ request[s].mine /\ request[s].kind = "aside"
           /\ studio' = Intrude(FALSE) /\ UNCHANGED conn
  <2>1. Expects => Expects' BY <1>1, <1>7, Done
  <2>2. UNCHANGED <<mode, server, jobs, worker, wire>> BY <1>1, <1>7 DEF wire
  <2> DEFINE busy == FALSE
  <2>3. studio' = Intrude(busy) /\ busy \in BOOLEAN BY <1>7
  <2> HIDE DEF busy
  <2> QED BY <1>3, <1>4, <2>1, <2>2, <2>3, IntrudeKeeps
<1>8. CASE /\ request[s].mine /\ request[s].kind = "visit"
           /\ studio' = [studio EXCEPT !.view = "away", !.pending = Foreign, !.busy = FALSE,
                                       !.excuse = "none", !.left = Lingers]
           /\ conn' = [c \in Conns |-> Leave(conn[c])]
  <2>1. /\ conn' \in [Conns -> ConnType]
        /\ \A c \in Conns : /\ ConnFits(mode', server', published, conn'[c])
                            /\ conn'[c].pc = "off" \/ conn'[c].left
                            /\ conn[c].pc # "lost" /\ ~conn[c].left => conn'[c].pc = "off"
    BY <1>1, <1>8, AllLeave
  <2>2. WireType' /\ WireFits' BY <1>1, <1>3, <2>1, FitsAre, ConnsGo DEF Serves
  <2>3. Lingers \in BOOLEAN BY DEF Lingers
  <2>4. /\ studio' \in StudioType /\ studio'.view = "away" /\ studio'.pending = Foreign
        /\ studio'.at = studio.at /\ studio'.excuse = "none" /\ studio'.left = Lingers
    BY <1>8, <2>3, FitsAre, StudioIs DEF StudioType
  <2>5. ViewFits' BY <1>1, <2>4, Zeros, FitsAre, ServerIs DEF ViewFits, Known
  <2>6. LeftFits' BY <1>3, <2>1, <2>4, LingersNot DEF LeftFits
  <2>7. PendingFits' /\ Arrives' BY <2>4 DEF PendingFits, Arrives, Owed
  <2>8. WorkerFits' /\ jobs' \in Nat /\ worker' \in WorkerType
    BY <1>1, <1>3, FitsAre, WorkerStays DEF Serves
  <2>9. TypeInv' BY <1>1, <1>3, <2>2, <2>4, <2>8, FitsAre DEF TypeInv
  <2> QED BY <1>3, <2>2, <2>5, <2>6, <2>7, <2>8, <2>9 DEF IInv, Fits, Serves
<1> QED BY <1>2, <1>5, <1>6, <1>7, <1>8


-----------------------------------------------------------------------------
(* The invariant, and what follows from it.                                *)

LEMMA Initially == Init => IInv
<1> SUFFICES ASSUME Init PROVE IInv OBVIOUS
<1>1. /\ mode \in Modes /\ request = [s \in Slots |-> Free] /\ jobs = 0 /\ worker = Idle
      /\ frames = <<>> /\ published = 0 /\ tokens = 0 /\ conn = [c \in Conns |-> Off]
      /\ studio = Blank /\ breaks = 0
      /\ server = [begun |-> FALSE, turns |-> 0, current |-> 0, open |-> {}, known |-> {},
                   since |-> 0, gone |-> FALSE]
  BY DEF Init
<1>2. /\ server \in ServerType /\ server.turns = 0 /\ server.current = 0 /\ server.open = {}
      /\ server.known = {} /\ server.since = 0
  BY <1>1, Zeros DEF ServerType
<1>3. Free \in RequestType /\ Free.pc = "free" /\ Free.gate = 0 BY Zeros DEF Free, RequestType
<1>4. worker \in WorkerType /\ worker.pc = "idle" BY <1>1, Zeros DEF Idle, WorkerType
<1>5. /\ studio \in StudioType /\ studio.view = "none" /\ studio.pending = 0 /\ studio.at = 0
      /\ studio.excuse = "none"
  BY <1>1, Zeros DEF Blank, StudioType
<1>6. frames \in Seq(Frames) /\ Len(frames) = 0 BY <1>1
<1>7. conn \in [Conns -> ConnType] /\ \A c \in Conns : conn[c] = Off BY <1>1, OffFits
<1>8. WireType BY <1>1, <1>6, <1>7, Bounds DEF WireType
<1>9. TypeInv BY <1>1, <1>2, <1>3, <1>4, <1>5, <1>8, Bounds DEF TypeInv
<1>10. Known(mode, server, 0) BY <1>2 DEF Known
<1>11. ServerFits BY <1>2, <1>10 DEF ServerFits
<1>12. RequestsFit BY <1>1, <1>3, <1>10 DEF RequestsFit, RequestFits
<1>13. WorkerFits BY <1>1, <1>4 DEF WorkerFits
<1>14. WireFits
  <2>1. AllHonest(mode, server, frames) /\ Ordered(frames, 0, published)
    BY <1>6 DEF AllHonest, Ordered
  <2>2. 0 \in Nat /\ published = 0 BY <1>1
  <2> QED BY <1>7, <2>1, <2>2, OffFits DEF WireFits
<1>15. ViewFits BY <1>2, <1>5, <1>10 DEF ViewFits
<1>16. ~Answers BY <1>1, <1>3 DEF Answers, Mine
<1>17. LeftFits BY <1>5, <1>7, <1>16, OffFits DEF LeftFits
<1>18. PendingFits /\ Arrives BY <1>5 DEF PendingFits, Arrives, Owed
<1> QED BY <1>9, <1>11, <1>12, <1>13, <1>14, <1>15, <1>17, <1>18 DEF IInv, Fits

LEMMA Stutters == ASSUME IInv, UNCHANGED vars PROVE IInv'
<1>1. /\ UNCHANGED <<mode, server>> /\ UNCHANGED request /\ UNCHANGED worker /\ jobs' = jobs
      /\ UNCHANGED <<wire, studio, breaks>>
  BY DEF vars, wire
<1>2. Serves /\ OursStay BY <1>1, FitsAre, ServerStays DEF OursStay
<1>3. RequestsFit' /\ request' \in [Slots -> RequestType] BY <1>1, <1>2, FitsAre, RequestsStay
<1>4. WorkerFits' /\ jobs' \in Nat /\ worker' \in WorkerType
  BY <1>1, <1>2, FitsAre, WorkerStays DEF Serves
<1> QED BY <1>1, <1>2, <1>3, <1>4, Backstage

LEMMA Inductive == IInv /\ [Next]_vars => IInv'
<1> SUFFICES ASSUME IInv, [Next]_vars PROVE IInv' OBVIOUS
<1>1. ASSUME NEW s \in Slots,
             \/ Start(s) \/ Recommand(s) \/ Visit(s) \/ OpenThread(s) \/ Answer(s) \/ AnswerAfar(s)
             \/ AnswerElsewhere(s) \/ Continue(s) \/ Reload(s)
      PROVE  IInv'
  BY <1>1, StartKeeps, RecommandKeeps, VisitKeeps, OpenThreadKeeps, AnswerKeeps, AnswerAfarKeeps,
     AnswerElsewhereKeeps, ContinueKeeps, ReloadKeeps
<1>2. ASSUME NEW s \in Slots, Handle(s) PROVE IInv'
  BY <1>2, AcceptStartKeeps, AcceptResolveKeeps, AcceptOpenKeeps, RunTurnKeeps, RequestFailsKeeps,
     PublishKeeps, ReplyKeeps, ReplyAsideKeeps DEF Handle
<1>3. CASE NewThread \/ Remount \/ Restart BY <1>3, NewThreadKeeps, RemountKeeps, RestartKeeps
<1>4. CASE Work \/ WorkerFails
  BY <1>4, WorkerTakesKeeps, WorkerRunsKeeps, WorkerPublishesKeeps, WorkerFailsKeeps DEF Work
<1>5. CASE Token \/ Expire \/ DeliverAfar BY <1>5, TokenKeeps, ExpireKeeps, DeliverAfarKeeps
<1>6. ASSUME NEW c \in Conns, Connect(c) \/ Subscribe(c) \/ Drop(c) \/ Deliver(c) PROVE IInv'
  BY <1>6, ConnectKeeps, SubscribeKeeps, DropKeeps, DeliverKeeps
<1>7. CASE UNCHANGED vars BY <1>7, Stutters
<1> QED BY <1>1, <1>2, <1>3, <1>4, <1>5, <1>6, <1>7 DEF Next

LEMMA ViewFollows == IInv => ViewIsRight
<1> SUFFICES ASSUME IInv PROVE ViewIsRight OBVIOUS
<1>1. TypeOK
  <2>1. \A c \in Conns :
            /\ conn[c].pc \in {"off", "lost", "replayed", "live"} /\ conn[c].left \in BOOLEAN
            /\ conn[c].buffer \in Seq(Frames) /\ conn[c].seen \in Nat /\ conn[c].gap \in BOOLEAN
    BY SocketIs, ConnFields
  <2> QED BY <2>1, FitsAre
        DEF TypeInv, WireType, ServerType, RequestType, WorkerType, StudioType, TypeOK
<1>2. FramesInOrder
  <2> SUFFICES ASSUME NEW c \in Conns
               PROVE  /\ \A j, k \in DOMAIN conn[c].buffer :
                             j < k => conn[c].buffer[j].n < conn[c].buffer[k].n
                      /\ \A k \in DOMAIN conn[c].buffer : conn[c].seen < conn[c].buffer[k].n
    BY DEF FramesInOrder
  <2>1. DOMAIN conn[c].buffer = 1 .. Len(conn[c].buffer) BY SocketIs, ConnFields, FrameIs
  <2>2. Ordered(conn[c].buffer, conn[c].seen, published) BY SocketIs DEF ConnFits
  <2> QED BY <2>1, <2>2 DEF Ordered
<1>3. InSync
  <2> SUFFICES ASSUME AtRest, studio.excuse \notin {"failed", "crossed", "blind", "foreign"},
                      ~server.gone
               PROVE  \/ studio.pending = server.current
                      \/ /\ studio.at # server.turns
                         /\ \A k \in DOMAIN frames : frames[k].turn # server.turns
    BY DEF InSync
  <2>1. ~Expects BY DEF AtRest, InFlight, Expects, Mine
  <2>2. studio.excuse = "none" /\ studio.view = "here"
    BY <2>1, FitsAre, StudioIs DEF ViewFits, AtRest
  <2>3. CASE studio.at = server.turns BY <2>2, <2>3, FitsAre DEF PendingFits
  <2>4. CASE studio.at # server.turns
    <3>1. PICK c \in Conns : conn[c].pc = "live" /\ ~conn[c].left /\ ~conn[c].gap
                             /\ conn[c].buffer = <<>>
      BY DEF AtRest
    <3>2. Hearing(conn[c]) /\ ~Has(conn[c].buffer, server.turns) BY <3>1 DEF Hearing, Has
    <3>3. ~Has(frames, server.turns) BY <2>2, <2>4, <3>2, FitsAre DEF Arrives, Owed
    <3>4. DOMAIN frames = 1 .. Len(frames) BY FitsAre, WireIs, FrameIs DEF TypeInv
    <3> QED BY <2>4, <3>3, <3>4 DEF Has
  <2> QED BY <2>3, <2>4
<1>4. ViewOwnsPending BY FitsAre DEF LeftFits, ViewOwnsPending
<1> QED BY <1>1, <1>2, <1>3, <1>4 DEF ViewIsRight

LEMMA AnswersFollow == IInv => AnswersFindTheirGate
<1> SUFFICES ASSUME IInv, NEW s \in Slots, request[s].pc = "unknown"
             PROVE  mode = "arq" \/ request[s].gate <= server.since
  BY DEF AnswersFindTheirGate
<1> QED BY FitsAre DEF RequestsFit, RequestFits

\* The socket hands on each frame once and in order; a page that has left the
\* thread shows nothing of it, unless an answer was in flight or a reconnection
\* due; and once everything has arrived useThread shows what the thread waits
\* at, with the exceptions InSync names: timers that outlive connect's cleanup,
\* restarts and the frames of other threads included.
THEOREM ViewStaysRight == Spec => []ViewIsRight
<1>1. Spec => []IInv BY Initially, Inductive, PTL DEF Spec
<1> QED BY <1>1, ViewFollows, PTL

\* What a client was shown has its record in the API's gate store when the
\* answer arrives: resolve() answers 404 only when the turn ran in the Arq
\* worker, or the gate is older than the API's last restart.
THEOREM AnswersArrive == Spec => []AnswersFindTheirGate
<1>1. Spec => []IInv BY Initially, Inductive, PTL DEF Spec
<1> QED BY <1>1, AnswersFollow, PTL
=============================================================================

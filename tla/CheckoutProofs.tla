---------------------------- MODULE CheckoutProofs ----------------------------
(***************************************************************************)
(* That merges are true and clones keep apart, for any turns, branches and *)
(* bounds.  A turn that is alone in its clone is followed through what it  *)
(* fetched, merged, pushed and deployed; of the others only what their     *)
(* commits carry and what wreck they leave is.                             *)
(***************************************************************************)
EXTENDS Checkout, TLAPS

-----------------------------------------------------------------------------
(* Types.                                                                  *)

Busy(t) == turn[t].pc \notin Over

\* TypeOK, with the functions being functions, and what every clone of main needs.
TypeInv ==
    /\ TypeOK
    /\ turn \in [Turns -> TurnType]
    /\ dirs \in [Places -> Clone \cup {None}]
    /\ \A t \in Turns : Busy(t) => turn[t].branch \in Places
    /\ remote[Main] \in Histories

LEMMA InitType == Init => TypeInv
BY CheckoutAssumption
   DEF Init, TypeInv, TypeOK, TurnType, Idle, Over, Refs, Histories, Places, Clash, Busy

Steps == {"acquire", "clone", "fetch", "heads", "checkout", "run", "main", "merge",
          "abort", "push", "deploy"}

LEMMA IdleIsATurn == Idle \in TurnType /\ Idle.pc = "idle"
BY DEF Idle, TurnType, Histories, Clash, Over

LEMMA Parts ==
    ASSUME TypeInv
    PROVE  /\ remote \in Refs /\ commits \in 0 .. MaxCommits /\ requests \in 0 .. MaxRequests
           /\ register \subseteq TurnType /\ asked \subseteq Branches /\ killed \subseteq Places
           /\ turn \in [Turns -> TurnType] /\ dirs \in [Places -> Clone \cup {None}]
           /\ \A t \in Turns : Busy(t) => turn[t].branch \in Places /\ Dir(t) \in Clone \cup {None}
           /\ remote[Main] \in Histories
BY DEF TypeInv, TypeOK, Dir, Place

LEMMA RefsAre == \A refs \in Refs, b \in Places : refs[b] \in Histories \cup {None}
BY DEF Refs

LEMMA CloneIs ==
    ASSUME NEW d \in Clone
    PROVE  /\ d.head \in {"main", "branch"} /\ d.main \in Histories /\ d.branch \in Histories
           /\ d.origin \in Refs /\ d.index \in {"clean", "merging", "locked"}
           /\ Head(d) \in Histories
BY DEF Clone, Head

\* A step of one turn: it changes the turn and the directory of its branch.
There(t) == dirs'[turn[t].branch]
Acts(t) ==
    /\ Busy(t)
    /\ turn' = [turn EXCEPT ![t] = turn'[t]] /\ turn'[t] \in TurnType
    /\ dirs' = [dirs EXCEPT ![turn[t].branch] = There(t)] /\ There(t) \in Clone \cup {None}

\* What a turn is about does not change.
Kept(t) ==
    /\ turn'[t].job = turn[t].job /\ turn'[t].branch = turn[t].branch
    /\ turn'[t].sha = turn[t].sha /\ turn'[t].seen = turn[t].seen

\* The record of a turn in which what the steps set is set.
LEMMA SetPc ==
    ASSUME NEW r \in TurnType, NEW p \in Steps \cup Over
    PROVE  /\ [r EXCEPT !.pc = p] \in TurnType
           /\ \A w \in 0 .. Clash : [r EXCEPT !.woe = w, !.pc = p] \in TurnType
           /\ \A h \in BOOLEAN : [r EXCEPT !.has = h, !.pc = p] \in TurnType
BY ZenonT(60) DEF TurnType, Steps

\* How the actions, which set the turn's record and a directory, are steps of one turn.
LEMMA ActsIf ==
    ASSUME TypeInv, NEW t \in Turns, Busy(t), NEW r \in TurnType, turn' = [turn EXCEPT ![t] = r],
           \/ dirs' = dirs
           \/ \E d \in Clone \cup {None} : SetDir(t, d)
    PROVE  /\ Acts(t) /\ turn'[t] = r
           /\ dirs' = dirs => There(t) = Dir(t)
           /\ \A d : SetDir(t, d) => There(t) = d
<1>1. /\ turn \in [Turns -> TurnType] /\ dirs \in [Places -> Clone \cup {None}]
      /\ turn[t].branch \in Places
  BY Parts
<1>2. turn'[t] = r /\ turn' = [turn EXCEPT ![t] = turn'[t]]
  BY <1>1
<1>3. CASE dirs' = dirs
  BY <1>1, <1>2, <1>3 DEF Acts, There, SetDir, Place, Dir
<1>4. CASE \E d \in Clone \cup {None} : SetDir(t, d)
  BY <1>1, <1>2, <1>4 DEF Acts, There, SetDir, Place, Dir
<1> QED
  BY <1>3, <1>4

-----------------------------------------------------------------------------
(* What each action does to the turn and to the directory.                 *)

LEMMA AcquireDoes ==
    ASSUME TypeInv, NEW t \in Turns, Acquire(t)
    PROVE  /\ Acts(t) /\ Kept(t) /\ UNCHANGED <<remote, world>> /\ At(t, "acquire")
           /\ turn'[t].woe = turn[t].woe
           /\ Dir(t) = None => turn'[t].pc = "clone" /\ There(t) = Half
           /\ Dir(t) # None => turn'[t].pc = "fetch" /\ There(t) = Dir(t)
<1>1. turn \in [Turns -> TurnType] /\ Busy(t) /\ At(t, "acquire")
  BY Parts DEF Acquire, Busy, Over, At
<1>2. Half \in Clone
  BY DEF Half, Clone, Refs, Histories
<1>3. [turn[t] EXCEPT !.pc = "clone"] \in TurnType /\ [turn[t] EXCEPT !.pc = "fetch"] \in TurnType
  BY <1>1, SetPc DEF Steps
<1>4. CASE Dir(t) = None
  <2>1. SetDir(t, Half) /\ turn' = [turn EXCEPT ![t] = [turn[t] EXCEPT !.pc = "clone"]]
    BY <1>4 DEF Acquire, Goto
  <2> QED
    BY ZenonT(60), <1>1, <1>2, <1>3, <1>4, <2>1, ActsIf DEF Acquire, Kept, TurnType
<1>5. CASE Dir(t) # None
  <2>1. dirs' = dirs /\ turn' = [turn EXCEPT ![t] = [turn[t] EXCEPT !.pc = "fetch"]]
    BY <1>5 DEF Acquire, Goto
  <2> QED
    BY <1>1, <1>3, <1>5, <2>1, ActsIf DEF Acquire, Kept, TurnType
<1> QED
  BY <1>4, <1>5

LEMMA CloneEndsDoes ==
    ASSUME TypeInv, NEW t \in Turns, CloneEnds(t)
    PROVE  /\ Acts(t) /\ Kept(t) /\ UNCHANGED <<remote, world>> /\ At(t, "clone")
           /\ turn'[t].woe = turn[t].woe /\ turn'[t].pc = "fetch"
           /\ Dir(t) \in Clone /\ There(t) \in Clone
           /\ There(t) = [Dir(t) EXCEPT !.head = "main", !.main = remote[Main], !.origin = remote]
<1>1. /\ turn \in [Turns -> TurnType] /\ Busy(t) /\ At(t, "clone") /\ Dir(t) \in Clone
      /\ remote \in Refs /\ remote[Main] \in Histories
  BY Parts DEF CloneEnds, Busy, Over, At
<1>2. [turn[t] EXCEPT !.pc = "fetch"] \in TurnType
  BY <1>1, SetPc DEF Steps
<1>3. [Dir(t) EXCEPT !.head = "main", !.main = remote[Main], !.origin = remote] \in Clone
  BY <1>1 DEF Clone
<1>4. turn' = [turn EXCEPT ![t] = [turn[t] EXCEPT !.pc = "fetch"]]
  BY DEF CloneEnds, Goto
<1> QED
  BY <1>1, <1>2, <1>3, <1>4, ActsIf DEF CloneEnds, Kept, TurnType

LEMMA SetWoe ==
    ASSUME TypeInv, NEW t \in Turns, NEW w, NEW p,
           turn' = [turn EXCEPT ![t].woe = w, ![t].pc = p]
    PROVE  turn' = [turn EXCEPT ![t] = [turn[t] EXCEPT !.woe = w, !.pc = p]]
BY Parts

LEMMA WoeIs ==
    ASSUME TypeInv, NEW t \in Turns
    PROVE  /\ turn[t].woe \in 0 .. Clash /\ Worse(turn[t].woe, Blind) \in 0 .. Clash
           /\ Refreshed(t) \in 0 .. Clash
BY Parts DEF TurnType, Worse, Refreshed, Blind, Clash

LEMMA FetchDoes ==
    ASSUME TypeInv, NEW t \in Turns, Fetch(t)
    PROVE  /\ Acts(t) /\ Kept(t) /\ UNCHANGED <<remote, world>> /\ At(t, "fetch")
           /\ turn'[t].pc = IF turn[t].branch = Main THEN "run" ELSE "heads"
           /\ Dir(t) \in Clone /\ There(t) \in Clone
           /\ \/ There(t) = [Dir(t) EXCEPT !.origin = remote] /\ turn'[t].woe = Refreshed(t)
              \/ There(t) = Dir(t) /\ turn'[t].woe = Worse(turn[t].woe, Blind)
<1>1. /\ turn \in [Turns -> TurnType] /\ Busy(t) /\ At(t, "fetch") /\ Dir(t) \in Clone
      /\ remote \in Refs
  BY Parts DEF Fetch, Busy, Over, At
<1>. DEFINE p == IF turn[t].branch = Main THEN "run" ELSE "heads"
<1>2. p \in Steps
  BY DEF Steps
<1>3. \A w \in 0 .. Clash : [turn[t] EXCEPT !.woe = w, !.pc = p] \in TurnType
  BY <1>1, <1>2, SetPc
<1>4. [Dir(t) EXCEPT !.origin = remote] \in Clone
  BY <1>1 DEF Clone
<1>5. UNCHANGED <<remote, world>>
  BY DEF Fetch
<1>6. CASE /\ SetDir(t, [Dir(t) EXCEPT !.origin = remote])
           /\ turn' = [turn EXCEPT ![t].woe = Refreshed(t), ![t].pc = p]
  <2>1. turn' = [turn EXCEPT ![t] = [turn[t] EXCEPT !.woe = Refreshed(t), !.pc = p]]
    BY <1>6, SetWoe
  <2>2. /\ Acts(t) /\ turn'[t] = [turn[t] EXCEPT !.woe = Refreshed(t), !.pc = p]
        /\ There(t) = [Dir(t) EXCEPT !.origin = remote]
    BY <1>1, <1>3, <1>4, <1>6, <2>1, ActsIf, WoeIs
  <2>3. Kept(t) /\ turn'[t].woe = Refreshed(t) /\ turn'[t].pc = p
    BY <1>1, <2>2 DEF Kept, TurnType
  <2> QED
    BY <1>1, <1>4, <1>5, <2>2, <2>3
<1>7. CASE /\ UNCHANGED dirs
           /\ turn' = [turn EXCEPT ![t].woe = Worse(turn[t].woe, Blind), ![t].pc = p]
  <2>1. turn' = [turn EXCEPT ![t] = [turn[t] EXCEPT !.woe = Worse(turn[t].woe, Blind), !.pc = p]]
    BY <1>7, SetWoe
  <2>2. /\ Acts(t) /\ turn'[t] = [turn[t] EXCEPT !.woe = Worse(turn[t].woe, Blind), !.pc = p]
        /\ There(t) = Dir(t)
    BY <1>1, <1>3, <1>7, <2>1, ActsIf, WoeIs
  <2>3. Kept(t) /\ turn'[t].woe = Worse(turn[t].woe, Blind) /\ turn'[t].pc = p
    BY <1>1, <2>2 DEF Kept, TurnType
  <2> QED
    BY <1>1, <1>5, <2>2, <2>3
<1> QED
  BY <1>6, <1>7 DEF Fetch

LEMMA HeadsDoes ==
    ASSUME TypeInv, NEW t \in Turns, Heads(t)
    PROVE  /\ Acts(t) /\ Kept(t) /\ UNCHANGED <<remote, world>> /\ At(t, "heads")
           /\ turn'[t].pc = "checkout" /\ There(t) = Dir(t)
           /\ \/ /\ turn'[t].woe = turn[t].woe
                 /\ turn'[t].has = (remote[turn[t].branch] # None)
              \/ turn'[t].woe = Worse(turn[t].woe, Blind)
<1>1. turn \in [Turns -> TurnType] /\ Busy(t) /\ At(t, "heads")
  BY Parts DEF Heads, Busy, Over, At
<1>2. PICK reached \in BOOLEAN :
          turn' = [turn EXCEPT ![t].woe = IF reached THEN @ ELSE Worse(@, Blind),
                               ![t].pc = "checkout",
                               ![t].has = reached /\ remote[turn[t].branch] # None]
  BY DEF Heads
<1>. DEFINE w == IF reached THEN turn[t].woe ELSE Worse(turn[t].woe, Blind)
            h == reached /\ remote[turn[t].branch] # None
            r == [turn[t] EXCEPT !.woe = w, !.pc = "checkout", !.has = h]
<1>3. w \in 0 .. Clash /\ h \in BOOLEAN
  BY WoeIs
<1>4. turn' = [turn EXCEPT ![t] = r]
  BY <1>1, <1>2
<1>5. r \in TurnType
  <2>. HIDE DEF w, h
  <2> QED
    BY ZenonT(60), <1>1, <1>3 DEF TurnType
<1>6. dirs' = dirs /\ UNCHANGED <<remote, world>>
  BY DEF Heads
<1>. HIDE DEF r
<1>7. Acts(t) /\ turn'[t] = r /\ There(t) = Dir(t)
  BY <1>1, <1>4, <1>5, <1>6, ActsIf
<1>8. /\ Kept(t) /\ turn'[t].woe = w /\ turn'[t].pc = "checkout" /\ turn'[t].has = h
  <2>. HIDE DEF w, h
  <2> QED
    BY <1>1, <1>7 DEF Kept, TurnType, r
<1> QED
  BY <1>1, <1>6, <1>7, <1>8

LEMMA CheckoutDoes ==
    ASSUME TypeInv, NEW t \in Turns, Checkout(t)
    PROVE  /\ Acts(t) /\ Kept(t) /\ UNCHANGED <<remote, world>> /\ At(t, "checkout")
           /\ turn'[t].pc = IF turn[t].job = "merge" THEN "main" ELSE "run"
           /\ turn'[t].woe = turn[t].woe
           /\ Dir(t) \in Clone /\ There(t) \in Clone /\ Dir(t).index = "clean"
           /\ \E from \in Histories :
                  /\ from = Branched(Dir(t), turn[t].has, turn[t].branch)
                  /\ There(t) = [Dir(t) EXCEPT !.branch = from, !.head = "branch"]
<1>1. /\ turn \in [Turns -> TurnType] /\ Busy(t) /\ At(t, "checkout") /\ Dir(t) \in Clone
      /\ Dir(t).index = "clean" /\ turn[t].branch \in Places
  BY Parts DEF Checkout, Busy, Over, At
<1>. DEFINE p == IF turn[t].job = "merge" THEN "main" ELSE "run"
            from == Branched(Dir(t), turn[t].has, turn[t].branch)
            r == [turn[t] EXCEPT !.has = FALSE, !.pc = p]
            d == [Dir(t) EXCEPT !.branch = from, !.head = "branch"]
<1>2. p \in Steps
  BY DEF Steps
<1>3. from \in Histories
  <2>1. from # None
    BY DEF Checkout
  <2> QED
    BY <1>1, <2>1, CloneIs, RefsAre DEF Branched
<1>4. SetDir(t, d) /\ turn' = [turn EXCEPT ![t].has = FALSE, ![t].pc = p]
  BY DEF Checkout
<1>5. UNCHANGED <<remote, world>>
  BY DEF Checkout
<1>. HIDE DEF p, from
<1>6. turn' = [turn EXCEPT ![t] = r]
  BY <1>1, <1>4
<1>7. r \in TurnType
  BY <1>1, <1>2, SetPc
<1>8. d \in Clone
  BY <1>1, <1>3 DEF Clone
<1>. HIDE DEF r, d
<1>9. Acts(t) /\ turn'[t] = r /\ There(t) = d
  BY <1>1, <1>4, <1>6, <1>7, <1>8, ActsIf
<1>10. Kept(t) /\ turn'[t].woe = turn[t].woe /\ turn'[t].pc = p
  BY <1>1, <1>9 DEF Kept, TurnType, r
<1> QED
  BY <1>1, <1>3, <1>5, <1>8, <1>9, <1>10 DEF d, p, from

\* What acquire leaves of a turn that it fails.
GaveUp(t) ==
    /\ turn[t].job = "deploy" =>
           Kept(t) /\ turn'[t].pc = "deploy" /\ turn'[t].woe = turn[t].woe
    /\ turn[t].job # "deploy" => turn'[t] = Idle

LEMMA GiveUpDoes ==
    ASSUME TypeInv, NEW t \in Turns, Busy(t), GiveUp(t),
           dirs' = dirs \/ \E d \in Clone \cup {None} : SetDir(t, d)
    PROVE  /\ Acts(t) /\ GaveUp(t)
           /\ dirs' = dirs => There(t) = Dir(t)
           /\ \A d : SetDir(t, d) => There(t) = d
<1>1. turn \in [Turns -> TurnType]
  BY Parts
<1>2. CASE turn[t].job = "deploy"
  <2>. DEFINE r == [turn[t] EXCEPT !.has = FALSE, !.pc = "deploy"]
  <2>1. turn' = [turn EXCEPT ![t] = r]
    BY <1>1, <1>2 DEF GiveUp
  <2>2. r \in TurnType
    BY <1>1, SetPc DEF Steps
  <2>. HIDE DEF r
  <2>3. turn'[t] = r
    BY <1>1, <2>1
  <2>4. GaveUp(t)
    BY <1>1, <1>2, <2>3 DEF GaveUp, Kept, TurnType, r
  <2> QED
    BY <2>1, <2>2, <2>4, ActsIf
<1>3. CASE turn[t].job # "deploy"
  <2>1. turn' = [turn EXCEPT ![t] = Idle]
    BY <1>3 DEF GiveUp, Raise
  <2> QED
    BY <1>1, <1>3, <2>1, IdleIsATurn, ActsIf DEF GaveUp
<1> QED
  BY <1>2, <1>3

LEMMA AcquireFailsDoes ==
    ASSUME TypeInv, NEW t \in Turns, AcquireFails(t)
    PROVE  /\ Acts(t) /\ GaveUp(t) /\ UNCHANGED <<remote, world>>
           /\ turn[t].pc \in {"acquire", "clone", "fetch", "heads", "checkout"}
           /\ At(t, "clone") => There(t) = None
           /\ ~At(t, "clone") => There(t) = Dir(t)
<1>1. Busy(t) /\ GiveUp(t)
  BY DEF AcquireFails, Busy, Over
<1>2. IF At(t, "clone") THEN SetDir(t, None) ELSE dirs' = dirs
  BY DEF AcquireFails
<1>3. /\ UNCHANGED <<remote, world>>
      /\ turn[t].pc \in {"acquire", "clone", "fetch", "heads", "checkout"}
  BY DEF AcquireFails
<1> QED
  BY <1>1, <1>2, <1>3, GiveUpDoes

LEMMA CheckDoes ==
    ASSUME TypeInv, NEW t \in Turns, Check(t)
    PROVE  /\ Acts(t) /\ Kept(t) /\ UNCHANGED <<remote, world>> /\ At(t, "run")
           /\ turn[t].job = "check" /\ turn'[t].pc = "done"
           /\ turn'[t].woe = turn[t].woe /\ There(t) = Dir(t)
           /\ turn'[t].tree = IF Dir(t) = None THEN None ELSE Head(Dir(t))
<1>1. /\ turn \in [Turns -> TurnType] /\ Busy(t) /\ At(t, "run")
      /\ turn[t].job = "check" /\ Dir(t) \in Clone \cup {None}
  BY Parts DEF Check, Busy, Over, At
<1>. DEFINE h == IF Dir(t) = None THEN None ELSE Head(Dir(t))
            r == [turn[t] EXCEPT !.pc = "done", !.tree = h]
<1>2. h \in Histories \cup {None}
  BY <1>1, CloneIs
<1>3. turn' = [turn EXCEPT ![t] = r] /\ dirs' = dirs /\ UNCHANGED <<remote, world>>
  BY <1>1 DEF Check
<1>. HIDE DEF h
<1>4. r \in TurnType
  BY ZenonT(60), <1>1, <1>2 DEF TurnType, Over
<1>. HIDE DEF r
<1>5. Acts(t) /\ turn'[t] = r /\ There(t) = Dir(t)
  BY <1>1, <1>3, <1>4, ActsIf
<1>6. Kept(t) /\ turn'[t].woe = turn[t].woe /\ turn'[t].pc = "done" /\ turn'[t].tree = h
  BY <1>1, <1>5 DEF Kept, TurnType, r
<1> QED
  BY <1>1, <1>3, <1>5, <1>6 DEF h

LEMMA RaiseDoes ==
    ASSUME TypeInv, NEW t \in Turns, Busy(t), Raise(t),
           dirs' = dirs \/ \E d \in Clone \cup {None} : SetDir(t, d)
    PROVE  /\ Acts(t) /\ turn'[t] = Idle
           /\ dirs' = dirs => There(t) = Dir(t)
           /\ \A d : SetDir(t, d) => There(t) = d
BY IdleIsATurn, ActsIf DEF Raise

LEMMA GotoDoes ==
    ASSUME TypeInv, NEW t \in Turns, Busy(t), NEW p \in Steps, Goto(t, p),
           dirs' = dirs \/ \E d \in Clone \cup {None} : SetDir(t, d)
    PROVE  /\ Acts(t) /\ Kept(t) /\ turn'[t].pc = p /\ turn'[t].woe = turn[t].woe
           /\ dirs' = dirs => There(t) = Dir(t)
           /\ \A d : SetDir(t, d) => There(t) = d
<1>. DEFINE r == [turn[t] EXCEPT !.pc = p]
<1>1. turn \in [Turns -> TurnType] /\ turn' = [turn EXCEPT ![t] = r]
  BY Parts DEF Goto
<1>2. r \in TurnType
  BY <1>1, SetPc
<1>. HIDE DEF r
<1>3. Acts(t) /\ turn'[t] = r
  BY <1>1, <1>2, ActsIf
<1>4. Kept(t) /\ turn'[t].pc = p /\ turn'[t].woe = turn[t].woe
  BY <1>1, <1>3 DEF Kept, TurnType, r
<1> QED
  BY <1>1, <1>2, <1>4, ActsIf

LEMMA CheckoutMainDoes ==
    ASSUME TypeInv, NEW t \in Turns, CheckoutMain(t)
    PROVE  /\ Acts(t) /\ UNCHANGED <<remote, world>> /\ At(t, "main")
           /\ \/ /\ Kept(t) /\ turn'[t].pc = "merge" /\ turn'[t].woe = turn[t].woe
                 /\ Dir(t) \in Clone /\ There(t) \in Clone /\ Dir(t).index = "clean"
                 /\ Dir(t).origin[Main] \in Histories /\ Dir(t).origin[Main] # None
                 /\ There(t) = [Dir(t) EXCEPT !.main = Dir(t).origin[Main], !.head = "main"]
              \/ turn'[t] = Idle /\ There(t) = Dir(t)
<1>1. Busy(t) /\ At(t, "main") /\ UNCHANGED <<remote, world>>
  BY DEF CheckoutMain, Busy, Over, At
<1>2. CASE Raise(t) /\ UNCHANGED dirs
  BY <1>1, <1>2, RaiseDoes
<1>3. CASE /\ Dir(t) # None /\ Dir(t).index = "clean" /\ Dir(t).origin[Main] # None
           /\ SetDir(t, [Dir(t) EXCEPT !.main = Dir(t).origin[Main], !.head = "main"])
           /\ Goto(t, "merge")
  <2>. DEFINE d == [Dir(t) EXCEPT !.main = Dir(t).origin[Main], !.head = "main"]
  <2>1. Dir(t) \in Clone
    BY <1>1, <1>3, Parts
  <2>2. Dir(t).origin[Main] \in Histories
    BY <1>3, <2>1, CloneIs, RefsAre DEF Places
  <2>3. d \in Clone
    BY <2>1, <2>2 DEF Clone
  <2>4. "merge" \in Steps
    BY DEF Steps
  <2>. HIDE DEF d
  <2>5. SetDir(t, d)
    BY <1>3 DEF d
  <2> QED
    BY <1>1, <1>3, <2>1, <2>2, <2>3, <2>4, <2>5, GotoDoes DEF d
<1> QED
  BY <1>2, <1>3 DEF CheckoutMain

\* The head of a clone after a merge, the other branch staying.
LEMMA MergedIs ==
    ASSUME NEW d \in Clone, NEW new \in Histories
    PROVE  /\ Merged(d, new) \in Clone /\ Head(Merged(d, new)) = new
           /\ Merged(d, new).head = d.head /\ Merged(d, new).index = d.index
           /\ Merged(d, new).origin = d.origin
           /\ d.head = "main" => Merged(d, new).main = new /\ Merged(d, new).branch = d.branch
           /\ d.head # "main" => Merged(d, new).branch = new /\ Merged(d, new).main = d.main
BY DEF Clone, Merged, Head

LEMMA MergeDoes ==
    ASSUME TypeInv, NEW t \in Turns, Merge(t)
    PROVE  /\ Acts(t) /\ Kept(t) /\ At(t, "merge") /\ turn'[t].woe = turn[t].woe
           /\ UNCHANGED <<deployer, remote, requests, register, ghosts>>
           /\ commits' \in 0 .. MaxCommits /\ Dir(t) \in Clone /\ There(t) \in Clone
           /\ turn'[t].pc \in {"push", "abort"}
           /\ \/ /\ turn'[t].pc = "push" /\ There(t) = Dir(t) /\ Dir(t).branch # {}
                 /\ Dir(t).branch \subseteq Head(Dir(t)) /\ Dir(t).index = "clean"
              \/ /\ turn'[t].pc = "push" /\ Dir(t).index = "clean"
                 /\ \E new \in Histories :
                       /\ new = Head(Dir(t)) \cup Dir(t).branch \cup {<<commits + 1, "merge">>}
                       /\ There(t) = Merged(Dir(t), new)
              \/ turn'[t].pc = "abort" /\ There(t) = [Dir(t) EXCEPT !.index = "merging"]
                    /\ Dir(t).index = "clean"
              \/ turn'[t].pc = "abort" /\ There(t) = Dir(t)
<1>1. /\ Busy(t) /\ At(t, "merge") /\ UNCHANGED <<deployer, remote, requests, register, ghosts>>
      /\ commits \in 0 .. MaxCommits
  BY Parts DEF Merge, Busy, Over, At
<1>2. Dir(t) \in Clone
  BY <1>1, Parts DEF Merge
<1>3. "push" \in Steps /\ "abort" \in Steps
  BY DEF Steps
<1>4. CASE /\ Dir(t).index = "clean" /\ Dir(t).branch # {} /\ Dir(t).branch \subseteq Head(Dir(t))
           /\ Goto(t, "push") /\ UNCHANGED <<dirs, commits>>
  BY <1>1, <1>2, <1>3, <1>4, GotoDoes
<1>5. CASE /\ Dir(t).index = "clean" /\ commits < MaxCommits /\ commits' = commits + 1
           /\ SetDir(t, Merged(Dir(t), Head(Dir(t)) \cup Dir(t).branch
                                       \cup {<<commits + 1, "merge">>}))
           /\ Goto(t, "push")
  <2>. DEFINE new == Head(Dir(t)) \cup Dir(t).branch \cup {<<commits + 1, "merge">>}
  <2>1. commits + 1 \in 0 .. MaxCommits
    <3>1. MaxCommits \in Nat
      BY CheckoutAssumption
    <3> QED
      BY <3>1, <1>1, <1>5
  <2>2. new \in Histories
    <3>1. <<commits + 1, "merge">> \in (0 .. MaxCommits) \X (Places \cup {"merge"})
      BY <2>1
    <3>2. Head(Dir(t)) \in Histories /\ Dir(t).branch \in Histories
      BY <1>2, CloneIs
    <3> QED
      BY <3>1, <3>2 DEF Histories
  <2>3. SetDir(t, Merged(Dir(t), new))
    BY <1>5
  <2>. HIDE DEF new
  <2>4. Merged(Dir(t), new) \in Clone
    BY <1>2, <2>2, MergedIs
  <2>5. /\ Acts(t) /\ Kept(t) /\ turn'[t].pc = "push" /\ turn'[t].woe = turn[t].woe
        /\ There(t) = Merged(Dir(t), new)
    BY <1>1, <1>3, <1>5, <2>3, <2>4, GotoDoes
  <2> QED
    BY <1>1, <1>2, <1>5, <2>1, <2>2, <2>4, <2>5 DEF new
<1>6. CASE /\ Dir(t).index = "clean" /\ SetDir(t, [Dir(t) EXCEPT !.index = "merging"])
           /\ Goto(t, "abort") /\ UNCHANGED commits
  <2>1. [Dir(t) EXCEPT !.index = "merging"] \in Clone
    BY <1>2 DEF Clone
  <2>. DEFINE d == [Dir(t) EXCEPT !.index = "merging"]
  <2>2. SetDir(t, d)
    BY <1>6
  <2>. HIDE DEF d
  <2>3. /\ Acts(t) /\ Kept(t) /\ turn'[t].pc = "abort" /\ turn'[t].woe = turn[t].woe
        /\ There(t) = d
    BY <1>1, <1>3, <1>6, <2>1, <2>2, GotoDoes DEF d
  <2> QED
    BY <1>1, <1>2, <1>6, <2>1, <2>3 DEF d
<1>7. CASE Goto(t, "abort") /\ UNCHANGED <<dirs, commits>>
  BY <1>1, <1>2, <1>3, <1>7, GotoDoes
<1> QED
  BY <1>4, <1>5, <1>6, <1>7 DEF Merge

LEMMA AbortDoes ==
    ASSUME TypeInv, NEW t \in Turns, Abort(t)
    PROVE  /\ Acts(t) /\ UNCHANGED <<remote, world>> /\ At(t, "abort") /\ turn'[t] = Idle
           /\ Dir(t) \in Clone /\ There(t) \in Clone
           /\ There(t) = [Dir(t) EXCEPT !.index = Aborted(Dir(t).index)]
<1>. DEFINE d == [Dir(t) EXCEPT !.index = Aborted(Dir(t).index)]
<1>1. Busy(t) /\ At(t, "abort") /\ UNCHANGED <<remote, world>> /\ SetDir(t, d) /\ Raise(t)
  BY DEF Abort, Busy, Over, At
<1>2. Dir(t) \in Clone
  BY <1>1, Parts DEF Abort
<1>3. d \in Clone
  BY <1>2 DEF Clone, Aborted
<1>. HIDE DEF d
<1>4. Acts(t) /\ turn'[t] = Idle /\ There(t) = d
  BY <1>1, <1>3, RaiseDoes
<1> QED
  BY <1>1, <1>2, <1>3, <1>4 DEF d

LEMMA PushDoes ==
    ASSUME TypeInv, NEW t \in Turns, Push(t)
    PROVE  /\ Acts(t) /\ UNCHANGED world /\ At(t, "push")
           /\ Dir(t) \in Clone /\ There(t) \in Clone
           /\ \/ /\ remote[Main] \subseteq Dir(t).main
                 /\ remote' = [remote EXCEPT ![Main] = Dir(t).main]
                 /\ There(t) = [Dir(t) EXCEPT !.origin[Main] = Dir(t).main]
              \/ remote' = remote /\ There(t) = Dir(t) /\ turn'[t] = Idle
           /\ \/ turn'[t] = Idle
              \/ /\ turn'[t].job = "deploy" /\ turn'[t].branch = turn[t].branch
                 /\ turn'[t].sha = Head(Dir(t)) /\ turn'[t].seen = turn[t].seen
                 /\ turn'[t].pc \in {"acquire", "deploy"} /\ turn'[t].woe = turn[t].woe
<1>1. Busy(t) /\ At(t, "push") /\ UNCHANGED world
  BY DEF Push, Busy, Over, At
<1>2. Dir(t) \in Clone /\ turn \in [Turns -> TurnType]
  BY <1>1, Parts DEF Push
<1>. DEFINE moved == [Dir(t) EXCEPT !.origin[Main] = Dir(t).main]
<1>3. PICK lands \in BOOLEAN, heard \in BOOLEAN :
          /\ heard => lands
          /\ lands => remote[Main] \subseteq Dir(t).main
          /\ IF lands
             THEN /\ remote' = [remote EXCEPT ![Main] = Dir(t).main]
                  /\ SetDir(t, moved)
             ELSE UNCHANGED <<remote, dirs>>
          /\ turn' = [turn EXCEPT ![t] = AfterPush(t, heard)]
  BY DEF Push
<1>4. moved \in Clone
  <2>1. Dir(t).origin \in Refs /\ Dir(t).main \in Histories
    BY <1>2, CloneIs
  <2>2. [Dir(t).origin EXCEPT ![Main] = Dir(t).main] \in Refs
    BY <2>1 DEF Refs
  <2> QED
    BY <1>2, <2>2 DEF Clone
<1>. HIDE DEF moved
<1>5. AfterPush(t, heard) \in TurnType
  <2>1. Head(Dir(t)) \in Histories
    BY <1>2, CloneIs
  <2>2. Shipping(t, Head(Dir(t))) \in TurnType
    BY ZenonT(60), <1>2, <2>1 DEF Shipping, TurnType
  <2> QED
    BY <2>2, IdleIsATurn DEF AfterPush
<1>6. Acts(t) /\ turn'[t] = AfterPush(t, heard)
      /\ (lands => There(t) = moved) /\ (~lands => There(t) = Dir(t))
  <2>1. CASE lands
    BY <1>1, <1>3, <1>4, <1>5, <2>1, ActsIf
  <2>2. CASE ~lands
    BY <1>1, <1>3, <1>4, <1>5, <2>2, ActsIf
  <2> QED
    BY <2>1, <2>2, <1>3
<1>7. /\ ~heard => turn'[t] = Idle
      /\ heard => /\ turn'[t].job = "deploy" /\ turn'[t].branch = turn[t].branch
                  /\ turn'[t].sha = Head(Dir(t)) /\ turn'[t].seen = turn[t].seen
                  /\ turn'[t].pc \in {"acquire", "deploy"} /\ turn'[t].woe = turn[t].woe
  BY <1>2, <1>3, <1>6 DEF AfterPush, Shipping, TurnType
<1> QED
  BY <1>1, <1>2, <1>3, <1>4, <1>6, <1>7 DEF moved

LEMMA VanishedDoes ==
    ASSUME TypeInv, NEW t \in Turns, Vanished(t)
    PROVE  /\ Acts(t) /\ UNCHANGED <<remote, world>> /\ turn[t].pc \in {"merge", "abort", "push"}
           /\ Dir(t) = None /\ There(t) = Dir(t) /\ turn'[t] = Idle
<1>1. /\ Busy(t) /\ turn[t].pc \in {"merge", "abort", "push"} /\ Dir(t) = None
      /\ UNCHANGED <<remote, dirs, world>> /\ Raise(t)
  BY DEF Vanished, Busy, Over
<1> QED
  BY <1>1, RaiseDoes

LEMMA DeployDoes ==
    ASSUME TypeInv, NEW t \in Turns, Deploy(t)
    PROVE  /\ Acts(t) /\ UNCHANGED <<deployer, remote, dirs, commits, requests, ghosts>>
           /\ turn[t].job = "deploy" /\ turn[t].pc \in {"run", "deploy"}
           /\ There(t) = Dir(t) /\ turn'[t] = Idle
           /\ \/ register' = register
              \/ \E r \in TurnType :
                    /\ register' = register \cup {r}
                    /\ r.sha = turn[t].sha /\ r.seen = turn[t].seen /\ r.woe = turn[t].woe
                    /\ r.tree = IF At(t, "deploy") \/ Dir(t) = None THEN None ELSE Head(Dir(t))
<1>1. /\ Busy(t) /\ turn[t].job = "deploy" /\ turn[t].pc \in {"run", "deploy"}
      /\ UNCHANGED <<deployer, remote, dirs, commits, requests, ghosts>> /\ Raise(t)
  BY DEF Deploy, Busy, Over
<1>2. turn \in [Turns -> TurnType] /\ Dir(t) \in Clone \cup {None}
  BY <1>1, Parts
<1>. DEFINE ran == IF At(t, "deploy") \/ Dir(t) = None THEN None ELSE Head(Dir(t))
            r == [turn[t] EXCEPT !.pc = "done", !.tree = ran]
<1>3. register' = register \cup {r} \/ register' = register
  BY DEF Deploy
<1>4. ran \in Histories \cup {None}
  BY <1>2, CloneIs
<1>. HIDE DEF ran
<1>5. /\ r \in TurnType
      /\ r.sha = turn[t].sha /\ r.seen = turn[t].seen /\ r.woe = turn[t].woe /\ r.tree = ran
  BY <1>2, <1>4 DEF TurnType, Over
<1>. HIDE DEF r
<1> QED
  BY <1>1, <1>3, <1>5, RaiseDoes DEF ran

LEMMA KillDoes ==
    ASSUME TypeInv, NEW t \in Turns, Kill(t)
    PROVE  /\ Acts(t) /\ UNCHANGED <<deployer, remote, commits, requests, register, asked>>
           /\ turn[t].pc \in {"clone", "checkout", "main", "merge"}
           /\ killed' = killed \cup {turn[t].branch}
           /\ Dir(t) \in Clone /\ There(t) \in Clone
           /\ \/ At(t, "clone") /\ There(t) = Dir(t)
              \/ ~At(t, "clone") /\ There(t) = [Dir(t) EXCEPT !.index = "locked"]
           /\ IF turn[t].pc \in {"clone", "checkout"} THEN GaveUp(t) ELSE turn'[t] = Idle
<1>. DEFINE d == [Dir(t) EXCEPT !.index = "locked"]
<1>1. /\ Busy(t) /\ turn[t].pc \in {"clone", "checkout", "main", "merge"} /\ Dir(t) # None
      /\ UNCHANGED <<deployer, remote, commits, requests, register, asked>>
      /\ killed' = killed \cup {turn[t].branch}
      /\ IF At(t, "clone") THEN UNCHANGED dirs ELSE SetDir(t, d)
      /\ IF turn[t].pc \in {"clone", "checkout"} THEN GiveUp(t) ELSE Raise(t)
  BY DEF Kill, Busy, Over, Place
<1>2. Dir(t) \in Clone
  BY <1>1, Parts
<1>3. d \in Clone
  BY <1>2 DEF Clone
<1>. HIDE DEF d
<1>4. /\ Acts(t) /\ (At(t, "clone") => There(t) = Dir(t)) /\ (~At(t, "clone") => There(t) = d)
      /\ IF turn[t].pc \in {"clone", "checkout"} THEN GaveUp(t) ELSE turn'[t] = Idle
  <2>1. CASE turn[t].pc \in {"clone", "checkout"}
    BY <1>1, <1>3, <2>1, GiveUpDoes
  <2>2. CASE turn[t].pc \notin {"clone", "checkout"}
    BY <1>1, <1>3, <2>2, RaiseDoes DEF At
  <2> QED
    BY <2>1, <2>2
<1> QED
  BY <1>1, <1>2, <1>3, <1>4 DEF d

LEMMA NewTurn ==
    ASSUME NEW job \in {"check", "merge"}, NEW b \in Places, NEW s \in Histories,
           NEW w \in {0, Clash}
    PROVE  [pc |-> "acquire", job |-> job, branch |-> b, has |-> FALSE, sha |-> {},
            tree |-> None, seen |-> s, woe |-> w] \in TurnType
<1>1. {} \in Histories /\ w \in 0 .. Clash
  BY DEF Histories, Clash
<1> QED
  BY <1>1 DEF TurnType

\* A turn that only something befalls.
Befalls(u, w) ==
    /\ Kept(u) /\ turn'[u] \in TurnType
    /\ turn'[u].pc = turn[u].pc /\ turn'[u].has = turn[u].has /\ turn'[u].tree = turn[u].tree
    /\ turn'[u].woe = w

LEMMA BefallsIf ==
    ASSUME TypeInv, NEW u \in Turns, NEW w \in 0 .. Clash, turn'[u] = [turn[u] EXCEPT !.woe = w]
    PROVE  Befalls(u, w)
<1>1. turn[u] \in TurnType
  BY Parts
<1> QED
  BY <1>1 DEF Befalls, Kept, TurnType

LEMMA AskDoes ==
    ASSUME TypeInv, NEW t \in Turns, NEW job \in {"check", "merge"}, NEW b \in Places,
           Ask(t, job, b)
    PROVE  /\ ~Busy(t) /\ UNCHANGED <<deployer, remote, dirs, commits, register, killed>>
           /\ b = Main => job = "check"
           /\ requests' \in 0 .. MaxRequests /\ asked' \subseteq Branches
           /\ asked' = IF job = "merge" THEN asked \cup {b} ELSE asked
           /\ turn' \in [Turns -> TurnType]
           /\ turn'[t].pc = "acquire" /\ turn'[t].job = job /\ turn'[t].branch = b
           /\ turn'[t].seen = IF b = Main \/ remote[b] = None THEN {} ELSE remote[b]
           /\ turn'[t].woe = IF Working(b) = {} THEN 0 ELSE Clash
           /\ \A u \in Turns : u # t =>
                  Befalls(u, IF Busy(u) /\ turn[u].branch = b THEN Clash ELSE turn[u].woe)
<1>. DEFINE seen == IF b = Main \/ remote[b] = None THEN {} ELSE remote[b]
            woe  == IF Working(b) = {} THEN 0 ELSE Clash
<1>1. /\ ~Busy(t) /\ UNCHANGED <<deployer, remote, dirs, commits, register, killed>>
      /\ b = Main => job = "check"
      /\ asked' = IF job = "merge" THEN asked \cup {b} ELSE asked
      /\ requests < MaxRequests /\ requests' = requests + 1
  BY DEF Ask, Busy
<1>2. seen \in Histories /\ woe \in {0, Clash} /\ Clash \in 0 .. Clash
  BY Parts, RefsAre DEF Histories, Clash
<1>3. turn'[t] = [pc |-> "acquire", job |-> job, branch |-> b, has |-> FALSE, sha |-> {},
                  tree |-> None, seen |-> seen, woe |-> woe]
  BY DEF Ask, Idle
<1>. HIDE DEF seen, woe
<1>4. turn'[t] \in TurnType
  BY <1>2, <1>3, NewTurn
<1>5. ASSUME NEW u \in Turns, u # t
      PROVE  Befalls(u, IF Busy(u) /\ turn[u].branch = b THEN Clash ELSE turn[u].woe)
  <2>. DEFINE w == IF Busy(u) /\ turn[u].branch = b THEN Clash ELSE turn[u].woe
  <2>1. w \in 0 .. Clash
    BY <1>2, WoeIs
  <2>2. turn'[u] = [turn[u] EXCEPT !.woe = w]
    BY <1>5 DEF Ask, Working, Place, Busy
  <2>. HIDE DEF w
  <2>3. Befalls(u, w)
    BY <2>1, <2>2, BefallsIf
  <2> QED
    BY <2>3 DEF w
<1>6. turn' \in [Turns -> TurnType]
  <2>1. turn' = [u \in Turns |-> turn'[u]]
    BY DEF Ask
  <2> QED
    BY <2>1, <1>4, <1>5 DEF Befalls
<1>7. asked' \subseteq Branches
  BY <1>1, Parts DEF Places
<1>8. requests' \in 0 .. MaxRequests
  <2>1. MaxRequests \in Nat
    BY CheckoutAssumption
  <2> QED
    BY <2>1, <1>1, Parts
<1>9. /\ turn'[t].pc = "acquire" /\ turn'[t].job = job /\ turn'[t].branch = b
      /\ turn'[t].seen = seen /\ turn'[t].woe = woe
  BY <1>3
<1> QED
  BY <1>1, <1>5, <1>6, <1>7, <1>8, <1>9 DEF seen, woe

LEMMA DevelopDoes ==
    ASSUME TypeInv, NEW b \in Places, Develop(b)
    PROVE  /\ UNCHANGED <<deployer, dirs, requests, register, ghosts>>
           /\ commits' \in 0 .. MaxCommits /\ turn' \in [Turns -> TurnType]
           /\ \E before \in Histories, new \in Histories :
                 /\ before = IF remote[b] = None THEN remote[Main] ELSE remote[b]
                 /\ new = before \cup {<<commits + 1, b>>}
                 /\ remote' = [remote EXCEPT ![b] = new]
           /\ \A u \in Turns :
                  Befalls(u, IF turn[u].branch = b /\ turn[u].job # "check"
                             THEN Worse(turn[u].woe, Moved) ELSE turn[u].woe)
<1>. DEFINE before == IF remote[b] = None THEN remote[Main] ELSE remote[b]
            new == before \cup {<<commits + 1, b>>}
<1>1. /\ UNCHANGED <<deployer, dirs, requests, register, ghosts>>
      /\ commits < MaxCommits /\ commits' = commits + 1 /\ commits \in 0 .. MaxCommits
  BY Parts DEF Develop
<1>2. MaxCommits \in Nat
  BY CheckoutAssumption
<1>3. commits + 1 \in 0 .. MaxCommits
  BY <1>1, <1>2
<1>4. before \in Histories
  BY Parts, RefsAre
<1>5. new \in Histories
  <2>1. <<commits + 1, b>> \in (0 .. MaxCommits) \X (Places \cup {"merge"})
    BY <1>3
  <2>. HIDE DEF before
  <2> QED
    BY <1>4, <2>1 DEF Histories
<1>6. ASSUME NEW u \in Turns
      PROVE  Befalls(u, IF turn[u].branch = b /\ turn[u].job # "check"
                        THEN Worse(turn[u].woe, Moved) ELSE turn[u].woe)
  <2>. DEFINE w == IF turn[u].branch = b /\ turn[u].job # "check"
                   THEN Worse(turn[u].woe, Moved) ELSE turn[u].woe
  <2>1. w \in 0 .. Clash
    BY WoeIs DEF Worse, Moved, Clash
  <2>2. turn'[u] = [turn[u] EXCEPT !.woe = w]
    BY DEF Develop
  <2>. HIDE DEF w
  <2>3. Befalls(u, w)
    BY <2>1, <2>2, BefallsIf
  <2> QED
    BY <2>3 DEF w
<1>7. turn' \in [Turns -> TurnType]
  <2>1. turn' = [u \in Turns |-> turn'[u]]
    BY DEF Develop
  <2> QED
    BY <2>1, <1>6 DEF Befalls
<1>8. remote' = [remote EXCEPT ![b] = new]
  BY DEF Develop
<1> QED
  BY <1>1, <1>3, <1>4, <1>5, <1>6, <1>7, <1>8

LEMMA RestartDoes ==
    ASSUME TypeInv, Restart
    PROVE  /\ UNCHANGED <<deployer, remote, commits, requests, register, asked>>
           /\ turn' = [t \in Turns |-> Idle]
           /\ \A t \in Turns : Busy(t) => turn[t].branch \in killed'
           /\ dirs' \in [Places -> Clone \cup {None}]
           /\ \E b \in Places, d \in Clone :
                 /\ killed' = killed \cup {b} /\ dirs[b] \in Clone
                 /\ dirs' = [dirs EXCEPT ![b] = d]
                 /\ d = dirs[b] \/ d = [dirs[b] EXCEPT !.index = "locked"]
<1>1. /\ UNCHANGED <<deployer, remote, commits, requests, register, asked>>
      /\ turn' = [t \in Turns |-> Idle]
      /\ \A t \in Turns : Busy(t) => turn[t].branch \in killed'
  BY DEF Restart, Busy, Place
<1>2. PICK b \in Places :
         /\ dirs[b] # None /\ killed' = killed \cup {b}
         /\ \E d \in {dirs[b], [dirs[b] EXCEPT !.index = "locked"]} :
                dirs' = [dirs EXCEPT ![b] = d]
  BY DEF Restart
<1>3. PICK d \in {dirs[b], [dirs[b] EXCEPT !.index = "locked"]} : dirs' = [dirs EXCEPT ![b] = d]
  BY <1>2
<1>4. dirs \in [Places -> Clone \cup {None}] /\ dirs[b] \in Clone
  BY <1>2, Parts
<1>5. d \in Clone
  BY <1>4 DEF Clone
<1> QED
  BY <1>1, <1>2, <1>3, <1>4, <1>5

-----------------------------------------------------------------------------
(* The types are kept.                                                     *)

LEMMA ActsKeepType ==
    ASSUME TypeInv, NEW t \in Turns, Acts(t),
           deployer' = deployer, remote' \in Refs, remote'[Main] \in Histories,
           commits' \in 0 .. MaxCommits, requests' = requests, register' \subseteq TurnType,
           asked' = asked, killed' \subseteq Places,
           turn'[t].pc \in Over \/ turn'[t].branch = turn[t].branch
    PROVE  TypeInv'
<1>1. turn' \in [Turns -> TurnType] /\ dirs' \in [Places -> Clone \cup {None}]
  BY Parts DEF Acts
<1>2. \A u \in Turns : turn'[u].pc \notin Over => turn'[u].branch \in Places
  BY Parts DEF Acts, Busy
<1> QED
  BY <1>1, <1>2 DEF TypeInv, TypeOK, Busy

LEMMA TypeStep == TypeInv /\ [Next]_vars => TypeInv'
<1> SUFFICES ASSUME TypeInv, [Next]_vars PROVE TypeInv'
  OBVIOUS
<1>a. /\ remote \in Refs /\ commits \in 0 .. MaxCommits /\ requests \in 0 .. MaxRequests
      /\ register \subseteq TurnType /\ asked \subseteq Branches /\ killed \subseteq Places
      /\ \A t \in Turns : Busy(t) => turn[t].branch \in Places
      /\ remote[Main] \in Histories /\ Idle.pc \in Over
  BY Parts, IdleIsATurn DEF Over
<1>1. CASE UNCHANGED vars
  BY <1>1 DEF vars, TypeInv, TypeOK, Busy
<1>2. CASE Restart
  <2>1. killed' \subseteq Places
    BY <1>2, <1>a, RestartDoes
  <2>2. turn' \in [Turns -> TurnType] /\ \A t \in Turns : turn'[t].pc \in Over
    BY <1>2, <1>a, RestartDoes, IdleIsATurn
  <2> QED
    BY <1>2, <1>a, <2>1, <2>2, RestartDoes DEF TypeInv, TypeOK, Busy
<1>3. ASSUME NEW b \in Places, Develop(b) PROVE TypeInv'
  <2>1. remote' \in Refs /\ remote'[Main] \in Histories
    BY <1>3, <1>a, DevelopDoes DEF Refs, Places
  <2>2. \A u \in Turns : turn'[u].pc = turn[u].pc /\ turn'[u].branch = turn[u].branch
    BY <1>3, DevelopDoes DEF Befalls, Kept
  <2> QED
    BY <1>3, <1>a, <2>1, <2>2, DevelopDoes DEF TypeInv, TypeOK, Busy, ghosts
<1>4. ASSUME NEW t \in Turns, NEW job \in {"check", "merge"}, NEW b \in Places, Ask(t, job, b)
      PROVE  TypeInv'
  <2>1. \A u \in Turns : u # t => turn'[u].pc = turn[u].pc /\ turn'[u].branch = turn[u].branch
    BY <1>4, AskDoes DEF Befalls, Kept
  <2>2. \A u \in Turns : turn'[u].pc \notin Over => turn'[u].branch \in Places
    BY <1>4, <1>a, <2>1, AskDoes DEF Busy
  <2> QED
    BY <1>4, <1>a, <2>2, AskDoes DEF TypeInv, TypeOK, Busy
<1>5. ASSUME NEW t \in Turns, Run(t), \A job \in {"check", "merge"}, b \in Places : ~Ask(t, job, b)
      PROVE  TypeInv'
  <2>1. CASE Acquire(t)
    BY <2>1, <1>a, AcquireDoes, ActsKeepType DEF world, ghosts, Kept
  <2>2. CASE CloneEnds(t)
    BY <2>2, <1>a, CloneEndsDoes, ActsKeepType DEF world, ghosts, Kept
  <2>3. CASE Fetch(t)
    BY <2>3, <1>a, FetchDoes, ActsKeepType DEF world, ghosts, Kept
  <2>4. CASE Heads(t)
    BY <2>4, <1>a, HeadsDoes, ActsKeepType DEF world, ghosts, Kept
  <2>5. CASE Checkout(t)
    BY <2>5, <1>a, CheckoutDoes, ActsKeepType DEF world, ghosts, Kept
  <2>6. CASE AcquireFails(t)
    BY <2>6, <1>a, AcquireFailsDoes, ActsKeepType DEF world, ghosts, Kept, GaveUp
  <2>7. CASE Check(t)
    BY <2>7, <1>a, CheckDoes, ActsKeepType DEF world, ghosts, Kept
  <2>8. CASE CheckoutMain(t)
    BY <2>8, <1>a, CheckoutMainDoes, ActsKeepType DEF world, ghosts, Kept
  <2>9. CASE Merge(t)
    BY <2>9, <1>a, MergeDoes, ActsKeepType DEF ghosts, Kept
  <2>10. CASE Abort(t)
    BY <2>10, <1>a, AbortDoes, ActsKeepType DEF world, ghosts
  <2>11. CASE Push(t)
    <3>1. remote' \in Refs /\ remote'[Main] \in Histories
      BY <2>11, <1>a, PushDoes, CloneIs DEF Refs, Places
    <3> QED
      BY <2>11, <1>a, <3>1, PushDoes, ActsKeepType DEF world, ghosts
  <2>12. CASE Vanished(t)
    BY <2>12, <1>a, VanishedDoes, ActsKeepType DEF world, ghosts
  <2>13. CASE Deploy(t)
    <3>1. register' \subseteq TurnType
      BY <2>13, <1>a, DeployDoes
    <3> QED
      BY <2>13, <1>a, <3>1, DeployDoes, ActsKeepType DEF ghosts
  <2>14. CASE Kill(t)
    <3>1. killed' \subseteq Places
      BY <2>14, <1>a, KillDoes DEF Acts
    <3>2. turn'[t].pc \in Over \/ turn'[t].branch = turn[t].branch
      BY <2>14, <1>a, KillDoes DEF GaveUp, Kept
    <3> QED
      BY <2>14, <1>a, <3>1, <3>2, KillDoes, ActsKeepType
  <2> QED
    BY <1>5, <2>1, <2>2, <2>3, <2>4, <2>5, <2>6, <2>7, <2>8, <2>9, <2>10, <2>11, <2>12, <2>13,
       <2>14 DEF Run
<1> QED
  BY <1>1, <1>2, <1>3, <1>4, <1>5 DEF Next

-----------------------------------------------------------------------------
(* Jobs: only who was asked to merges, deploys only after that, and on the *)
(* default branch there are only checks.                                   *)

Merging == {"main", "merge", "abort", "push"}
JobFits(t) ==
    /\ Busy(t) /\ turn[t].job # "check" => turn[t].branch \in asked
    /\ turn[t].pc \in Merging => turn[t].job = "merge"
    /\ turn[t].pc \in {"heads", "checkout"} => turn[t].branch # Main
    /\ At(t, "deploy") => turn[t].job = "deploy"
    /\ At(t, "run") => turn[t].job # "merge"
JobsFit == \A t \in Turns : JobFits(t)

\* The steps, for a proof by cases.
Works(t) ==
    \/ Acquire(t) \/ CloneEnds(t) \/ Fetch(t) \/ Heads(t) \/ Checkout(t)
    \/ AcquireFails(t) \/ Check(t) \/ CheckoutMain(t) \/ Merge(t) \/ Abort(t)
    \/ Push(t) \/ Vanished(t) \/ Deploy(t) \/ Kill(t)

LEMMA Cases ==
    ASSUME [Next]_vars
    PROVE  \/ UNCHANGED vars \/ Restart \/ \E b \in Places : Develop(b)
           \/ \E t \in Turns, job \in {"check", "merge"}, b \in Places : Ask(t, job, b)
           \/ \E t \in Turns : Works(t)
BY DEF Next, Run, Works

\* JobFits of a record.
Fits(r) ==
    /\ r.pc \notin Over /\ r.job # "check" => r.branch \in asked
    /\ r.pc \in Merging => r.job = "merge"
    /\ r.pc \in {"heads", "checkout"} => r.branch # Main
    /\ r.pc = "deploy" => r.job = "deploy"
    /\ r.pc = "run" => r.job # "merge"

LEMMA JobsFrom ==
    ASSUME TypeInv, JobsFit, NEW t \in Turns, Acts(t), asked' = asked, Fits(turn'[t])
    PROVE  JobsFit'
<1> SUFFICES ASSUME NEW u \in Turns PROVE JobFits(u)'
  BY DEF JobsFit
<1>1. CASE u = t
  BY <1>1 DEF JobFits, Fits, Busy, At
<1>2. CASE u # t
  <2>1. turn'[u] = turn[u]
    BY <1>2, Parts DEF Acts
  <2> QED
    BY <2>1 DEF JobsFit, JobFits, Busy, At
<1> QED
  BY <1>1, <1>2

LEMMA JobsStep == TypeInv /\ JobsFit /\ [Next]_vars => JobsFit'
<1> SUFFICES ASSUME TypeInv, JobsFit, [Next]_vars PROVE JobsFit'
  OBVIOUS
<1>a. Fits(Idle) /\ Idle.pc = "idle"
  BY IdleIsATurn DEF Fits, Over, Merging
<1>b. \A t \in Turns : Fits(turn[t])
  BY DEF JobsFit, JobFits, Fits, Busy, At
<1>1. CASE UNCHANGED vars
  BY <1>1 DEF vars, JobsFit, JobFits, Busy, At
<1>2. CASE Restart
  BY <1>2, <1>a, RestartDoes DEF JobsFit, JobFits, Busy, At, Merging, Over
<1>3. ASSUME NEW b \in Places, Develop(b) PROVE JobsFit'
  BY <1>3, DevelopDoes DEF JobsFit, JobFits, Busy, At, Befalls, Kept, ghosts
<1>4. ASSUME NEW t \in Turns, NEW job \in {"check", "merge"}, NEW b \in Places, Ask(t, job, b)
      PROVE  JobsFit'
  <2> SUFFICES ASSUME NEW u \in Turns PROVE JobFits(u)'
    BY DEF JobsFit
  <2>1. CASE u = t
    BY <1>4, <2>1, AskDoes DEF JobFits, Busy, At, Merging
  <2>2. CASE u # t
    <3>1. turn'[u].pc = turn[u].pc /\ turn'[u].branch = turn[u].branch /\ turn'[u].job = turn[u].job
      BY <1>4, <2>2, AskDoes DEF Befalls, Kept
    <3>2. asked \subseteq asked'
      BY <1>4, AskDoes
    <3> QED
      BY <3>1, <3>2 DEF JobsFit, JobFits, Busy, At
  <2> QED
    BY <2>1, <2>2
<1>5. ASSUME NEW t \in Turns, Works(t)
      PROVE  JobsFit'
  <2>1. CASE Acquire(t)
    BY <2>1, <1>b, AcquireDoes, JobsFrom DEF world, ghosts, Kept, Fits, Merging, Over, At
  <2>2. CASE CloneEnds(t)
    BY ZenonT(60), <2>2, <1>b, CloneEndsDoes, JobsFrom
       DEF world, ghosts, Kept, Fits, Merging, Over, At
  <2>3. CASE Fetch(t)
    <3>1. turn[t].branch = Main => turn[t].job = "check"
      BY <2>3, <1>b, FetchDoes, Parts, CheckoutAssumption DEF Fits, Over, At
    <3> QED
      BY <2>3, <3>1, <1>b, FetchDoes, JobsFrom DEF world, ghosts, Kept, Fits, Merging, Over, At
  <2>4. CASE Heads(t)
    BY <2>4, <1>b, HeadsDoes, JobsFrom DEF world, ghosts, Kept, Fits, Merging, Over, At
  <2>5. CASE Checkout(t)
    <3>1. /\ Acts(t) /\ asked' = asked /\ turn'[t].pc \in {"main", "run"}
          /\ turn'[t].pc = "main" => turn[t].job = "merge"
          /\ turn'[t].pc = "run" => turn[t].job # "merge"
          /\ turn'[t].job = turn[t].job /\ turn'[t].branch = turn[t].branch
          /\ turn[t].pc = "checkout"
      BY <2>5, CheckoutDoes DEF world, ghosts, Kept, At
    <3> QED
      BY <3>1, <1>b, JobsFrom DEF Fits, Merging, Over
  <2>6. CASE AcquireFails(t)
    BY <2>6, <1>a, <1>b, AcquireFailsDoes, JobsFrom
       DEF world, ghosts, GaveUp, Kept, Fits, Merging, Over, At
  <2>7. CASE Check(t)
    BY <2>7, <1>b, CheckDoes, JobsFrom DEF world, ghosts, Kept, Fits, Merging, Over, At
  <2>8. CASE CheckoutMain(t)
    BY <2>8, <1>a, <1>b, CheckoutMainDoes, JobsFrom
       DEF world, ghosts, Kept, Fits, Merging, Over, At
  <2>9. CASE Merge(t)
    BY <2>9, <1>b, MergeDoes, JobsFrom DEF ghosts, Kept, Fits, Merging, Over, At
  <2>10. CASE Abort(t)
    BY <2>10, <1>a, AbortDoes, JobsFrom DEF world, ghosts
  <2>11. CASE Push(t)
    BY <2>11, <1>a, <1>b, PushDoes, JobsFrom DEF world, ghosts, Fits, Merging, Over, At
  <2>12. CASE Vanished(t)
    BY <2>12, <1>a, VanishedDoes, JobsFrom DEF world, ghosts
  <2>13. CASE Deploy(t)
    BY <2>13, <1>a, DeployDoes, JobsFrom DEF ghosts
  <2>14. CASE Kill(t)
    BY <2>14, <1>a, <1>b, KillDoes, JobsFrom DEF GaveUp, Kept, Fits, Merging, Over, At
  <2> QED
    BY <1>5, <2>1, <2>2, <2>3, <2>4, <2>5, <2>6, <2>7, <2>8, <2>9, <2>10, <2>11, <2>12, <2>13,
       <2>14 DEF Works
<1> QED
  BY <1>1, <1>2, <1>3, <1>4, <1>5, Cases

-----------------------------------------------------------------------------
(* What a clone carries: main, here and there, only features that were     *)
(* asked for, a feature branch those and its own.                          *)

Carries(h, allowed) == \A c \in h : c[2] \in Branches => c[2] \in allowed
RefsCarry(refs, allowed) ==
    \A b \in Places : refs[b] # None => Carries(refs[b], allowed \cup {b})
DirCarries(d, b, allowed) ==
    d # None => /\ Carries(d.main, allowed) /\ Carries(d.branch, allowed \cup {b})
                /\ RefsCarry(d.origin, allowed)
CarriedWasAsked ==
    RefsCarry(remote, asked) /\ \A b \in Places : DirCarries(dirs[b], b, asked)

LEMMA CarryRules ==
    /\ \A h, g, a : Carries(h, a) /\ Carries(g, a) => Carries(h \cup g, a)
    /\ \A h, a, c : Carries(h, a) /\ a \subseteq c => Carries(h, c)
    /\ \A h, a : Carries(h, a \cup {Main}) => Carries(h, a)
    /\ \A n, a : Carries({<<n, "merge">>}, a)
    /\ \A n, b, a : b \in a \/ b = Main => Carries({<<n, b>>}, a)
    /\ \A a : Carries({}, a)
BY CheckoutAssumption DEF Carries, Places

LEMMA CarryFrom ==
    ASSUME TypeInv, CarriedWasAsked, NEW t \in Turns, Acts(t), asked' = asked,
           RefsCarry(remote', asked), DirCarries(There(t), turn[t].branch, asked)
    PROVE  CarriedWasAsked'
<1> SUFFICES ASSUME NEW b \in Places PROVE DirCarries(dirs'[b], b, asked)
  BY DEF CarriedWasAsked
<1>1. CASE b = turn[t].branch
  BY <1>1 DEF There
<1>2. CASE b # turn[t].branch
  <2>1. dirs'[b] = dirs[b]
    BY <1>2, Parts DEF Acts
  <2> QED
    BY <2>1 DEF CarriedWasAsked
<1> QED
  BY <1>1, <1>2

LEMMA CarryStep == TypeInv /\ JobsFit /\ CarriedWasAsked /\ [Next]_vars => CarriedWasAsked'
<1> SUFFICES ASSUME TypeInv, JobsFit, CarriedWasAsked, [Next]_vars PROVE CarriedWasAsked'
  OBVIOUS
<1>a. RefsCarry(remote, asked) /\ remote[Main] \in Histories /\ Carries(remote[Main], asked)
  BY Parts, NoneIsNothing, CarryRules DEF CarriedWasAsked, RefsCarry, Places
<1>b. \A t \in Turns : Busy(t) => DirCarries(Dir(t), turn[t].branch, asked)
  BY Parts DEF CarriedWasAsked, Dir, Place
<1>1. CASE UNCHANGED vars
  BY <1>1 DEF vars, CarriedWasAsked
<1>2. CASE Restart
  <2>1. PICK b \in Places, d \in Clone :
            /\ dirs[b] \in Clone /\ dirs' = [dirs EXCEPT ![b] = d]
            /\ d = dirs[b] \/ d = [dirs[b] EXCEPT !.index = "locked"]
    BY <1>2, RestartDoes
  <2>2. d.main = dirs[b].main /\ d.branch = dirs[b].branch /\ d.origin = dirs[b].origin
    BY <2>1 DEF Clone
  <2>3. DirCarries(d, b, asked)
    BY <2>1, <2>2, NoneIsNothing DEF CarriedWasAsked, DirCarries
  <2>4. asked' = asked /\ remote' = remote
    BY <1>2, RestartDoes
  <2>5. \A c \in Places : (dirs'[c] = d /\ c = b) \/ dirs'[c] = dirs[c]
    BY <2>1, Parts
  <2> QED
    BY <2>3, <2>4, <2>5 DEF CarriedWasAsked
<1>3. ASSUME NEW b \in Places, Develop(b) PROVE CarriedWasAsked'
  <2>1. PICK before \in Histories, new \in Histories :
            /\ before = IF remote[b] = None THEN remote[Main] ELSE remote[b]
            /\ new = before \cup {<<commits + 1, b>>}
            /\ remote' = [remote EXCEPT ![b] = new]
    BY <1>3, DevelopDoes
  <2>2. Carries(before, asked \cup {b})
    BY <2>1, <1>a, CarryRules DEF RefsCarry
  <2>3. Carries(new, asked \cup {b})
    <3>1. Carries({<<commits + 1, b>>}, asked \cup {b})
      BY DEF Carries
    <3> QED
      BY <2>1, <2>2, <3>1, CarryRules
  <2>4. RefsCarry(remote', asked)
    BY <2>1, <2>3, <1>a, Parts DEF RefsCarry, Refs
  <2>5. asked' = asked /\ dirs' = dirs
    BY <1>3, DevelopDoes DEF ghosts
  <2> QED
    BY <2>4, <2>5 DEF CarriedWasAsked
<1>4. ASSUME NEW t \in Turns, NEW job \in {"check", "merge"}, NEW b \in Places, Ask(t, job, b)
      PROVE  CarriedWasAsked'
  <2>1. asked \subseteq asked' /\ remote' = remote /\ dirs' = dirs
    BY <1>4, AskDoes
  <2>2. \A refs : RefsCarry(refs, asked) => RefsCarry(refs, asked')
    BY <2>1 DEF RefsCarry, Carries
  <2>3. \A d : \A c \in Places : DirCarries(d, c, asked) => DirCarries(d, c, asked')
    BY <2>1, <2>2 DEF DirCarries, Carries
  <2> QED
    BY <2>1, <2>2, <2>3 DEF CarriedWasAsked
<1>5. ASSUME NEW t \in Turns, Works(t)
      PROVE  CarriedWasAsked'
  <2>a. ASSUME Acts(t), asked' = asked, remote' = remote, There(t) = Dir(t) PROVE CarriedWasAsked'
    BY <2>a, <1>a, <1>b, CarryFrom DEF Acts
  <2>b. ASSUME Acts(t), asked' = asked, remote' = remote, Dir(t) \in Clone,
               There(t).main = Dir(t).main, There(t).branch = Dir(t).branch,
               There(t).origin = Dir(t).origin
        PROVE  CarriedWasAsked'
    <3>1. DirCarries(There(t), turn[t].branch, asked)
      BY <2>b, <1>b, NoneIsNothing DEF DirCarries, Acts
    <3> QED
      BY <2>b, <3>1, <1>a, CarryFrom
  <2>1. CASE Acquire(t)
    <3>1. DirCarries(Half, turn[t].branch, asked)
      BY CarryRules DEF DirCarries, Half, RefsCarry
    <3>2. There(t) = Half \/ There(t) = Dir(t)
      BY <2>1, AcquireDoes
    <3>3. CASE There(t) = Half
      BY <2>1, <3>1, <3>3, <1>a, AcquireDoes, CarryFrom DEF world, ghosts
    <3> QED
      BY <2>1, <2>a, <3>2, <3>3, AcquireDoes DEF world, ghosts
  <2>2. CASE CloneEnds(t)
    <3>1. /\ There(t).main = remote[Main] /\ There(t).origin = remote
          /\ There(t).branch = Dir(t).branch
      BY <2>2, CloneEndsDoes DEF Clone
    <3>2. DirCarries(Dir(t), turn[t].branch, asked) /\ Dir(t) # None
      BY <2>2, <1>b, CloneEndsDoes, NoneIsNothing DEF Acts
    <3>3. DirCarries(There(t), turn[t].branch, asked)
      BY <3>1, <3>2, <1>a DEF DirCarries
    <3> QED
      BY <2>2, <3>3, <1>a, CloneEndsDoes, CarryFrom DEF world, ghosts
  <2>3. CASE Fetch(t)
    <3>1. CASE There(t) = [Dir(t) EXCEPT !.origin = remote]
      <4>1. /\ There(t).main = Dir(t).main /\ There(t).origin = remote
            /\ There(t).branch = Dir(t).branch
        BY <2>3, <3>1, FetchDoes DEF Clone
      <4>2. DirCarries(Dir(t), turn[t].branch, asked) /\ Dir(t) # None
        BY <2>3, <1>b, FetchDoes, NoneIsNothing DEF Acts
      <4>3. DirCarries(There(t), turn[t].branch, asked)
        BY <4>1, <4>2, <1>a DEF DirCarries
      <4> QED
        BY <2>3, <4>3, <1>a, FetchDoes, CarryFrom DEF world, ghosts
    <3> QED
      BY <2>3, <2>a, <3>1, FetchDoes DEF world, ghosts
  <2>4. CASE Heads(t)
    BY <2>4, <2>a, HeadsDoes DEF world, ghosts
  <2>5. CASE Checkout(t)
    <3>1. PICK from \in Histories :
              /\ from = Branched(Dir(t), turn[t].has, turn[t].branch)
              /\ There(t) = [Dir(t) EXCEPT !.branch = from, !.head = "branch"]
      BY <2>5, CheckoutDoes
    <3>2. DirCarries(Dir(t), turn[t].branch, asked) /\ Dir(t) # None /\ turn[t].branch \in Places
      BY <2>5, <1>b, CheckoutDoes, NoneIsNothing, Parts DEF Acts
    <3>3. Carries(from, asked \cup {turn[t].branch})
      <4>1. Carries(Head(Dir(t)), asked \cup {turn[t].branch})
        BY <3>2, CarryRules DEF Head, DirCarries
      <4> QED
        BY <3>1, <3>2, <4>1, NoneIsNothing DEF Branched, DirCarries, RefsCarry
    <3>4. /\ There(t).main = Dir(t).main /\ There(t).origin = Dir(t).origin
          /\ There(t).branch = from
      BY <2>5, <3>1, CheckoutDoes DEF Clone
    <3>5. DirCarries(There(t), turn[t].branch, asked)
      BY <3>2, <3>3, <3>4 DEF DirCarries
    <3> QED
      BY <2>5, <3>5, <1>a, CheckoutDoes, CarryFrom DEF world, ghosts
  <2>6. CASE AcquireFails(t)
    <3>1. DirCarries(None, turn[t].branch, asked)
      BY DEF DirCarries
    <3>2. CASE There(t) = None
      BY <2>6, <3>1, <3>2, <1>a, AcquireFailsDoes, CarryFrom DEF world, ghosts
    <3> QED
      BY <2>6, <2>a, <3>2, AcquireFailsDoes DEF world, ghosts
  <2>7. CASE Check(t)
    BY <2>7, <2>a, CheckDoes DEF world, ghosts
  <2>8. CASE CheckoutMain(t)
    <3>1. CASE /\ Dir(t) \in Clone /\ There(t) \in Clone
               /\ Dir(t).origin[Main] \in Histories
               /\ There(t) = [Dir(t) EXCEPT !.main = Dir(t).origin[Main], !.head = "main"]
      <4>1. /\ There(t).main = Dir(t).origin[Main] /\ There(t).origin = Dir(t).origin
            /\ There(t).branch = Dir(t).branch
        BY <3>1 DEF Clone
      <4>2. DirCarries(Dir(t), turn[t].branch, asked) /\ Dir(t) # None
        BY <2>8, <3>1, <1>b, CheckoutMainDoes, NoneIsNothing DEF Acts
      <4>3. Carries(Dir(t).origin[Main], asked)
        BY <3>1, <4>2, NoneIsNothing, CarryRules DEF DirCarries, RefsCarry, Places
      <4>4. DirCarries(There(t), turn[t].branch, asked)
        BY <4>1, <4>2, <4>3 DEF DirCarries
      <4> QED
        BY <2>8, <4>4, <1>a, CheckoutMainDoes, CarryFrom DEF world, ghosts
    <3> QED
      BY <2>8, <2>a, <3>1, CheckoutMainDoes DEF world, ghosts
  <2>9. CASE Merge(t)
    <3>1. DirCarries(Dir(t), turn[t].branch, asked) /\ Dir(t) # None /\ turn[t].branch \in asked
      BY <2>9, <1>b, MergeDoes, NoneIsNothing DEF Acts, JobsFit, JobFits, Merging, At, Busy
    <3>2. asked \cup {turn[t].branch} = asked
      BY <3>1
    <3>3. /\ Carries(Dir(t).main, asked) /\ Carries(Dir(t).branch, asked)
          /\ Carries(Head(Dir(t)), asked)
      BY <3>1, <3>2 DEF DirCarries, Head
    <3>5. CASE There(t) = [Dir(t) EXCEPT !.index = "merging"]
      <4>1. /\ There(t).main = Dir(t).main /\ There(t).origin = Dir(t).origin
            /\ There(t).branch = Dir(t).branch
        BY <2>9, <3>5, MergeDoes DEF Clone
      <4> QED
        BY <2>9, <2>b, <4>1, MergeDoes DEF ghosts
    <3>6. ASSUME NEW new \in Histories,
                 new = Head(Dir(t)) \cup Dir(t).branch \cup {<<commits + 1, "merge">>},
                 There(t) = Merged(Dir(t), new)
          PROVE  CarriedWasAsked'
      <4>1. Carries(new, asked)
        <5>1. Carries({<<commits + 1, "merge">>}, asked)
          BY CheckoutAssumption DEF Carries, Places
        <5>2. Carries(Head(Dir(t)) \cup Dir(t).branch, asked)
          BY <3>3, CarryRules
        <5> QED
          BY <3>6, <5>1, <5>2, CarryRules
      <4>2. /\ There(t).main \in {new, Dir(t).main} /\ There(t).branch \in {new, Dir(t).branch}
            /\ There(t).origin = Dir(t).origin
        <5>1. Dir(t) \in Clone
          BY <2>9, MergeDoes
        <5>2. /\ Merged(Dir(t), new).main \in {new, Dir(t).main}
              /\ Merged(Dir(t), new).branch \in {new, Dir(t).branch}
              /\ Merged(Dir(t), new).origin = Dir(t).origin
          BY <5>1, MergedIs
        <5> QED
          BY <3>6, <5>2
      <4>3. DirCarries(There(t), turn[t].branch, asked)
        BY <3>1, <3>2, <3>3, <4>1, <4>2 DEF DirCarries
      <4> QED
        BY <2>9, <4>3, <1>a, MergeDoes, CarryFrom DEF ghosts
    <3> QED
      BY <2>9, <2>a, <3>5, <3>6, MergeDoes DEF ghosts
  <2>10. CASE Abort(t)
    <3>1. /\ There(t).main = Dir(t).main /\ There(t).origin = Dir(t).origin
          /\ There(t).branch = Dir(t).branch
      BY <2>10, AbortDoes DEF Clone
    <3> QED
      BY <2>10, <2>b, <3>1, AbortDoes DEF world, ghosts
  <2>11. CASE Push(t)
    <3>1. DirCarries(Dir(t), turn[t].branch, asked) /\ Dir(t) # None
      BY <2>11, <1>b, PushDoes, NoneIsNothing DEF Acts
    <3>2. CASE /\ remote' = [remote EXCEPT ![Main] = Dir(t).main]
               /\ There(t) = [Dir(t) EXCEPT !.origin[Main] = Dir(t).main]
      <4>1. /\ There(t).main = Dir(t).main /\ There(t).branch = Dir(t).branch
            /\ There(t).origin = [Dir(t).origin EXCEPT ![Main] = Dir(t).main]
            /\ Dir(t).origin \in Refs
        BY <2>11, <3>2, PushDoes DEF Clone
      <4>2. Carries(Dir(t).main, asked \cup {Main})
        BY <3>1, CarryRules DEF DirCarries
      <4>3. RefsCarry(remote', asked)
        BY <3>2, <4>2, <1>a, Parts DEF RefsCarry, Refs
      <4>4. RefsCarry([Dir(t).origin EXCEPT ![Main] = Dir(t).main], asked)
        BY <3>1, <4>1, <4>2 DEF RefsCarry, Refs, DirCarries
      <4>5. DirCarries(There(t), turn[t].branch, asked)
        BY <3>1, <4>1, <4>4 DEF DirCarries
      <4> QED
        BY <2>11, <4>3, <4>5, PushDoes, CarryFrom DEF world, ghosts
    <3> QED
      BY <2>11, <2>a, <3>2, PushDoes DEF world, ghosts
  <2>12. CASE Vanished(t)
    BY <2>12, <2>a, VanishedDoes DEF world, ghosts
  <2>13. CASE Deploy(t)
    BY <2>13, <2>a, DeployDoes DEF ghosts
  <2>14. CASE Kill(t)
    <3>1. /\ There(t).main = Dir(t).main /\ There(t).origin = Dir(t).origin
          /\ There(t).branch = Dir(t).branch
      BY <2>14, KillDoes DEF Clone
    <3> QED
      BY <2>14, <2>b, <3>1, KillDoes
  <2> QED
    BY <1>5, <2>1, <2>2, <2>3, <2>4, <2>5, <2>6, <2>7, <2>8, <2>9, <2>10, <2>11, <2>12, <2>13,
       <2>14 DEF Works
<1> QED
  BY <1>1, <1>2, <1>3, <1>4, <1>5, Cases

-----------------------------------------------------------------------------
(* Wreckage: a lock was left by a kill; so was a conflict, unless a turn   *)
(* is about to abort it.                                                   *)

WreckIn(b) ==
    dirs[b] # None =>
        /\ dirs[b].index = "locked" => b \in killed
        /\ dirs[b].index = "merging" /\ b \notin killed =>
               \E t \in Turns : At(t, "abort") /\ turn[t].branch = b
WrecksAreKnown == \A b \in Places : WreckIn(b)

LEMMA WreckFrom ==
    ASSUME TypeInv, WrecksAreKnown, NEW t \in Turns, Acts(t), killed \subseteq killed',
           \/ There(t) = None \/ There(t).index = "clean" \/ turn[t].branch \in killed'
           \/ Dir(t) # None /\ There(t).index = Dir(t).index /\ ~At(t, "abort")
           \/ There(t).index = "merging" /\ turn'[t].pc = "abort"
                  /\ turn'[t].branch = turn[t].branch
    PROVE  WrecksAreKnown'
<1> SUFFICES ASSUME NEW b \in Places PROVE WreckIn(b)'
  BY DEF WrecksAreKnown
<1>a. \A u \in Turns : u # t => turn'[u] = turn[u]
  BY Parts DEF Acts
<1>b. WreckIn(b)
  BY DEF WrecksAreKnown
<1>1. CASE b # turn[t].branch
  <2>1. dirs'[b] = dirs[b]
    BY <1>1, Parts DEF Acts
  <2> QED
    BY <1>1, <1>a, <1>b, <2>1 DEF WreckIn, At
<1>2. CASE b = turn[t].branch
  <2>1. dirs'[b] = There(t) /\ dirs[b] = Dir(t)
    BY <1>2 DEF There, Dir, Place
  <2>2. CASE Dir(t) # None /\ There(t).index = Dir(t).index /\ ~At(t, "abort")
    BY <1>a, <1>b, <2>1, <2>2 DEF WreckIn, At
  <2>3. CASE There(t).index = "merging" /\ turn'[t].pc = "abort" /\ turn'[t].branch = turn[t].branch
    BY <1>2, <2>1, <2>3 DEF WreckIn, At
  <2> QED
    BY <1>2, <2>1, <2>2, <2>3 DEF WreckIn
<1> QED
  BY <1>1, <1>2

LEMMA WreckStep == TypeInv /\ WrecksAreKnown /\ [Next]_vars => WrecksAreKnown'
<1> SUFFICES ASSUME TypeInv, WrecksAreKnown, [Next]_vars PROVE WrecksAreKnown'
  OBVIOUS
<1>1. CASE UNCHANGED vars
  BY <1>1 DEF vars, WrecksAreKnown, WreckIn, At
<1>2. CASE Restart
  <2> SUFFICES ASSUME NEW c \in Places PROVE WreckIn(c)'
    BY DEF WrecksAreKnown
  <2>1. PICK b \in Places, d \in Clone :
            killed' = killed \cup {b} /\ dirs' = [dirs EXCEPT ![b] = d]
    BY <1>2, RestartDoes
  <2>2. CASE c = b
    BY <2>1, <2>2 DEF WreckIn
  <2>3. CASE c # b
    <3>1. dirs'[c] = dirs[c]
      BY <2>1, <2>3, Parts
    <3>2. c \notin killed' => ~ \E t \in Turns : At(t, "abort") /\ turn[t].branch = c
      BY <1>2, RestartDoes DEF At, Busy, Over
    <3> QED
      BY <2>1, <3>1, <3>2 DEF WreckIn, WrecksAreKnown
  <2> QED
    BY <2>2, <2>3
<1>3. ASSUME NEW b \in Places, Develop(b) PROVE WrecksAreKnown'
  BY <1>3, DevelopDoes DEF WrecksAreKnown, WreckIn, At, Befalls, Kept, ghosts
<1>4. ASSUME NEW t \in Turns, NEW job \in {"check", "merge"}, NEW b \in Places, Ask(t, job, b)
      PROVE  WrecksAreKnown'
  <2>1. \A u \in Turns : At(u, "abort") =>
            turn'[u].pc = "abort" /\ turn'[u].branch = turn[u].branch
    BY <1>4, AskDoes DEF Befalls, Kept, Busy, Over, At
  <2> QED
    BY <1>4, <2>1, AskDoes DEF WrecksAreKnown, WreckIn, At
<1>5. ASSUME NEW t \in Turns, Works(t)
      PROVE  WrecksAreKnown'
  <2>a. ASSUME Acts(t), killed' = killed, There(t) = Dir(t), ~At(t, "abort") PROVE WrecksAreKnown'
    BY <2>a, WreckFrom
  <2>b. ASSUME Acts(t), killed' = killed, Dir(t) \in Clone, There(t).index = Dir(t).index,
               ~At(t, "abort")
        PROVE  WrecksAreKnown'
    BY <2>b, NoneIsNothing, WreckFrom
  <2>1. CASE Acquire(t)
    BY <2>1, <2>a, AcquireDoes, WreckFrom DEF world, ghosts, Half, At
  <2>2. CASE CloneEnds(t)
    <3>1. There(t).index = Dir(t).index
      BY <2>2, CloneEndsDoes DEF Clone
    <3> QED
      BY <2>2, <2>b, <3>1, CloneEndsDoes DEF world, ghosts, At
  <2>3. CASE Fetch(t)
    <3>1. There(t).index = Dir(t).index
      BY <2>3, FetchDoes DEF Clone
    <3> QED
      BY <2>3, <2>b, <3>1, FetchDoes DEF world, ghosts, At
  <2>4. CASE Heads(t)
    BY <2>4, <2>a, HeadsDoes DEF world, ghosts, At
  <2>5. CASE Checkout(t)
    <3>1. There(t).index = Dir(t).index
      BY <2>5, CheckoutDoes DEF Clone
    <3> QED
      BY <2>5, <2>b, <3>1, CheckoutDoes DEF world, ghosts, At
  <2>6. CASE AcquireFails(t)
    BY <2>6, <2>a, AcquireFailsDoes, WreckFrom DEF world, ghosts, At
  <2>7. CASE Check(t)
    BY <2>7, <2>a, CheckDoes DEF world, ghosts, At
  <2>8. CASE CheckoutMain(t)
    <3>1. ~At(t, "abort") /\ Acts(t) /\ killed' = killed
      BY <2>8, CheckoutMainDoes DEF world, ghosts, At
    <3>2. CASE There(t) = Dir(t)
      BY <2>a, <3>1, <3>2
    <3>3. CASE Dir(t) \in Clone /\ There(t) = [Dir(t) EXCEPT !.main = Dir(t).origin[Main],
                                                             !.head = "main"]
      <4>1. There(t).index = Dir(t).index
        BY <3>3 DEF Clone
      <4> QED
        BY <2>b, <3>1, <3>3, <4>1
    <3> QED
      BY <2>8, <3>2, <3>3, CheckoutMainDoes
  <2>9. CASE Merge(t)
    <3>1. ~At(t, "abort") /\ Acts(t) /\ killed' = killed /\ Dir(t) \in Clone
      BY <2>9, MergeDoes DEF ghosts, At
    <3>2. CASE There(t) = Dir(t)
      BY <2>a, <3>1, <3>2
    <3>3. CASE There(t) = [Dir(t) EXCEPT !.index = "merging"] /\ turn'[t].pc = "abort"
      <4>1. There(t).index = "merging" /\ turn'[t].branch = turn[t].branch
        BY <2>9, <3>1, <3>3, MergeDoes DEF Clone, Kept
      <4> QED
        BY <3>1, <3>3, <4>1, WreckFrom
    <3>4. CASE \E new \in Histories : There(t) = Merged(Dir(t), new)
      <4>1. There(t).index = Dir(t).index
        BY <3>1, <3>4, MergedIs
      <4> QED
        BY <2>b, <3>1, <4>1
    <3> QED
      BY <2>9, <3>2, <3>3, <3>4, MergeDoes
  <2>10. CASE Abort(t)
    <3>1. Acts(t) /\ killed' = killed /\ Dir(t) \in Clone
          /\ There(t) = [Dir(t) EXCEPT !.index = Aborted(Dir(t).index)]
      BY <2>10, AbortDoes DEF world, ghosts
    <3>2. There(t).index = Aborted(Dir(t).index) /\ Dir(t).index \in {"clean", "merging", "locked"}
      BY <3>1 DEF Clone
    <3>3. There(t).index = "clean" \/ Dir(t).index = "locked"
      BY <3>2 DEF Aborted
    <3>4. Dir(t).index = "locked" => turn[t].branch \in killed
      BY <3>1, NoneIsNothing, Parts DEF WrecksAreKnown, WreckIn, Acts, Dir, Place
    <3> QED
      BY <3>1, <3>3, <3>4, WreckFrom
  <2>11. CASE Push(t)
    <3>1. There(t).index = Dir(t).index
      BY <2>11, PushDoes DEF Clone
    <3> QED
      BY <2>11, <2>b, <3>1, PushDoes DEF world, ghosts, At
  <2>12. CASE Vanished(t)
    BY <2>12, VanishedDoes, WreckFrom DEF world, ghosts
  <2>13. CASE Deploy(t)
    BY <2>13, <2>a, DeployDoes DEF ghosts, At
  <2>14. CASE Kill(t)
    BY <2>14, KillDoes, WreckFrom
  <2> QED
    BY <1>5, <2>1, <2>2, <2>3, <2>4, <2>5, <2>6, <2>7, <2>8, <2>9, <2>10, <2>11, <2>12, <2>13,
       <2>14 DEF Works
<1> QED
  BY <1>1, <1>2, <1>3, <1>4, <1>5, Cases

-----------------------------------------------------------------------------
(* The default branch is never empty, here and there.                      *)

MainStands ==
    /\ remote[Main] # {}
    /\ \A b \in Places : dirs[b] # None /\ dirs[b].origin[Main] # None =>
           dirs[b].origin[Main] # {}
Stands(d) == d # None /\ d.origin[Main] # None => d.origin[Main] # {}

LEMMA StandsFrom ==
    ASSUME TypeInv, MainStands, NEW t \in Turns, Acts(t), remote'[Main] # {}, Stands(There(t))
    PROVE  MainStands'
<1>1. ASSUME NEW b \in Places PROVE Stands(dirs'[b])
  <2>1. CASE b = turn[t].branch
    BY <2>1 DEF There
  <2>2. CASE b # turn[t].branch
    BY <2>2, Parts DEF Acts, MainStands, Stands
  <2> QED
    BY <2>1, <2>2
<1> QED
  BY <1>1 DEF MainStands, Stands

LEMMA MainStep == TypeInv /\ MainStands /\ [Next]_vars => MainStands'
<1> SUFFICES ASSUME TypeInv, MainStands, [Next]_vars PROVE MainStands'
  OBVIOUS
<1>a. remote[Main] # {} /\ remote[Main] \in Histories
  BY Parts DEF MainStands
<1>b. \A t \in Turns : Busy(t) => Stands(Dir(t))
  BY Parts DEF MainStands, Dir, Place, Stands
<1>1. CASE UNCHANGED vars
  BY <1>1 DEF vars, MainStands
<1>2. CASE Restart
  <2>1. PICK b \in Places, d \in Clone :
            /\ dirs[b] \in Clone /\ dirs' = [dirs EXCEPT ![b] = d]
            /\ d = dirs[b] \/ d = [dirs[b] EXCEPT !.index = "locked"]
    BY <1>2, RestartDoes
  <2>2. d.origin = dirs[b].origin /\ dirs[b] # None
    BY <2>1, NoneIsNothing DEF Clone
  <2>3. \A c \in Places : (dirs'[c] = d /\ c = b) \/ dirs'[c] = dirs[c]
    BY <2>1, Parts
  <2>4. remote' = remote
    BY <1>2, RestartDoes
  <2> QED
    BY <2>2, <2>3, <2>4 DEF MainStands
<1>3. ASSUME NEW b \in Places, Develop(b) PROVE MainStands'
  <2>1. PICK before \in Histories, new \in Histories :
            /\ new = before \cup {<<commits + 1, b>>}
            /\ remote' = [remote EXCEPT ![b] = new]
    BY <1>3, DevelopDoes
  <2>2. remote'[Main] # {}
    <3>1. <<commits + 1, b>> \in new
      BY <2>1
    <3>2. Main \in Places /\ remote \in Refs
      BY Parts DEF Places
    <3>3. remote'[Main] = new \/ remote'[Main] = remote[Main]
      BY <2>1, <3>2 DEF Refs
    <3> QED
      BY <3>1, <3>3, <1>a
  <2> QED
    BY <1>3, <2>2, DevelopDoes DEF MainStands
<1>4. ASSUME NEW t \in Turns, NEW job \in {"check", "merge"}, NEW b \in Places, Ask(t, job, b)
      PROVE  MainStands'
  BY <1>4, AskDoes DEF MainStands
<1>5. ASSUME NEW t \in Turns, Works(t)
      PROVE  MainStands'
  <2>a. ASSUME Acts(t), remote' = remote, There(t) = Dir(t) PROVE MainStands'
    BY <2>a, <1>a, <1>b, StandsFrom DEF Acts
  <2>b. ASSUME Acts(t), remote' = remote, Dir(t) \in Clone, There(t).origin = Dir(t).origin
        PROVE  MainStands'
    BY <2>b, <1>a, <1>b, NoneIsNothing, StandsFrom DEF Acts, Stands
  <2>c. ASSUME Acts(t), remote' = remote, There(t).origin = remote PROVE MainStands'
    BY <2>c, <1>a, StandsFrom DEF Stands
  <2>1. CASE Acquire(t)
    <3>1. Stands(Half)
      BY DEF Stands, Half, Places
    <3> QED
      BY <2>1, <2>a, <3>1, <1>a, AcquireDoes, StandsFrom
  <2>2. CASE CloneEnds(t)
    <3>1. There(t).origin = remote
      BY <2>2, CloneEndsDoes DEF Clone
    <3> QED
      BY <2>2, <2>c, <3>1, CloneEndsDoes
  <2>3. CASE Fetch(t)
    <3>1. There(t).origin = remote \/ There(t) = Dir(t)
      BY <2>3, FetchDoes DEF Clone
    <3> QED
      BY <2>3, <2>a, <2>c, <3>1, FetchDoes
  <2>4. CASE Heads(t)
    BY <2>4, <2>a, HeadsDoes
  <2>5. CASE Checkout(t)
    <3>1. There(t).origin = Dir(t).origin
      BY <2>5, CheckoutDoes DEF Clone
    <3> QED
      BY <2>5, <2>b, <3>1, CheckoutDoes
  <2>6. CASE AcquireFails(t)
    <3>1. Stands(None)
      BY DEF Stands
    <3> QED
      BY <2>6, <2>a, <3>1, <1>a, AcquireFailsDoes, StandsFrom
  <2>7. CASE Check(t)
    BY <2>7, <2>a, CheckDoes
  <2>8. CASE CheckoutMain(t)
    <3>1. (There(t).origin = Dir(t).origin /\ Dir(t) \in Clone) \/ There(t) = Dir(t)
      BY <2>8, CheckoutMainDoes DEF Clone
    <3> QED
      BY <2>8, <2>a, <2>b, <3>1, CheckoutMainDoes
  <2>9. CASE Merge(t)
    <3>1. There(t).origin = Dir(t).origin
      <4>1. CASE \E new \in Histories : There(t) = Merged(Dir(t), new)
        BY <2>9, <4>1, MergeDoes, MergedIs
      <4>2. CASE There(t) = Dir(t)
        BY <4>2
      <4>3. CASE There(t) = [Dir(t) EXCEPT !.index = "merging"]
        BY <2>9, <4>3, MergeDoes DEF Clone
      <4> QED
        BY <2>9, <4>1, <4>2, <4>3, MergeDoes
    <3> QED
      BY <2>9, <2>b, <3>1, MergeDoes
  <2>10. CASE Abort(t)
    <3>1. There(t).origin = Dir(t).origin
      BY <2>10, AbortDoes DEF Clone
    <3> QED
      BY <2>10, <2>b, <3>1, AbortDoes
  <2>11. CASE Push(t)
    <3>1. CASE /\ remote[Main] \subseteq Dir(t).main
               /\ remote' = [remote EXCEPT ![Main] = Dir(t).main]
               /\ There(t) = [Dir(t) EXCEPT !.origin[Main] = Dir(t).main]
      <4>1. /\ There(t).origin = [Dir(t).origin EXCEPT ![Main] = Dir(t).main]
            /\ Dir(t).origin \in Refs
        BY <2>11, <3>1, PushDoes DEF Clone
      <4>2. There(t).origin[Main] = Dir(t).main /\ remote'[Main] = Dir(t).main
        BY <3>1, <4>1, Parts DEF Refs, Places
      <4>3. Dir(t).main # {}
        BY <3>1, <1>a
      <4> QED
        BY <2>11, <4>2, <4>3, PushDoes, StandsFrom DEF Stands
    <3> QED
      BY <2>11, <2>a, <3>1, PushDoes
  <2>12. CASE Vanished(t)
    BY <2>12, <2>a, VanishedDoes
  <2>13. CASE Deploy(t)
    BY <2>13, <2>a, DeployDoes
  <2>14. CASE Kill(t)
    <3>1. There(t).origin = Dir(t).origin
      BY <2>14, KillDoes DEF Clone
    <3> QED
      BY <2>14, <2>b, <3>1, KillDoes
  <2> QED
    BY <1>5, <2>1, <2>2, <2>3, <2>4, <2>5, <2>6, <2>7, <2>8, <2>9, <2>10, <2>11, <2>12, <2>13,
       <2>14 DEF Works
<1> QED
  BY <1>1, <1>2, <1>3, <1>4, <1>5, Cases

-----------------------------------------------------------------------------
(* A turn that no other has met in its directory is alone there.           *)

Alone(t) == Busy(t) /\ turn[t].woe < Clash
AloneIsAlone ==
    \A t, u \in Turns :
        Alone(t) /\ Busy(u) /\ turn[u].branch = turn[t].branch => t = u

LEMMA WoeOf ==
    ASSUME TypeInv, NEW t \in Turns
    PROVE  /\ turn[t].woe \in Nat /\ Worse(turn[t].woe, Moved) \in Nat
           /\ Refreshed(t) < Clash => turn[t].woe < Clash
           /\ Worse(turn[t].woe, Blind) < Clash => turn[t].woe < Clash
           /\ Worse(turn[t].woe, Blind) >= Blind
           /\ Worse(turn[t].woe, Moved) < Clash => turn[t].woe < Clash
           /\ Worse(turn[t].woe, Moved) >= Moved
           /\ Worse(turn[t].woe, Moved) < Blind => turn[t].woe < Blind
           /\ Worse(turn[t].woe, Moved) >= turn[t].woe
           /\ Refreshed(t) < Blind => turn[t].woe < Blind
           /\ turn[t].job # "merge" => Refreshed(t) = turn[t].woe
BY Parts DEF TurnType, Worse, Refreshed, Blind, Clash, Moved

\* What a turn's own step can do to its name and its woe.
LEMMA ActsGoOn ==
    ASSUME TypeInv, NEW t \in Turns, Works(t)
    PROVE  /\ Acts(t)
           /\ turn'[t].pc \notin Over =>
                 /\ turn'[t].branch = turn[t].branch
                 /\ turn'[t].woe < Clash => turn[t].woe < Clash
<1>a. Idle.pc \in Over
  BY IdleIsATurn DEF Over
<1>1. CASE Acquire(t)
  BY <1>1, AcquireDoes DEF Kept
<1>2. CASE CloneEnds(t)
  BY <1>2, CloneEndsDoes DEF Kept
<1>3. CASE Fetch(t)
  BY <1>3, FetchDoes, WoeOf DEF Kept
<1>4. CASE Heads(t)
  BY <1>4, HeadsDoes, WoeOf DEF Kept
<1>5. CASE Checkout(t)
  BY <1>5, CheckoutDoes DEF Kept
<1>6. CASE AcquireFails(t)
  BY <1>6, <1>a, AcquireFailsDoes DEF Kept, GaveUp
<1>7. CASE Check(t)
  BY <1>7, CheckDoes DEF Kept
<1>8. CASE CheckoutMain(t)
  BY <1>8, <1>a, CheckoutMainDoes DEF Kept
<1>9. CASE Merge(t)
  BY <1>9, MergeDoes DEF Kept
<1>10. CASE Abort(t)
  BY <1>10, <1>a, AbortDoes
<1>11. CASE Push(t)
  BY <1>11, <1>a, PushDoes
<1>12. CASE Vanished(t)
  BY <1>12, <1>a, VanishedDoes
<1>13. CASE Deploy(t)
  BY <1>13, <1>a, DeployDoes
<1>14. CASE Kill(t)
  BY <1>14, <1>a, KillDoes DEF Kept, GaveUp
<1> QED
  BY <1>1, <1>2, <1>3, <1>4, <1>5, <1>6, <1>7, <1>8, <1>9, <1>10, <1>11, <1>12, <1>13,
     <1>14 DEF Works

LEMMA AloneStep == TypeInv /\ AloneIsAlone /\ [Next]_vars => AloneIsAlone'
<1> SUFFICES ASSUME TypeInv, AloneIsAlone, [Next]_vars PROVE AloneIsAlone'
  OBVIOUS
<1>1. CASE UNCHANGED vars
  BY <1>1 DEF vars, AloneIsAlone, Alone, Busy
<1>2. CASE Restart
  BY <1>2, RestartDoes, IdleIsATurn DEF AloneIsAlone, Busy, Over
<1>3. ASSUME NEW b \in Places, Develop(b) PROVE AloneIsAlone'
  <2>1. \A u \in Turns :
            /\ turn'[u].pc = turn[u].pc /\ turn'[u].branch = turn[u].branch
            /\ turn'[u].woe < Clash => turn[u].woe < Clash
    BY <1>3, DevelopDoes, WoeOf DEF Befalls, Kept
  <2> QED
    BY <2>1 DEF AloneIsAlone, Alone, Busy
<1>4. ASSUME NEW t \in Turns, NEW job \in {"check", "merge"}, NEW b \in Places, Ask(t, job, b)
      PROVE  AloneIsAlone'
  <2>1. /\ turn'[t].branch = b /\ ~Busy(t)
        /\ turn'[t].woe < Clash => Working(b) = {}
    BY <1>4, AskDoes DEF Clash
  <2>2. \A u \in Turns : u # t =>
            /\ turn'[u].pc = turn[u].pc /\ turn'[u].branch = turn[u].branch
            /\ IF Busy(u) /\ turn[u].branch = b
               THEN turn'[u].woe = Clash ELSE turn'[u].woe = turn[u].woe
    BY <1>4, AskDoes DEF Befalls, Kept
  <2>3. \A u \in Turns : Busy(u) /\ turn[u].branch = b => u \in Working(b)
    BY DEF Working, Busy, Place
  <2>4. ~(Clash < Clash)
    BY DEF Clash
  <2> QED
    BY <2>1, <2>2, <2>3, <2>4 DEF AloneIsAlone, Alone, Busy
<1>5. ASSUME NEW t \in Turns, Works(t)
      PROVE  AloneIsAlone'
  <2>1. /\ Acts(t)
        /\ turn'[t].pc \notin Over =>
              /\ turn'[t].branch = turn[t].branch
              /\ turn'[t].woe < Clash => turn[t].woe < Clash
    BY <1>5, ActsGoOn
  <2>2. Busy(t) /\ \A u \in Turns : u # t => turn'[u] = turn[u]
    BY <2>1, Parts DEF Acts
  <2> QED
    BY <2>1, <2>2 DEF AloneIsAlone, Alone, Busy
<1> QED
  BY <1>1, <1>2, <1>3, <1>4, <1>5, Cases

-----------------------------------------------------------------------------
(* What is true of a turn r that is alone, in its clone d, tip being what  *)
(* its branch is in the repository and main the default one.               *)

Within(r, h) == r # None => r \subseteq h
Got(r, d)    == d.origin[r.branch]

\* A merge is made on main, and what it ships is in main.
MergeTrue(r, d, main) ==
    /\ r.pc \in {"merge", "push"} /\ d # None => d.head = "main" /\ d.main # {}
    /\ r.job = "deploy" => r.sha # {} /\ r.sha \subseteq main

\* What was on the branch when the turn came is in what it works on.
SightTrue(r, d) ==
    r.woe < Blind =>
        /\ r.pc \in {"heads", "checkout"} /\ r.seen # {} /\ d # None =>
               Got(r, d) # None /\ r.seen \subseteq Got(r, d)
        /\ r.pc = "checkout" /\ ~r.has => r.seen = {}
        /\ r.pc = "run" /\ r.job = "check" /\ d # None => r.seen \subseteq Head(d)
        /\ r.pc \in {"main", "merge"} /\ d # None => r.seen \subseteq d.branch
        /\ r.pc = "push" /\ d # None => r.seen \subseteq d.main
        /\ r.job = "deploy" => r.seen \subseteq r.sha

\* What is on the branch now is in what is merged, and no more is deployed.
TreeTrue(r, d, tip) ==
    r.woe < Moved =>
        /\ r.job = "merge" =>
              /\ r.pc \in {"heads", "checkout"} /\ d # None => Got(r, d) = tip
              /\ r.pc = "checkout" => (r.has <=> tip # None)
              /\ r.pc \in {"main", "merge"} /\ d # None => Within(tip, d.branch)
              /\ r.pc = "push" /\ d # None => Within(tip, d.main)
        /\ r.job = "deploy" =>
              /\ Within(tip, r.sha) /\ r.pc # "clone"
              /\ r.pc \in {"acquire", "fetch", "heads", "checkout", "run"} =>
                     d # None /\ Head(d) \subseteq r.sha
              /\ r.pc \in {"heads", "checkout"} => Within(Got(r, d), r.sha)

SeenTrue(r, tip) ==
    r.seen # {} => r.branch # Main /\ tip # None /\ r.seen \subseteq tip

Sound(r, d, tip, main) ==
    MergeTrue(r, d, main) /\ SightTrue(r, d) /\ TreeTrue(r, d, tip) /\ SeenTrue(r, tip)

TurnsAreSound ==
    \A t \in Turns : Alone(t) =>
        Sound(turn[t], dirs[turn[t].branch], remote[turn[t].branch], remote[Main])

\* It depends on nothing else.
LEMMA SoundAlike ==
    ASSUME NEW r, NEW s, NEW d, NEW tip, NEW main, Sound(r, d, tip, main),
           s.pc = r.pc, s.job = r.job, s.branch = r.branch, s.sha = r.sha,
           s.seen = r.seen, s.has = r.has, s.woe = r.woe
    PROVE  Sound(s, d, tip, main)
<1>1. MergeTrue(s, d, main)
  BY DEF Sound, MergeTrue
<1>2. SightTrue(s, d)
  BY DEF Sound, SightTrue, Got
<1>3. TreeTrue(s, d, tip)
  BY DEF Sound, TreeTrue, Got
<1>4. SeenTrue(s, tip)
  BY DEF Sound, SeenTrue
<1> QED BY <1>1, <1>2, <1>3, <1>4 DEF Sound

\* Nobody disturbs a turn that is alone.
LEMMA SoundStays ==
    ASSUME NEW r, NEW d, NEW tip, NEW main, NEW ntip, NEW nmain,
           Sound(r, d, tip, main), main \subseteq nmain,
           r.branch # Main => ntip = tip,
           r.branch = Main => r.job = "check"
    PROVE  Sound(r, d, ntip, nmain)
BY DEF Sound, MergeTrue, SightTrue, TreeTrue, SeenTrue


\* Main only grows, and only a developer changes another branch.
LEMMA RemoteMoves ==
    ASSUME TypeInv, [Next]_vars
    PROVE  /\ remote[Main] \subseteq remote'[Main]
           /\ (\A b \in Places : ~Develop(b)) =>
                  \A b \in Places : b # Main => remote'[b] = remote[b]
<1>1. CASE remote' = remote
  BY <1>1
<1>2. ASSUME NEW b \in Places, Develop(b) PROVE remote[Main] \subseteq remote'[Main]
  <2>1. PICK before \in Histories, new \in Histories :
            /\ before = IF remote[b] = None THEN remote[Main] ELSE remote[b]
            /\ new = before \cup {<<commits + 1, b>>}
            /\ remote' = [remote EXCEPT ![b] = new]
    BY <1>2, DevelopDoes
  <2>2. Main \in Places /\ remote \in Refs /\ remote[Main] # None
    BY Parts, NoneIsNothing DEF Places
  <2>3. CASE b = Main
    <3>1. remote'[Main] = new /\ before = remote[Main]
      BY <2>1, <2>2, <2>3 DEF Refs
    <3> QED
      BY <2>1, <3>1
  <2>4. CASE b # Main
    BY <2>1, <2>2, <2>4 DEF Refs
  <2> QED
    BY <2>3, <2>4
<1>3. ASSUME NEW t \in Turns, Push(t)
      PROVE  /\ remote[Main] \subseteq remote'[Main]
             /\ \A b \in Places : b # Main => remote'[b] = remote[b]
  BY <1>3, PushDoes, Parts DEF Refs, Places
<1>4. ASSUME NEW t \in Turns,
             \/ Acquire(t) \/ CloneEnds(t) \/ Fetch(t) \/ Heads(t) \/ Checkout(t)
             \/ AcquireFails(t) \/ Check(t)
      PROVE  remote' = remote
  BY <1>4, AcquireDoes, CloneEndsDoes, FetchDoes, HeadsDoes, CheckoutDoes, AcquireFailsDoes,
     CheckDoes
<1>5. ASSUME NEW t \in Turns,
             CheckoutMain(t) \/ Merge(t) \/ Abort(t) \/ Vanished(t) \/ Deploy(t) \/ Kill(t)
      PROVE  remote' = remote
  BY <1>5, CheckoutMainDoes, MergeDoes, AbortDoes, VanishedDoes, DeployDoes, KillDoes
<1>6. UNCHANGED vars \/ Restart => remote' = remote
  BY RestartDoes DEF vars
<1>7. ASSUME NEW t \in Turns, NEW job \in {"check", "merge"}, NEW b \in Places, Ask(t, job, b)
      PROVE  remote' = remote
  BY <1>7, AskDoes
<1> QED
  BY <1>1, <1>2, <1>3, <1>4, <1>5, <1>6, <1>7, Cases DEF Works

\* And its own steps keep it sound.
LEMMA OwnStep ==
    ASSUME TypeInv, JobsFit, MainStands, [Next]_vars, NEW t \in Turns, Alone(t), 
           Sound(turn[t], Dir(t), remote[turn[t].branch], remote[Main]), Works(t),
           turn'[t].pc \notin Over
    PROVE  Sound(turn'[t], There(t), remote'[turn[t].branch], remote'[Main])
<1>. DEFINE r  == turn[t]
            s  == turn'[t]
            d  == Dir(t)
            e  == There(t)
            tip == remote[turn[t].branch]
<1>a. /\ r \in TurnType /\ d \in Clone \cup {None} /\ r.branch \in Places
      /\ remote[Main] \in Histories /\ remote[Main] # {} /\ None \notin Histories
      /\ tip \in Histories \cup {None} /\ Idle.pc \in Over /\ r.woe \in Nat /\ None \notin Clone
  BY Parts, RefsAre, NoneIsNothing, IdleIsATurn DEF Alone, MainStands, Over, TurnType, Clash
<1>b. /\ MergeTrue(r, d, remote[Main]) /\ SightTrue(r, d) /\ TreeTrue(r, d, tip)
      /\ SeenTrue(r, tip)
  BY DEF Sound
<1>c. Fits(r)
  BY DEF JobsFit, JobFits, Fits, Busy, At
<1>d. r.job # "check" => r.branch # Main
  BY <1>c, Parts, CheckoutAssumption DEF Fits, Alone, Busy
<1>1. CASE Acquire(t)
  <2>1. /\ r.pc = "acquire" /\ remote' = remote /\ s.woe = r.woe /\ s.job = r.job
        /\ s.branch = r.branch /\ s.sha = r.sha /\ s.seen = r.seen /\ s.pc \in {"clone", "fetch"}
        /\ d # None => s.pc = "fetch" /\ e = d
    BY <1>1, AcquireDoes DEF Kept, At
  <2> QED
    BY <1>a, <1>b, <2>1 DEF Sound, MergeTrue, SightTrue, TreeTrue, SeenTrue
<1>2. CASE CloneEnds(t)
  <2>1. /\ r.pc = "clone" /\ remote' = remote /\ s.woe = r.woe /\ s.job = r.job
        /\ s.branch = r.branch /\ s.sha = r.sha /\ s.seen = r.seen /\ s.pc = "fetch"
    BY <1>2, CloneEndsDoes DEF Kept, At
  <2> QED
    BY <1>a, <1>b, <2>1 DEF Sound, MergeTrue, SightTrue, TreeTrue, SeenTrue
<1>3. CASE Fetch(t)
  <2>1. /\ r.pc = "fetch" /\ remote' = remote /\ s.job = r.job
        /\ s.branch = r.branch /\ s.sha = r.sha /\ s.seen = r.seen
        /\ s.pc = IF r.branch = Main THEN "run" ELSE "heads"
        /\ d \in Clone /\ e \in Clone
    BY <1>3, FetchDoes DEF Kept, At
  <2>2. CASE e = [d EXCEPT !.origin = remote] /\ s.woe = Refreshed(t)
    <3>1. /\ e.origin = remote /\ e.main = d.main /\ e.branch = d.branch /\ Head(e) = Head(d)
      BY <2>1, <2>2 DEF Clone, Head
    <3>2. /\ s.woe < Blind => r.woe < Blind
          /\ r.job # "merge" => s.woe = r.woe
      BY <2>2, WoeOf
    <3>3. MergeTrue(s, e, remote'[Main]) /\ SeenTrue(s, remote'[r.branch])
      BY <1>b, <2>1 DEF MergeTrue, SeenTrue
    <3>4. SightTrue(s, e)
      BY <1>b, <2>1, <3>1, <3>2 DEF SightTrue, SeenTrue, Got
    <3>5. TreeTrue(s, e, remote'[r.branch])
      BY <1>b, <1>a, <2>1, <3>1, <3>2 DEF TreeTrue, Got, Within
    <3> QED
      BY <3>3, <3>4, <3>5 DEF Sound
  <2>3. CASE s.woe = Worse(r.woe, Blind)
    <3>1. ~(s.woe < Blind) /\ ~(s.woe < Moved)
      BY <2>3, <1>a DEF Worse, Blind, Moved
    <3> QED
      BY <1>b, <2>1, <3>1 DEF Sound, MergeTrue, SightTrue, TreeTrue, SeenTrue
  <2> QED
    BY <1>3, <2>2, <2>3, FetchDoes
<1>4. CASE Heads(t)
  <2>1. /\ r.pc = "heads" /\ remote' = remote /\ s.job = r.job /\ e = d
        /\ s.branch = r.branch /\ s.sha = r.sha /\ s.seen = r.seen /\ s.pc = "checkout"
    BY <1>4, HeadsDoes DEF Kept, At
  <2>2. CASE s.woe = r.woe /\ s.has = (tip # None)
    BY <1>b, <2>1, <2>2 DEF Sound, MergeTrue, SightTrue, TreeTrue, SeenTrue, Got
  <2>3. CASE s.woe = Worse(r.woe, Blind)
    <3>1. ~(s.woe < Blind) /\ ~(s.woe < Moved)
      BY <2>3, <1>a DEF Worse, Blind, Moved
    <3> QED
      BY <1>b, <2>1, <3>1 DEF Sound, MergeTrue, SightTrue, TreeTrue, SeenTrue
  <2> QED
    BY <1>4, <2>2, <2>3, HeadsDoes
<1>5. CASE Checkout(t)
  <2>1. /\ r.pc = "checkout" /\ remote' = remote /\ s.job = r.job /\ s.woe = r.woe
        /\ s.branch = r.branch /\ s.sha = r.sha /\ s.seen = r.seen
        /\ s.pc = IF r.job = "merge" THEN "main" ELSE "run"
        /\ d \in Clone /\ e \in Clone
    BY <1>5, CheckoutDoes DEF Kept, At
  <2>2. PICK from \in Histories : from = Branched(d, r.has, r.branch)
                                  /\ e = [d EXCEPT !.branch = from, !.head = "branch"]
    BY <1>5, CheckoutDoes
  <2>3. from = (IF r.has THEN Got(r, d) ELSE Head(d)) /\ from # None
    BY <1>a, <2>2 DEF Branched, Got
  <2>4. e.branch = from /\ Head(e) = from
    BY <2>1, <2>2 DEF Clone, Head
  <2>5. d # None
    BY <1>a, <2>1
  <2>6. MergeTrue(s, e, remote'[Main]) /\ SeenTrue(s, remote'[r.branch])
    BY <1>b, <2>1 DEF MergeTrue, SeenTrue
  <2>7. SightTrue(s, e)
    BY <1>b, <2>1, <2>3, <2>4, <2>5 DEF SightTrue
  <2>8. TreeTrue(s, e, remote'[r.branch])
    BY <1>a, <1>b, <2>1, <2>3, <2>4, <2>5 DEF TreeTrue, Within
  <2> QED
    BY <2>6, <2>7, <2>8 DEF Sound
<1>6. CASE AcquireFails(t) \/ Kill(t)
  <2>1. /\ s.job = r.job /\ s.woe = r.woe /\ s.branch = r.branch /\ s.sha = r.sha
        /\ s.seen = r.seen /\ s.pc = "deploy" /\ r.job = "deploy" /\ remote' = remote
    BY <1>6, <1>a, AcquireFailsDoes, KillDoes DEF GaveUp, Kept
  <2> QED
    BY <1>b, <2>1 DEF Sound, MergeTrue, SightTrue, TreeTrue, SeenTrue
<1>7. CASE Check(t)
  BY <1>7, CheckDoes DEF Over
<1>8. CASE CheckoutMain(t)
  <2>1. /\ r.pc = "main" /\ remote' = remote /\ s.job = r.job /\ s.woe = r.woe
        /\ s.branch = r.branch /\ s.sha = r.sha /\ s.seen = r.seen /\ s.pc = "merge"
        /\ d \in Clone /\ e \in Clone /\ d.origin[Main] \in Histories
        /\ e = [d EXCEPT !.main = d.origin[Main], !.head = "main"]
    BY <1>8, <1>a, CheckoutMainDoes DEF Kept, At
  <2>2. e.head = "main" /\ e.main = d.origin[Main] /\ e.branch = d.branch /\ d # None
    BY <1>a, <2>1 DEF Clone
  <2>3. e.main # {}
    BY <1>a, <2>1, <2>2, Parts DEF MainStands, Dir, Place
  <2>4. r.job = "merge"
    BY <1>c, <2>1 DEF Fits, Merging
  <2> QED
    BY <1>b, <2>1, <2>2, <2>3, <2>4 DEF Sound, MergeTrue, SightTrue, TreeTrue, SeenTrue
<1>9. CASE Merge(t)
  <2>1. /\ r.pc = "merge" /\ remote' = remote /\ s.job = r.job /\ s.woe = r.woe
        /\ s.branch = r.branch /\ s.sha = r.sha /\ s.seen = r.seen /\ s.pc \in {"push", "abort"}
        /\ d \in Clone /\ e \in Clone /\ d # None
    BY <1>9, <1>a, MergeDoes DEF Kept, At
  <2>2. r.job = "merge" /\ d.head = "main" /\ d.main # {} /\ Head(d) = d.main
    BY <1>b, <1>c, <2>1 DEF Fits, Merging, MergeTrue, Head
  <2>3. CASE s.pc = "push" /\ e = d /\ d.branch \subseteq Head(d)
    BY <1>b, <2>1, <2>2, <2>3
       DEF Sound, MergeTrue, SightTrue, TreeTrue, SeenTrue, Within
  <2>4. ASSUME s.pc = "push", NEW new \in Histories, e = Merged(d, new),
               new = Head(d) \cup d.branch \cup {<<commits + 1, "merge">>}
        PROVE  Sound(s, e, remote'[r.branch], remote'[Main])
    <3>1. e.head = "main" /\ e.main = new
      <4>1. d \in Clone /\ d.head = "main"
        BY <2>1, <2>2
      <4>2. Merged(d, new).head = "main" /\ Merged(d, new).main = new
        BY <4>1, MergedIs
      <4> QED
        BY <2>4, <4>2
    <3>2. d.main \subseteq new /\ d.branch \subseteq new
      BY <2>2, <2>4
    <3>3. new # {}
      BY <2>2, <3>2
    <3> QED
      BY <1>b, <2>1, <2>2, <2>4, <3>1, <3>2, <3>3
         DEF Sound, MergeTrue, SightTrue, TreeTrue, SeenTrue, Within
  <2>5. CASE s.pc = "abort"
    BY <1>b, <2>1, <2>2, <2>5 DEF Sound, MergeTrue, SightTrue, TreeTrue, SeenTrue
  <2> QED
    BY <1>9, <2>1, <2>3, <2>4, <2>5, MergeDoes
<1>10. CASE Abort(t) \/ Vanished(t) \/ Deploy(t)
  BY <1>10, <1>a, AbortDoes, VanishedDoes, DeployDoes
<1>11. CASE Push(t)
  <2>1. /\ r.pc = "push" /\ d \in Clone /\ e \in Clone /\ d # None
        /\ s.job = "deploy" /\ s.woe = r.woe
        /\ s.branch = r.branch /\ s.sha = Head(d) /\ s.seen = r.seen
        /\ s.pc \in {"acquire", "deploy"}
        /\ remote[Main] \subseteq d.main
        /\ remote' = [remote EXCEPT ![Main] = d.main]
        /\ e = [d EXCEPT !.origin[Main] = d.main]
    BY <1>11, <1>a, PushDoes DEF At
  <2>2. r.job = "merge" /\ d.head = "main" /\ d.main # {} /\ Head(d) = d.main
    BY <1>b, <1>c, <2>1 DEF Fits, Merging, MergeTrue, Head
  <2>3. remote'[Main] = d.main /\ remote'[r.branch] = tip
    BY <1>d, <2>1, <2>2, Parts DEF Refs, Places
  <2>4. Head(e) = d.main /\ e # None
    BY <1>a, <2>1, <2>2 DEF Clone, Head
  <2> QED
    BY <1>b, <2>1, <2>2, <2>3, <2>4
       DEF Sound, MergeTrue, SightTrue, TreeTrue, SeenTrue, Within
<1> QED
  BY <1>1, <1>2, <1>3, <1>4, <1>5, <1>6, <1>7, <1>8, <1>9, <1>10, <1>11 DEF Works

LEMMA SoundStep ==
    TypeInv /\ JobsFit /\ MainStands /\ AloneIsAlone /\ TurnsAreSound /\ [Next]_vars
        => TurnsAreSound'
<1> SUFFICES ASSUME TypeInv, JobsFit, MainStands, AloneIsAlone, TurnsAreSound, [Next]_vars
             PROVE  TurnsAreSound'
  OBVIOUS
<1>a. remote[Main] \subseteq remote'[Main]
  BY RemoteMoves
<1>b. \A t \in Turns : Alone(t) =>
          /\ turn[t].branch = Main => turn[t].job = "check"
          /\ Sound(turn[t], dirs[turn[t].branch], remote[turn[t].branch], remote[Main])
          /\ turn[t].branch \in Places /\ turn[t] \in TurnType
  BY Parts, CheckoutAssumption DEF JobsFit, JobFits, TurnsAreSound, Alone
<1>1. CASE UNCHANGED vars
  BY <1>1 DEF vars, TurnsAreSound, Alone, Busy
<1>2. CASE Restart
  BY <1>2, RestartDoes, IdleIsATurn DEF TurnsAreSound, Alone, Busy, Over
<1>3. ASSUME NEW b \in Places, Develop(b) PROVE TurnsAreSound'
  <2> SUFFICES ASSUME NEW t \in Turns, Alone(t)'
               PROVE  Sound(turn'[t], dirs'[turn'[t].branch], remote'[turn'[t].branch],
                            remote'[Main])
    BY DEF TurnsAreSound
  <2>. DEFINE r == turn[t]
              s == turn'[t]
              d == dirs[r.branch]
              tip == remote[r.branch]
              ntip == remote'[r.branch]
  <2>1. /\ s.job = r.job /\ s.branch = r.branch /\ s.sha = r.sha /\ s.seen = r.seen
        /\ s.pc = r.pc /\ s.has = r.has /\ s.tree = r.tree
        /\ s.woe = IF r.branch = b /\ r.job # "check" THEN Worse(r.woe, Moved) ELSE r.woe
        /\ dirs' = dirs
    BY <1>3, DevelopDoes DEF Befalls, Kept
  <2>2. Alone(t)
    BY <2>1, WoeOf DEF Alone, Busy
  <2>3. Sound(r, d, tip, remote[Main]) /\ r.branch \in Places
        /\ (r.branch = Main => r.job = "check")
    BY <1>b, <2>2
  <2>4. PICK before \in Histories, new \in Histories :
            /\ before = IF remote[b] = None THEN remote[Main] ELSE remote[b]
            /\ new = before \cup {<<commits + 1, b>>}
            /\ remote' = [remote EXCEPT ![b] = new]
    BY <1>3, DevelopDoes
  <2>5. CASE r.branch = b
    <3>1. ntip = new /\ new # None /\ (tip # None => tip \subseteq new)
      BY <2>3, <2>4, <2>5, Parts, NoneIsNothing DEF Refs
    <3>2. SeenTrue(s, ntip)
      BY <2>1, <2>3, <3>1 DEF Sound, SeenTrue
    <3>3. r.job = "check" \/ (~(s.woe < Moved) /\ (s.woe < Blind => r.woe < Blind))
      BY <2>1, <2>5, WoeOf DEF Moved
    <3>4. r.job = "check" => s.woe = r.woe
      BY <2>1
    <3>5. SightTrue(s, d)
      BY <2>1, <2>3, <3>3, <3>4 DEF Sound, SightTrue, Got
    <3>6. TreeTrue(s, d, ntip)
      BY <2>1, <3>3 DEF TreeTrue
    <3>7. MergeTrue(s, d, remote'[Main])
      BY <1>a, <2>1, <2>3 DEF Sound, MergeTrue
    <3> QED
      BY <2>1, <3>2, <3>5, <3>6, <3>7 DEF Sound
  <2>6. CASE r.branch # b
    <3>1. ntip = tip
      BY <2>3, <2>4, <2>6, Parts DEF Refs
    <3>2. Sound(r, d, ntip, remote'[Main])
      BY <1>a, <2>3, <3>1, SoundStays
    <3>3. s.woe = r.woe
      BY <2>1, <2>6
    <3> QED
      BY <2>1, <3>2, <3>3, SoundAlike
  <2> QED
    BY <2>5, <2>6
<1>4. ASSUME NEW t \in Turns, NEW job \in {"check", "merge"}, NEW b \in Places, Ask(t, job, b)
      PROVE  TurnsAreSound'
  <2> SUFFICES ASSUME NEW u \in Turns, Alone(u)'
               PROVE  Sound(turn'[u], dirs'[turn'[u].branch], remote'[turn'[u].branch],
                            remote'[Main])
    BY DEF TurnsAreSound
  <2>1. dirs' = dirs /\ remote' = remote
    BY <1>4, AskDoes
  <2>2. CASE u = t
    <3>1. /\ turn'[t].pc = "acquire" /\ turn'[t].job = job /\ turn'[t].branch = b
          /\ turn'[t].seen = IF b = Main \/ remote[b] = None THEN {} ELSE remote[b]
      BY <1>4, AskDoes
    <3>2. job # "deploy"
      OBVIOUS
    <3> QED
      BY <2>1, <2>2, <3>1, <3>2 DEF Sound, MergeTrue, SightTrue, TreeTrue, SeenTrue
  <2>3. CASE u # t
    <3>1. Befalls(u, IF Busy(u) /\ turn[u].branch = b THEN Clash ELSE turn[u].woe)
      BY <1>4, <2>3, AskDoes
    <3>2. ~(Clash < Clash)
      BY DEF Clash
    <3>3. /\ turn'[u].job = turn[u].job /\ turn'[u].branch = turn[u].branch
          /\ turn'[u].sha = turn[u].sha /\ turn'[u].seen = turn[u].seen
          /\ turn'[u].pc = turn[u].pc /\ turn'[u].has = turn[u].has
          /\ turn'[u].woe = turn[u].woe /\ Alone(u)
      BY <3>1, <3>2 DEF Befalls, Kept, Alone, Busy
    <3>4. Sound(turn[u], dirs[turn[u].branch], remote[turn[u].branch], remote[Main])
      BY <1>b, <3>3
    <3> QED
      BY <2>1, <3>3, <3>4, SoundAlike
  <2> QED
    BY <2>2, <2>3
<1>5. ASSUME NEW t \in Turns, Works(t),
             \A b \in Places : ~Develop(b)
      PROVE  TurnsAreSound'
  <2> SUFFICES ASSUME NEW u \in Turns, Alone(u)'
               PROVE  Sound(turn'[u], dirs'[turn'[u].branch], remote'[turn'[u].branch],
                            remote'[Main])
    BY DEF TurnsAreSound
  <2>1. /\ Acts(t)
        /\ turn'[t].pc \notin Over =>
              /\ turn'[t].branch = turn[t].branch
              /\ turn'[t].woe < Clash => turn[t].woe < Clash
    BY <1>5, ActsGoOn
  <2>2. CASE u = t
    <3>1. Alone(t) /\ turn'[t].pc \notin Over /\ turn'[t].branch = turn[t].branch
      BY <2>1, <2>2 DEF Alone, Busy, Acts
    <3>2. Sound(turn[t], Dir(t), remote[turn[t].branch], remote[Main])
      BY <1>b, <3>1 DEF Dir, Place
    <3>3. Sound(turn'[t], There(t), remote'[turn[t].branch], remote'[Main])
      BY <1>5, <3>1, <3>2, OwnStep
    <3> QED
      BY <2>2, <3>1, <3>3 DEF There
  <2>3. CASE u # t
    <3>1. turn'[u] = turn[u]
      BY <2>1, <2>3, Parts DEF Acts
    <3>2. Alone(u)
      BY <3>1 DEF Alone, Busy
    <3>3. turn[t].branch # turn[u].branch
      BY <2>1, <2>3, <3>2 DEF AloneIsAlone, Acts
    <3>4. dirs'[turn[u].branch] = dirs[turn[u].branch]
      BY <1>b, <2>1, <3>2, <3>3, Parts DEF Acts
    <3>5. turn[u].branch # Main => remote'[turn[u].branch] = remote[turn[u].branch]
      BY <1>5, <1>b, <3>2, RemoteMoves
    <3> QED
      BY <1>a, <1>b, <3>1, <3>2, <3>4, <3>5, SoundStays
  <2> QED
    BY <2>2, <2>3
<1> QED
  BY <1>1, <1>2, <1>3, <1>4, <1>5, Cases

-----------------------------------------------------------------------------
(* What was found and recorded.                                            *)

DoneTrue(r) == r.pc = "done" /\ r.tree # None /\ r.woe < Blind => r.seen \subseteq r.tree
RecordTrue(r, main) ==
    /\ r.woe < Clash => r.sha # {} /\ r.sha \subseteq main
    /\ r.woe < Blind => r.seen \subseteq r.sha
    /\ r.tree # None /\ r.woe < Moved => r.tree \subseteq r.sha
RecordsAreTrue ==
    /\ \A t \in Turns : DoneTrue(turn[t])
    /\ \A r \in register : RecordTrue(r, remote[Main])

LEMMA RecordsStep ==
    TypeInv /\ JobsFit /\ TurnsAreSound /\ RecordsAreTrue /\ [Next]_vars => RecordsAreTrue'
<1> SUFFICES ASSUME TypeInv, JobsFit, TurnsAreSound, RecordsAreTrue, [Next]_vars
             PROVE  RecordsAreTrue'
  OBVIOUS
<1>a. \A r \in register : RecordTrue(r, remote'[Main])
  BY RemoteMoves DEF RecordsAreTrue, RecordTrue
<1>b. DoneTrue(Idle) /\ Idle.pc # "done"
  BY IdleIsATurn DEF DoneTrue
<1>c. \A t \in Turns : DoneTrue(turn[t]) /\ turn[t].woe \in Nat
  BY WoeOf DEF RecordsAreTrue
<1>1. CASE UNCHANGED vars
  BY <1>1 DEF vars, RecordsAreTrue
<1>2. CASE Restart
  BY <1>2, <1>a, <1>b, RestartDoes DEF RecordsAreTrue
<1>3. ASSUME NEW b \in Places, Develop(b) PROVE RecordsAreTrue'
  <2>1. ASSUME NEW t \in Turns PROVE DoneTrue(turn'[t])
    <3>1. /\ turn'[t].pc = turn[t].pc /\ turn'[t].tree = turn[t].tree
          /\ turn'[t].seen = turn[t].seen
          /\ turn'[t].woe \in {turn[t].woe, Worse(turn[t].woe, Moved)}
      BY <1>3, DevelopDoes DEF Befalls, Kept
    <3>2. turn'[t].woe < Blind => turn[t].woe < Blind
      BY <3>1, WoeOf
    <3> QED
      BY <1>c, <3>1, <3>2 DEF DoneTrue
  <2> QED
    BY <1>3, <1>a, <2>1, DevelopDoes DEF RecordsAreTrue
<1>4. ASSUME NEW t \in Turns, NEW job \in {"check", "merge"}, NEW b \in Places, Ask(t, job, b)
      PROVE  RecordsAreTrue'
  <2>1. ASSUME NEW u \in Turns PROVE DoneTrue(turn'[u])
    <3>1. CASE u = t
      BY <1>4, <3>1, AskDoes DEF DoneTrue
    <3>2. CASE u # t
      <4>1. /\ turn'[u].pc = turn[u].pc /\ turn'[u].tree = turn[u].tree
            /\ turn'[u].seen = turn[u].seen
            /\ turn'[u].woe = IF Busy(u) /\ turn[u].branch = b THEN Clash ELSE turn[u].woe
        BY <1>4, <3>2, AskDoes DEF Befalls, Kept
      <4>2. ~(Clash < Blind)
        BY DEF Clash, Blind
      <4> QED
        BY <1>c, <4>1, <4>2 DEF DoneTrue
    <3> QED
      BY <3>1, <3>2
  <2> QED
    BY <1>4, <1>a, <2>1, AskDoes DEF RecordsAreTrue
<1>5. ASSUME NEW t \in Turns, Acts(t), register' = register, turn'[t].pc # "done"
      PROVE  RecordsAreTrue'
  <2>1. \A u \in Turns : u # t => turn'[u] = turn[u]
    BY <1>5, Parts DEF Acts
  <2>2. DoneTrue(turn'[t])
    BY <1>5 DEF DoneTrue
  <2> QED
    BY <1>5, <1>a, <1>c, <2>1, <2>2 DEF RecordsAreTrue
<1>6. ASSUME NEW t \in Turns,
             Acquire(t) \/ CloneEnds(t) \/ Fetch(t) \/ Heads(t) \/ Checkout(t) \/ AcquireFails(t)
      PROVE  RecordsAreTrue'
  BY ZenonT(60), <1>5, <1>6, <1>b, AcquireDoes, CloneEndsDoes, FetchDoes, HeadsDoes, CheckoutDoes,
     AcquireFailsDoes DEF world, GaveUp
<1>7. ASSUME NEW t \in Turns,
             CheckoutMain(t) \/ Merge(t) \/ Abort(t) \/ Push(t) \/ Vanished(t) \/ Kill(t)
      PROVE  RecordsAreTrue'
  BY <1>5, <1>7, <1>b, CheckoutMainDoes, MergeDoes, AbortDoes, PushDoes, VanishedDoes, KillDoes
     DEF world, GaveUp
<1>8. ASSUME NEW t \in Turns, Check(t) PROVE RecordsAreTrue'
  <2>1. /\ Acts(t) /\ At(t, "run") /\ turn[t].job = "check" /\ register' = register
        /\ turn'[t].seen = turn[t].seen /\ turn'[t].woe = turn[t].woe
        /\ turn'[t].tree = IF Dir(t) = None THEN None ELSE Head(Dir(t))
    BY <1>8, CheckDoes DEF Kept, world
  <2>2. \A u \in Turns : u # t => turn'[u] = turn[u]
    BY <2>1, Parts DEF Acts
  <2>3. turn[t].woe < Blind => SightTrue(turn[t], Dir(t))
    BY <1>c, <2>1 DEF TurnsAreSound, Sound, Alone, Acts, Blind, Clash, Dir, Place
  <2>4. DoneTrue(turn'[t])
    BY <2>1, <2>3 DEF DoneTrue, SightTrue, At
  <2> QED
    BY <1>a, <1>c, <2>1, <2>2, <2>4 DEF RecordsAreTrue
<1>9. ASSUME NEW t \in Turns, Deploy(t) PROVE RecordsAreTrue'
  <2>1. /\ Acts(t) /\ turn[t].job = "deploy" /\ turn'[t] = Idle /\ remote' = remote
        /\ turn[t].pc \in {"run", "deploy"}
    BY <1>9, DeployDoes
  <2>2. CASE register' = register
    BY <1>5, <1>b, <2>1, <2>2
  <2>3. ASSUME NEW r \in TurnType, register' = register \cup {r}, r.sha = turn[t].sha,
               r.seen = turn[t].seen, r.woe = turn[t].woe,
               r.tree = IF At(t, "deploy") \/ Dir(t) = None THEN None ELSE Head(Dir(t))
        PROVE  RecordsAreTrue'
    <3>1. r.woe \in Nat
      BY <1>c, <2>3
    <3>2. r.woe < Clash =>
              MergeTrue(turn[t], Dir(t), remote[Main]) /\ SightTrue(turn[t], Dir(t))
              /\ TreeTrue(turn[t], Dir(t), remote[turn[t].branch])
      BY <2>1, <2>3 DEF TurnsAreSound, Sound, Alone, Acts, Dir, Place
    <3>3. Moved < Clash /\ Blind < Clash /\ (r.woe < Moved => r.woe < Clash)
          /\ (r.woe < Blind => r.woe < Clash)
      BY <3>1 DEF Moved, Clash, Blind
    <3>4. RecordTrue(r, remote[Main])
      BY <2>1, <2>3, <3>2, <3>3 DEF RecordTrue, MergeTrue, SightTrue, TreeTrue, At
    <3>5. \A u \in Turns : u # t => turn'[u] = turn[u]
      BY <2>1, Parts DEF Acts
    <3> QED
      BY <1>a, <1>b, <1>c, <2>1, <2>3, <3>4, <3>5 DEF RecordsAreTrue
  <2> QED
    BY <1>9, <2>2, <2>3, DeployDoes
<1> QED
  BY <1>1, <1>2, <1>3, <1>4, <1>6, <1>7, <1>8, <1>9, Cases DEF Works

-----------------------------------------------------------------------------
(* The inductive invariant, and the theorems.                              *)

IInv ==
    /\ TypeInv /\ JobsFit /\ CarriedWasAsked /\ WrecksAreKnown
    /\ MainStands /\ AloneIsAlone /\ TurnsAreSound /\ RecordsAreTrue

LEMMA InitIInv == Init => IInv
<1> SUFFICES ASSUME Init PROVE IInv
  OBVIOUS
<1>1. TypeInv
  BY InitType
<1>2. \A t \in Turns : turn[t].pc = "idle" /\ ~Busy(t)
  BY IdleIsATurn DEF Init, Busy, Over
<1>3. JobsFit
  BY <1>2 DEF JobsFit, JobFits, At, Merging
<1>4. CarriedWasAsked
  BY CarryRules, CheckoutAssumption, NoneIsNothing
     DEF Init, CarriedWasAsked, RefsCarry, DirCarries, Carries, Places
<1>5. WrecksAreKnown /\ AloneIsAlone /\ TurnsAreSound
  BY <1>2 DEF Init, WrecksAreKnown, WreckIn, AloneIsAlone, TurnsAreSound, Alone
<1>6. MainStands /\ RecordsAreTrue
  BY <1>2 DEF Init, MainStands, RecordsAreTrue, DoneTrue, Places
<1> QED
  BY <1>1, <1>3, <1>4, <1>5, <1>6 DEF IInv

LEMMA StepIInv == IInv /\ [Next]_vars => IInv'
BY TypeStep, JobsStep, CarryStep, WreckStep, MainStep, AloneStep, SoundStep, RecordsStep DEF IInv

LEMMA IInvIs == IInv => MergesAreTrue /\ ClonesKeepApart
<1> SUFFICES ASSUME IInv PROVE MergesAreTrue /\ ClonesKeepApart
  OBVIOUS
<1> USE DEF IInv
<1>1. MergesAreTrue
  BY DEF MergesAreTrue, TypeInv, RecordedIsMerged, WorkIsSeen, DeployedIsMerged, RecordsAreTrue,
     RecordTrue, DoneTrue, At
<1>2. OnlyAskedFeaturesShip
  BY Parts, NoneIsNothing, CarryRules
     DEF OnlyAskedFeaturesShip, CarriedWasAsked, RefsCarry, Carries, Places
<1>3. ClonesStayUsable
  <2> SUFFICES ASSUME NEW b \in Places, dirs[b] # None, Working(b) = {}, b \notin killed
               PROVE  dirs[b].index = "clean"
    BY DEF ClonesStayUsable
  <2>1. dirs[b].index \in {"clean", "merging", "locked"}
    BY Parts, CloneIs
  <2>2. \A t \in Turns : ~(At(t, "abort") /\ turn[t].branch = b)
    BY DEF Working, At, Over, Place
  <2> QED
    BY <2>1, <2>2 DEF WrecksAreKnown, WreckIn
<1> QED
  BY <1>1, <1>2, <1>3 DEF ClonesKeepApart

\* Of every deployment that is recorded, and every check that is done, by a turn
\* that met no other in its directory: the deployment is under a merge that is in
\* the default branch, the merge has what was on the feature branch when it was
\* asked for, and the command deployed nothing that was not merged, with the
\* excuses that MergesAreTrue names; for any turns, branches and bounds
\* (acquire, merge_to_main, deploy).
THEOREM MergesAreTrueAlways == Spec => []MergesAreTrue
BY InitIInv, StepIInv, IInvIs, PTL DEF Spec

\* However any number of turns on any features interleave and fail, nothing gets
\* into the default branch whose merge nobody asked for, and a clone nobody works in
\* is as good as new unless git was killed in it (merge_to_main, _clone_dir).
THEOREM ClonesKeepApartAlways == Spec => []ClonesKeepApart
BY InitIInv, StepIInv, IInvIs, PTL DEF Spec
=============================================================================

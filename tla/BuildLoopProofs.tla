--------------------------- MODULE BuildLoopProofs ---------------------------
(***************************************************************************)
(* The build, for any plan, any number of tasks and of builds.             *)
(*                                                                         *)
(* The human a strike panel or a failed layer asks: the choice he makes    *)
(* reaches the panel he was asked about, he is asked once, and no layer is *)
(* recorded as failed that he was not told of, however often the node runs *)
(* again.  The wave order: the search ends for every plan, and what it     *)
(* orders is built after what it depends on.  And what the replays leave   *)
(* behind: nothing.                                                        *)
(***************************************************************************)
EXTENDS BuildLoop, TLAPS, FiniteSetTheorems, SequenceTheorems, WellFoundedInduction

USE BuildAssumption

-----------------------------------------------------------------------------
(* Recursive functions on an interval.                                     *)

LEMMA Induct ==
    ASSUME NEW G, 0 \in G, \A k \in Nat : k \in G => k + 1 \in G
    PROVE  Nat \subseteq G
<1> SUFFICES ASSUME Nat \ G # {} PROVE FALSE
  OBVIOUS
<1>1. PICK x \in Nat \ G : \A y \in Nat \ G : ~(<<y, x>> \in OpToRel(<, Nat))
  <2>1. Nat \ G \subseteq Nat
    OBVIOUS
  <2> QED BY <2>1, NatLessThanWellFounded, WFMin
<1>2. x # 0 /\ x - 1 \in Nat
  OBVIOUS
<1>3. <<x - 1, x>> \in OpToRel(<, Nat)
  BY <1>2 DEF OpToRel
<1>4. x - 1 \in G
  BY <1>1, <1>2, <1>3
<1>5. x - 1 + 1 = x
  BY <1>2
<1> QED BY <1>2, <1>4, <1>5

\* g runs from a through n steps of F.
Run(g, n, a, F) == g[0] = a /\ \A i \in 1 .. n : g[i] = F[<<i, g[i - 1]>>]

LEMMA Recursion ==
    ASSUME NEW A, NEW a \in A, NEW n \in Nat, NEW F \in [(1 .. n) \X A -> A]
    PROVE  \E g \in [0 .. n -> A] : Run(g, n, a, F)
<1> DEFINE Runs(k, g) == g[0] = a /\ \A i \in 1 .. k : g[i] = F[<<i, g[i - 1]>>]
           G == {k \in Nat : k <= n => \E g \in [0 .. k -> A] : Runs(k, g)}
<1>1. 0 \in G
  <2> DEFINE g == [i \in 0 .. 0 |-> a]
  <2>1. g \in [0 .. 0 -> A] /\ Runs(0, g)
    OBVIOUS
  <2> QED BY <2>1
<1>2. ASSUME NEW k \in Nat, k \in G PROVE k + 1 \in G
  <2> SUFFICES ASSUME k + 1 <= n PROVE \E g \in [0 .. k + 1 -> A] : Runs(k + 1, g)
    OBVIOUS
  <2>1. PICK h \in [0 .. k -> A] : Runs(k, h)
    BY <1>2
  <2> DEFINE g == [i \in 0 .. k + 1 |-> IF i = k + 1 THEN F[<<k + 1, h[k]>>] ELSE h[i]]
  <2>2. k + 1 \in 1 .. n /\ h[k] \in A
    OBVIOUS
  <2>3. F[<<k + 1, h[k]>>] \in A
    BY <2>2
  <2>4. \A i \in 0 .. k : g[i] = h[i] /\ h[i] \in A
    OBVIOUS
  <2>5. g \in [0 .. k + 1 -> A]
    BY <2>3, <2>4
  <2>6. g[0] = a
    BY <2>1, <2>4
  <2>7. ASSUME NEW i \in 1 .. k + 1 PROVE g[i] = F[<<i, g[i - 1]>>]
    <3>1. CASE i = k + 1
      <4>1. i - 1 = k /\ k \in 0 .. k
        BY <3>1
      <4>2. g[k] = h[k]
        BY <2>4, <4>1
      <4>3. g[k + 1] = F[<<k + 1, h[k]>>]
        OBVIOUS
      <4> HIDE DEF g
      <4> QED BY <3>1, <4>1, <4>2, <4>3
    <3>2. CASE i \in 1 .. k
      <4>1. i \in 0 .. k /\ i - 1 \in 0 .. k
        BY <3>2
      <4> QED BY <2>1, <2>4, <3>2, <4>1
    <3> QED BY <3>1, <3>2
  <2> QED BY <2>5, <2>6, <2>7
<1> HIDE DEF G
<1>3. Nat \subseteq G
  BY <1>1, <1>2, Induct
<1>4. n \in G /\ n <= n
  BY <1>3
<1>5. \E g \in [0 .. n -> A] : Runs(n, g)
  BY <1>4 DEF G
<1> QED BY <1>5, Zenon DEF Run

-----------------------------------------------------------------------------
(* Sequences of tasks.                                                     *)

Elements(s) == {s[i] : i \in 1 .. Len(s)}
Distinct(s) == \A i, j \in 1 .. Len(s) : s[i] = s[j] => i = j

LEMMA ElementsAre ==
    ASSUME NEW s \in Seq(Tasks)
    PROVE  \A x : x \in Elements(s) <=> \E i \in 1 .. Len(s) : s[i] = x
BY DEF Elements

LEMMA EmptyHolds == <<>> \in Seq(Tasks) /\ Distinct(<<>>) /\ Elements(<<>>) = {}
BY DEF Distinct, Elements

LEMMA AppendHolds ==
    ASSUME NEW s \in Seq(Tasks), Distinct(s), NEW t \in Tasks, t \notin Elements(s)
    PROVE  /\ Append(s, t) \in Seq(Tasks) /\ Distinct(Append(s, t))
           /\ Elements(Append(s, t)) = Elements(s) \cup {t}
<1> DEFINE n == Len(s)
           r == Append(s, t)
<1>1. /\ n \in Nat /\ r \in Seq(Tasks) /\ Len(r) = n + 1 /\ r[n + 1] = t
      /\ \A i \in 1 .. n : r[i] = s[i]
  OBVIOUS
<1>2. \A x : x \in Elements(s) <=> \E i \in 1 .. n : s[i] = x
  BY ElementsAre
<1>3. \A i, j \in 1 .. n : s[i] = s[j] => i = j
  BY DEF Distinct
<1>4. r = Append(s, t)
  OBVIOUS
<1>5. \A x : x \in Elements(r) <=> \E i \in 1 .. n + 1 : r[i] = x
  <2> HIDE DEF r
  <2>1. \A x : x \in Elements(r) <=> \E i \in 1 .. Len(r) : r[i] = x
    BY <1>1, ElementsAre
  <2> QED BY <1>1, <2>1
<1> HIDE DEF r, n
<1>6. \A i \in 1 .. n + 1 : i \in 1 .. n \/ i = n + 1
  BY <1>1
<1>7. \A i \in 1 .. n : i \in 1 .. n + 1
  BY <1>1
<1>8. n + 1 \in 1 .. n + 1
  BY <1>1
<1>9. ASSUME NEW x PROVE x \in Elements(r) <=> x \in Elements(s) \cup {t}
  <2>1. ASSUME x \in Elements(r) PROVE x \in Elements(s) \cup {t}
    <3>1. PICK i \in 1 .. n + 1 : r[i] = x
      BY <1>5, <2>1
    <3> QED BY <1>1, <1>2, <1>6, <3>1
  <2>2. ASSUME x \in Elements(s) PROVE x \in Elements(r)
    <3>1. PICK i \in 1 .. n : s[i] = x
      BY <1>2, <2>2
    <3> QED BY <1>1, <1>5, <1>7, <3>1
  <2>3. t \in Elements(r)
    BY <1>1, <1>5, <1>8
  <2> QED BY <2>1, <2>2, <2>3
<1>10. ASSUME NEW i \in 1 .. n + 1, NEW j \in 1 .. n + 1, r[i] = r[j] PROVE i = j
  <2>1. CASE i \in 1 .. n /\ j \in 1 .. n
    BY <1>1, <1>3, <1>10, <2>1
  <2>2. CASE i = n + 1 /\ j \in 1 .. n
    BY <1>1, <1>2, <1>10, <2>2
  <2>3. CASE j = n + 1 /\ i \in 1 .. n
    BY <1>1, <1>2, <1>10, <2>3
  <2> QED BY <1>6, <2>1, <2>2, <2>3
<1>11. Distinct(r)
  BY <1>1, <1>10 DEF Distinct
<1> QED BY <1>1, <1>4, <1>9, <1>11

LEMMA ConcatHolds ==
    ASSUME NEW s \in Seq(Tasks), Distinct(s), NEW t \in Seq(Tasks), Distinct(t),
           Elements(s) \cap Elements(t) = {}
    PROVE  /\ s \o t \in Seq(Tasks) /\ Distinct(s \o t)
           /\ Elements(s \o t) = Elements(s) \cup Elements(t)
<1> DEFINE m == Len(s)
           n == Len(t)
           r == s \o t
<1>1. /\ m \in Nat /\ n \in Nat /\ r \in Seq(Tasks) /\ Len(r) = m + n
      /\ \A i \in 1 .. m : r[i] = s[i]
      /\ \A i \in 1 .. n : r[m + i] = t[i]
  BY ConcatProperties
<1>2. /\ \A x : x \in Elements(s) <=> \E i \in 1 .. m : s[i] = x
      /\ \A x : x \in Elements(t) <=> \E i \in 1 .. n : t[i] = x
      /\ \A x : x \in Elements(r) <=> \E i \in 1 .. m + n : r[i] = x
  <2>1. \A x : x \in Elements(s) <=> \E i \in 1 .. m : s[i] = x
    BY ElementsAre
  <2>2. \A x : x \in Elements(t) <=> \E i \in 1 .. n : t[i] = x
    BY ElementsAre
  <2> HIDE DEF r
  <2>3. \A x : x \in Elements(r) <=> \E i \in 1 .. Len(r) : r[i] = x
    BY <1>1, ElementsAre
  <2> QED BY <1>1, <2>1, <2>2, <2>3
<1>3. /\ \A i, j \in 1 .. m : s[i] = s[j] => i = j
      /\ \A i, j \in 1 .. n : t[i] = t[j] => i = j
  BY DEF Distinct
<1>4. r = s \o t
  OBVIOUS
<1> HIDE DEF r, m, n
<1>5. \A i \in 1 .. m + n : i \in 1 .. m \/ \E k \in 1 .. n : i = m + k
  <2> TAKE i \in 1 .. m + n
  <2>1. (i - m \in 1 .. n /\ i = m + (i - m)) \/ i \in 1 .. m
    BY <1>1
  <2> QED BY <2>1
<1>6. /\ \A i \in 1 .. m : i \in 1 .. m + n
      /\ \A i \in 1 .. n : m + i \in 1 .. m + n
  BY <1>1
<1>7. ASSUME NEW x PROVE x \in Elements(r) <=> x \in Elements(s) \cup Elements(t)
  <2>1. ASSUME x \in Elements(r) PROVE x \in Elements(s) \cup Elements(t)
    <3>1. PICK i \in 1 .. m + n : r[i] = x
      BY <1>2, <2>1
    <3>2. CASE i \in 1 .. m
      BY <1>1, <1>2, <3>1, <3>2
    <3>3. ASSUME NEW k \in 1 .. n, i = m + k PROVE x \in Elements(t)
      <4>1. t[k] = x
        BY <1>1, <3>1, <3>3
      <4> QED BY <1>2, <4>1
    <3> QED BY <1>5, <3>2, <3>3
  <2>2. ASSUME x \in Elements(s) PROVE x \in Elements(r)
    <3>1. PICK i \in 1 .. m : s[i] = x
      BY <1>2, <2>2
    <3> QED BY <1>1, <1>2, <1>6, <3>1
  <2>3. ASSUME x \in Elements(t) PROVE x \in Elements(r)
    <3>1. PICK i \in 1 .. n : t[i] = x
      BY <1>2, <2>3
    <3> QED BY <1>1, <1>2, <1>6, <3>1
  <2> QED BY <2>1, <2>2, <2>3
<1>8. \A i \in 1 .. m, k \in 1 .. n : r[i] # r[m + k]
  <2> TAKE i \in 1 .. m, k \in 1 .. n
  <2>1. r[i] \in Elements(s) /\ r[m + k] \in Elements(t)
    BY <1>1, <1>2
  <2> QED BY <2>1
<1>9. ASSUME NEW i \in 1 .. m + n, NEW j \in 1 .. m + n, r[i] = r[j] PROVE i = j
  <2>1. CASE i \in 1 .. m
    <3>1. j \in 1 .. m
      BY <1>5, <1>8, <1>9, <2>1
    <3>2. s[i] = s[j]
      BY <1>1, <1>9, <2>1, <3>1
    <3> QED BY <1>3, <2>1, <3>1, <3>2
  <2>2. ASSUME NEW k \in 1 .. n, i = m + k PROVE i = j
    <3>1. j \notin 1 .. m
      BY <1>8, <1>9, <2>2
    <3>2. PICK l \in 1 .. n : j = m + l
      BY <1>5, <3>1
    <3>3. r[m + k] = t[k] /\ r[m + l] = t[l]
      BY <1>1
    <3>4. k = l
      BY <1>3, <1>9, <2>2, <3>2, <3>3
    <3> QED BY <2>2, <3>2, <3>4
  <2> QED BY <1>5, <2>1, <2>2
<1>10. Distinct(r)
  BY <1>1, <1>9 DEF Distinct
<1> QED BY <1>1, <1>4, <1>7, <1>10

-----------------------------------------------------------------------------
(* The tasks of a set, in list order.                                      *)

OnList(S) == {t \in Tasks : t \in S}

LEMMA InListOrderIs ==
    ASSUME NEW S
    PROVE  \E g \in [0 .. Len(TaskList) -> Seq(Tasks)] :
               /\ g[0] = <<>>
               /\ \A i \in 1 .. Len(TaskList) :
                     g[i] = IF TaskList[i] \in S THEN Append(g[i - 1], TaskList[i]) ELSE g[i - 1]
               /\ InListOrder(S) = g[Len(TaskList)]
<1> DEFINE n == Len(TaskList)
           F == [x \in (1 .. n) \X Seq(Tasks) |->
                    IF TaskList[x[1]] \in S THEN Append(x[2], TaskList[x[1]]) ELSE x[2]]
           Next1(g, i) == IF i = 0 THEN <<>>
               ELSE IF TaskList[i] \in S THEN Append(g[i - 1], TaskList[i]) ELSE g[i - 1]
           Runs(g) == g = [i \in 0 .. n |-> Next1(g, i)]
<1>1. n \in Nat /\ \A i \in 1 .. n : TaskList[i] \in Tasks
  BY DEF BuildAssumption
<1>2. F \in [(1 .. n) \X Seq(Tasks) -> Seq(Tasks)]
  BY SMTT(30), <1>1
<1>3. <<>> \in Seq(Tasks)
  OBVIOUS
<1>4. \A i \in 1 .. n, s \in Seq(Tasks) :
          F[<<i, s>>] = IF TaskList[i] \in S THEN Append(s, TaskList[i]) ELSE s
  OBVIOUS
<1> HIDE DEF F
<1>5. PICK g \in [0 .. n -> Seq(Tasks)] :
          g[0] = <<>> /\ \A i \in 1 .. n : g[i] = F[<<i, g[i - 1]>>]
  <2> DEFINE A == Seq(Tasks)
             a == <<>>
  <2>1. a \in A /\ n \in Nat /\ F \in [(1 .. n) \X A -> A]
    BY <1>1, <1>2, <1>3
  <2> HIDE DEF n, A, a
  <2>2. \E g \in [0 .. n -> A] : Run(g, n, a, F)
    BY <2>1, Recursion
  <2> QED BY <2>2, Zenon DEF A, a, Run
<1>6. \A i \in 1 .. n :
          g[i] = IF TaskList[i] \in S THEN Append(g[i - 1], TaskList[i]) ELSE g[i - 1]
  <2> TAKE i \in 1 .. n
  <2>1. i - 1 \in 0 .. n
    BY <1>1
  <2>2. g[i - 1] \in Seq(Tasks)
    BY <2>1
  <2> QED BY <1>4, <1>5, <2>2
<1>7. Runs(g) /\ \A i \in 0 .. n : g[i] = Next1(g, i)
  <2>1. \A i \in 0 .. n : i = 0 \/ i \in 1 .. n
    BY <1>1
  <2>2. \A i \in 0 .. n : g[i] = Next1(g, i)
    BY <1>5, <1>6, <2>1
  <2> HIDE DEF n, Next1
  <2> QED BY <2>2
<1> DEFINE u == CHOOSE h : Runs(h)
<1>8. \A i \in 0 .. n : u[i] = Next1(u, i)
  <2>1. Runs(u)
    BY <1>7
  <2> HIDE DEF u, Next1, n
  <2> QED BY <2>1
<1>9. InListOrder(S) = u[n]
  BY DEF InListOrder
<1> HIDE DEF u
<1>10. u[n] = g[n]
  <2> DEFINE G == {k \in Nat : k <= n => u[k] = g[k]}
  <2>1. 0 \in G
    <3>1. 0 \in 0 .. n
      BY <1>1
    <3>2. Next1(u, 0) = <<>>
      BY Zenon
    <3>3. u[0] = g[0]
      BY <1>5, <1>8, <3>1, <3>2, Zenon
    <3> QED BY <3>3
  <2>2. ASSUME NEW k \in Nat, k \in G PROVE k + 1 \in G
    <3> SUFFICES ASSUME k + 1 <= n PROVE u[k + 1] = g[k + 1]
      OBVIOUS
    <3>1. k + 1 \in 1 .. n /\ k + 1 \in 0 .. n /\ k + 1 # 0 /\ k + 1 - 1 = k
      BY <1>1
    <3>2. u[k] = g[k]
      BY <1>1, <2>2, <3>1
    <3> HIDE DEF Next1
    <3>3. u[k + 1] = Next1(u, k + 1) /\ g[k + 1] = Next1(g, k + 1)
      BY <1>7, <1>8, <3>1, Zenon
    <3>4. u[k + 1 - 1] = g[k + 1 - 1]
      BY <3>1, <3>2
    <3>5. ASSUME NEW i \in 1 .. n, i # 0, u[i - 1] = g[i - 1] PROVE Next1(u, i) = Next1(g, i)
      BY <3>5, Zenon DEF Next1
    <3>6. Next1(u, k + 1) = Next1(g, k + 1)
      BY <3>1, <3>4, <3>5
    <3> QED BY <3>3, <3>6
  <2> HIDE DEF G
  <2>3. n \in G
    BY <1>1, <2>1, <2>2, Induct
  <2> QED BY <1>1, <2>3 DEF G
<1> QED BY <1>5, <1>6, <1>9, <1>10

LEMMA InListOrderHolds ==
    ASSUME NEW S
    PROVE  /\ InListOrder(S) \in Seq(Tasks) /\ Distinct(InListOrder(S))
           /\ Elements(InListOrder(S)) = OnList(S)
<1> DEFINE n == Len(TaskList)
<1>1. /\ n \in Nat /\ \A i \in 1 .. n : TaskList[i] \in Tasks
      /\ \A t \in Tasks : \E i \in 1 .. n : TaskList[i] = t
      /\ \A i, j \in 1 .. n : TaskList[i] = TaskList[j] => i = j
  BY DEF BuildAssumption
<1>2. PICK g \in [0 .. n -> Seq(Tasks)] :
               /\ g[0] = <<>>
               /\ \A i \in 1 .. n :
                     g[i] = IF TaskList[i] \in S THEN Append(g[i - 1], TaskList[i]) ELSE g[i - 1]
               /\ InListOrder(S) = g[n]
  BY InListOrderIs
<1> HIDE DEF n
<1> DEFINE Sofar(k) == {x \in Tasks : x \in S /\ \E i \in 1 .. k : TaskList[i] = x}
           G == {k \in Nat : k <= n => Distinct(g[k]) /\ Elements(g[k]) = Sofar(k)}
<1>3. 0 \in G
  BY <1>2, EmptyHolds
<1>4. ASSUME NEW k \in Nat, k \in G PROVE k + 1 \in G
  <2> SUFFICES ASSUME k + 1 <= n
               PROVE  Distinct(g[k + 1]) /\ Elements(g[k + 1]) = Sofar(k + 1)
    OBVIOUS
  <2>1. k + 1 \in 1 .. n /\ k \in 0 .. n /\ k <= n /\ k + 1 - 1 = k
    BY <1>1
  <2>2. g[k] \in Seq(Tasks) /\ Distinct(g[k]) /\ Elements(g[k]) = Sofar(k)
    BY <1>4, <2>1
  <2> DEFINE t == TaskList[k + 1]
  <2>3. \A i \in 1 .. k + 1 : i \in 1 .. k \/ i = k + 1
    OBVIOUS
  <2>4. (\A i \in 1 .. k : i \in 1 .. k + 1 /\ i \in 1 .. n /\ i # k + 1) /\ k + 1 \in 1 .. k + 1
    BY <1>1, <2>1
  <2>5. t \in Tasks
    BY <1>1, <2>1
  <2>6. t \notin Sofar(k)
    BY <1>1, <2>1, <2>4
  <2>7. CASE t \in S
    <3>1. g[k + 1] = Append(g[k], t)
      <4>1. PICK i \in 1 .. n : i = k + 1 /\ i - 1 = k
        BY <2>1
      <4>2. TaskList[i] \in S
        BY <2>7, <4>1
      <4>3. g[i] = Append(g[i - 1], TaskList[i])
        BY <1>2, <4>2, Zenon
      <4> QED BY <4>1, <4>3, Zenon
    <3>2. Sofar(k + 1) = Sofar(k) \cup {t}
      <4>1. Sofar(k + 1) \subseteq Sofar(k) \cup {t}
        BY <2>3
      <4>2. Sofar(k) \subseteq Sofar(k + 1)
        BY <2>4
      <4>3. t \in Sofar(k + 1)
        BY <2>4, <2>5, <2>7
      <4> HIDE DEF t, Sofar
      <4> QED BY <4>1, <4>2, <4>3
    <3> DEFINE s == g[k]
    <3>3. s \in Seq(Tasks) /\ Distinct(s) /\ Elements(s) = Sofar(k) /\ t \notin Elements(s)
      BY <2>2, <2>6
    <3> HIDE DEF t, Sofar, s
    <3>4. Distinct(Append(s, t)) /\ Elements(Append(s, t)) = Sofar(k + 1)
      BY <2>5, <3>2, <3>3, AppendHolds
    <3> QED BY <3>1, <3>4 DEF s
  <2>8. CASE t \notin S
    <3>1. g[k + 1] = g[k]
      BY <1>2, <2>1, <2>8
    <3>2. Sofar(k + 1) = Sofar(k)
      BY SMTT(30), <2>3, <2>4, <2>8
    <3> HIDE DEF t, Sofar
    <3> QED BY <2>2, <3>1, <3>2
  <2> QED BY <2>7, <2>8
<1> HIDE DEF G
<1>5. n \in G /\ n <= n
  <2>1. Nat \subseteq G
    BY <1>3, <1>4, Induct
  <2> QED BY <1>1, <2>1
<1>6. Distinct(g[n]) /\ Elements(g[n]) = Sofar(n)
  BY <1>5 DEF G
<1>7. Sofar(n) = OnList(S)
  BY <1>1 DEF OnList
<1>8. g[n] \in Seq(Tasks)
  BY <1>1
<1> QED BY <1>2, <1>6, <1>7, <1>8

-----------------------------------------------------------------------------
(* The search ends: an entered task stays entered, and between two entries *)
(* the stack and what its top frame has still to look at only shrink.      *)

Frames == [ext : Tasks, todo : Seq(Tasks), top : Nat]

Step(p, c) ==
    LET f == Head(c.stack)
    IN IF f.todo = <<>> THEN Return(c, f) ELSE Look(p, c, f, Head(f.todo))

LEMMA DependsOnHolds == ASSUME NEW p, NEW t PROVE DependsOn(p, t) \in Seq(Tasks)
BY InListOrderHolds DEF DependsOn

LEMMA ListedHolds ==
    ASSUME NEW p
    PROVE  /\ Listed(p) \in Seq(Tasks) /\ Distinct(Listed(p))
           /\ Elements(Listed(p)) = OnList(p.listed)
BY InListOrderHolds DEF Listed

LEMMA FrameHolds == ASSUME NEW p, NEW t \in Tasks PROVE Frame(p, t) \in Frames
BY DependsOnHolds DEF Frame, Frames

\* The frame g is f, which may have learnt a higher level.
SameFrame(g, f) == g.ext = f.ext /\ g.todo = f.todo /\ g.top >= f.top

LEMMA FrameAt ==
    ASSUME NEW s \in Seq(Frames), NEW j \in 1 .. Len(s)
    PROVE  s[j] \in Frames /\ s[j].ext \in Tasks /\ s[j].todo \in Seq(Tasks) /\ s[j].top \in Nat
<1>1. s[j] \in Frames
  OBVIOUS
<1> QED BY <1>1 DEF Frames

LEMMA LearnHolds ==
    ASSUME NEW s \in Seq(Frames), NEW n \in Nat
    PROVE  /\ Learn(s, n) \in Seq(Frames) /\ Len(Learn(s, n)) = Len(s)
           /\ \A j \in 1 .. Len(s) : SameFrame(Learn(s, n)[j], s[j])
           /\ s # <<>> => Learn(s, n)[1].top >= n
<1>0. \A j \in 1 .. Len(s) : s[j] \in Frames /\ s[j].top \in Nat
  BY FrameAt
<1>1. CASE s = <<>>
  BY <1>1 DEF Learn
<1>2. CASE s # <<>>
  <2>1. 1 \in 1 .. Len(s) /\ s[1] \in Frames /\ s[1].top \in Nat
    <3>1. 1 \in 1 .. Len(s)
      BY <1>2
    <3> QED BY <3>1, FrameAt
  <2> DEFINE f == [s[1] EXCEPT !.top = Max2(s[1].top, n)]
  <2>2. f \in Frames /\ SameFrame(f, s[1]) /\ f.top >= n
    <3>1. Max2(s[1].top, n) \in Nat /\ Max2(s[1].top, n) >= n /\ Max2(s[1].top, n) >= s[1].top
      BY <2>1 DEF Max2
    <3> QED BY <2>1, <3>1 DEF Frames, SameFrame
  <2>3. Learn(s, n) = [s EXCEPT ![1] = f]
    BY <1>2 DEF Learn
  <2> HIDE DEF f
  <2> DEFINE r == [s EXCEPT ![1] = f]
  <2>4. /\ r \in Seq(Frames) /\ Len(r) = Len(s) /\ r[1] = f
        /\ \A j \in 1 .. Len(s) : j # 1 => r[j] = s[j]
    BY <2>1, <2>2, ExceptSeq
  <2> HIDE DEF r
  <2>5. \A j \in 1 .. Len(s) : SameFrame(r[j], s[j])
    <3> TAKE j \in 1 .. Len(s)
    <3>1. CASE j = 1
      BY <2>2, <2>4, <3>1
    <3>2. CASE j # 1
      <4>1. r[j] = s[j]
        BY <2>4, <3>2
      <4> QED BY <1>0, <4>1 DEF SameFrame
    <3> QED BY <3>1, <3>2
  <2>6. Learn(s, n) = r
    BY <2>3 DEF r
  <2> QED BY <2>2, <2>4, <2>5, <2>6
<1> QED BY <1>1, <1>2

SearchOf(r, u, w) == [stack |-> r, seen |-> u, wave_of |-> w]

LEMMA SearchHolds ==
    ASSUME NEW r \in Seq(Frames), NEW u \in SUBSET Tasks, NEW w \in [Tasks -> Nat]
    PROVE  /\ SearchOf(r, u, w) \in Searches /\ SearchOf(r, u, w).stack = r
           /\ SearchOf(r, u, w).seen = u /\ SearchOf(r, u, w).wave_of = w
BY DEF SearchOf, Searches, Frames

\* One step of the search: a frame is left, one dependency is looked at, or a
\* task is entered.
Left(c, d) ==
    LET f == c.stack[1]
    IN /\ f.todo = <<>>
       /\ d.seen = c.seen /\ d.wave_of = [c.wave_of EXCEPT ![f.ext] = 1 + f.top]
       /\ Len(d.stack) = Len(c.stack) - 1
       /\ \A j \in 1 .. Len(d.stack) : SameFrame(d.stack[j], c.stack[j + 1])
       /\ Len(d.stack) # 0 => d.stack[1].top >= 1 + f.top

\* The top frame has one dependency less to look at.
Past(g, f) == g.ext = f.ext /\ g.todo = Tail(f.todo) /\ g.top >= f.top

Looked(c, d) ==
    LET f == c.stack[1]
        t == f.todo[1]
    IN /\ f.todo # <<>>
       /\ d.seen = c.seen /\ d.wave_of = c.wave_of
       /\ Len(d.stack) = Len(c.stack)
       /\ Past(d.stack[1], f)
       /\ \A j \in 2 .. Len(c.stack) : SameFrame(d.stack[j], c.stack[j])
       /\ IF c.wave_of[t] = 0 THEN t \in c.seen ELSE d.stack[1].top >= c.wave_of[t]

Entered(p, c, d) ==
    LET f == c.stack[1]
        t == f.todo[1]
    IN /\ f.todo # <<>> /\ t \notin c.seen /\ c.wave_of[t] = 0
       /\ d.seen = c.seen \cup {t} /\ d.wave_of = c.wave_of
       /\ Len(d.stack) = Len(c.stack) + 1
       /\ d.stack[1] = Frame(p, t)
       /\ Past(d.stack[2], f)
       /\ \A j \in 2 .. Len(c.stack) : SameFrame(d.stack[j + 1], c.stack[j])

LEMMA StepHolds ==
    ASSUME NEW p, NEW c \in Searches, c.stack # <<>>
    PROVE  /\ Step(p, c) \in Searches
           /\ Left(c, Step(p, c)) \/ Looked(c, Step(p, c)) \/ Entered(p, c, Step(p, c))
<1> DEFINE s == c.stack
           f == s[1]
           e == Step(p, c)
<1>1. /\ s \in Seq(Frames) /\ s # <<>> /\ c.seen \in SUBSET Tasks /\ c.wave_of \in [Tasks -> Nat]
      /\ c = [stack |-> s, seen |-> c.seen, wave_of |-> c.wave_of]
  BY DEF Searches, Frames
<1>2. /\ f \in Frames /\ Head(s) = f /\ 1 \in 1 .. Len(s) /\ Len(s) \in Nat
      /\ \A j \in 1 .. Len(s) : s[j] \in Frames /\ s[j].top \in Nat
  <2>1. Head(s) = f /\ 1 \in 1 .. Len(s) /\ Len(s) \in Nat
    BY <1>1
  <2> QED BY <1>1, <2>1, FrameAt
<1>3. /\ f.ext \in Tasks /\ f.todo \in Seq(Tasks) /\ f.top \in Nat
  BY <1>2 DEF Frames
<1> HIDE DEF f
<1>4. CASE f.todo = <<>>
  <2>1. /\ Tail(s) \in Seq(Frames) /\ Len(Tail(s)) = Len(s) - 1
        /\ \A j \in 1 .. Len(Tail(s)) : Tail(s)[j] = s[j + 1]
    BY <1>1, HeadTailProperties
  <2> DEFINE q == Tail(s)
             n == 1 + f.top
             r == Learn(q, n)
             w == [c.wave_of EXCEPT ![f.ext] = 1 + f.top]
  <2>2. n \in Nat /\ q \in Seq(Frames)
    BY SMTT(30), <1>3, <2>1
  <2>3. /\ r \in Seq(Frames) /\ Len(r) = Len(q)
        /\ \A j \in 1 .. Len(q) : SameFrame(r[j], q[j])
        /\ q # <<>> => r[1].top >= n
    <3> HIDE DEF q, n
    <3> QED BY <2>2, LearnHolds
  <2>4. e = SearchOf(r, c.seen, w)
    BY <1>1, <1>2, <1>4 DEF Step, Return, SearchOf
  <2>5. w \in [Tasks -> Nat]
    <3>1. 1 + f.top \in Nat
      BY <1>3
    <3> QED BY <1>1, <3>1
  <2> HIDE DEF r, w, e
  <2>6. e \in Searches /\ e.stack = r /\ e.seen = c.seen /\ e.wave_of = w
    <3>1. \A u \in SUBSET Tasks, v \in [Tasks -> Nat] :
              /\ SearchOf(r, u, v) \in Searches /\ SearchOf(r, u, v).stack = r
              /\ SearchOf(r, u, v).seen = u /\ SearchOf(r, u, v).wave_of = v
      BY <2>3, SearchHolds
    <3> QED BY <1>1, <2>4, <2>5, <3>1
  <2>7. \A j \in 1 .. Len(r) : SameFrame(r[j], s[j + 1])
    BY <2>1, <2>3
  <2>8. Len(r) # 0 => q # <<>>
    BY <2>3
  <2>9. Left(c, e)
    BY <1>4, <2>1, <2>3, <2>6, <2>7, <2>8 DEF Left, f, w
  <2> QED BY <2>6, <2>9 DEF e
<1>5. CASE f.todo # <<>>
  <2> DEFINE d == f.todo[1]
             g == [f EXCEPT !.todo = Tail(f.todo)]
             rest == [s EXCEPT ![1] = g]
  <2>1. d \in Tasks /\ Tail(f.todo) \in Seq(Tasks) /\ Head(f.todo) = d
    BY <1>3, <1>5
  <2>2. g \in Frames /\ Past(g, f)
    <3>1. g.ext = f.ext /\ g.todo = Tail(f.todo) /\ g.top = f.top
      BY <1>2 DEF Frames
    <3>2. g \in Frames
      BY <1>2, <2>1 DEF Frames
    <3> HIDE DEF g
    <3> QED BY <1>3, <3>1, <3>2 DEF Past
  <2>3. e = Look(p, c, f, d)
    BY <1>2, <1>5, <2>1 DEF Step
  <2>4. [c.stack EXCEPT ![1].todo = Tail(f.todo)] = rest
    BY <1>2 DEF f
  <2>5. c.wave_of[d] \in Nat
    BY <1>1, <2>1
  <2> HIDE DEF g, d, e
  <2>6. /\ rest \in Seq(Frames) /\ Len(rest) = Len(s) /\ rest[1] = g
        /\ \A j \in 2 .. Len(s) : rest[j] = s[j]
    BY <1>1, <1>2, <2>2, ExceptSeq
  <2>7. rest # <<>> /\ g.top \in Nat
    <3>1. g.top \in Nat
      BY <2>2 DEF Frames
    <3> QED BY <1>2, <2>6, <3>1
  <2>8. \A j \in 2 .. Len(s) : s[j].top \in Nat /\ j \in 1 .. Len(s) /\ j # 1
    BY <1>2
  <2> HIDE DEF rest
  <2>9. ASSUME NEW n \in Nat, e = [c EXCEPT !.stack = Learn(rest, n)],
               IF c.wave_of[d] = 0 THEN d \in c.seen ELSE n = c.wave_of[d]
        PROVE  e \in Searches /\ Looked(c, e)
    <3> DEFINE r == Learn(rest, n)
    <3>1. /\ r \in Seq(Frames) /\ Len(r) = Len(s)
          /\ \A j \in 1 .. Len(s) : SameFrame(r[j], rest[j])
          /\ r[1].top >= n
      BY <2>6, <2>7, LearnHolds
    <3>2. e = SearchOf(r, c.seen, c.wave_of)
      BY <1>1, <2>9 DEF SearchOf
    <3> HIDE DEF r
    <3>3. e \in Searches /\ e.stack = r /\ e.seen = c.seen /\ e.wave_of = c.wave_of
      <4>1. \A u \in SUBSET Tasks, w \in [Tasks -> Nat] :
                /\ SearchOf(r, u, w) \in Searches /\ SearchOf(r, u, w).stack = r
                /\ SearchOf(r, u, w).seen = u /\ SearchOf(r, u, w).wave_of = w
        BY <3>1, SearchHolds
      <4> QED BY <1>1, <3>2, <4>1
    <3>4. Past(r[1], f)
      <4>1. SameFrame(r[1], g)
        BY <1>2, <2>6, <3>1
      <4>2. r[1].top \in Nat
        <5>1. 1 \in 1 .. Len(r)
          BY <1>2, <3>1
        <5> QED BY <3>1, <5>1, FrameAt
      <4>3. r[1].ext = f.ext /\ r[1].todo = Tail(f.todo)
        BY <2>2, <4>1, Zenon DEF SameFrame, Past
      <4>4. r[1].top >= g.top /\ g.top >= f.top
        BY <2>2, <4>1, Zenon DEF SameFrame, Past
      <4>5. r[1].top >= f.top
        BY SMTT(30), <1>3, <2>7, <4>2, <4>4
      <4> QED BY <4>3, <4>5, Zenon DEF Past
    <3>5. \A j \in 2 .. Len(s) : SameFrame(r[j], s[j])
      BY <2>6, <2>8, <3>1
    <3>6. r[1].top >= n
      BY <3>1
    <3>7. IF c.wave_of[d] = 0 THEN d \in c.seen ELSE r[1].top >= c.wave_of[d]
      BY <2>9, <3>6
    <3>8. Looked(c, e)
      BY <1>5, <3>1, <3>3, <3>4, <3>5, <3>7 DEF Looked, f, d
    <3> QED BY <3>3, <3>8
  <2>10. CASE c.wave_of[d] # 0
    <3>1. e = [c EXCEPT !.stack = Learn(rest, c.wave_of[d])]
      BY <2>3, <2>4, <2>10 DEF Look
    <3> QED BY <2>5, <2>9, <2>10, <3>1 DEF e
  <2>11. CASE c.wave_of[d] = 0 /\ d \in c.seen
    <3>1. e = [c EXCEPT !.stack = Learn(rest, 1)]
      BY <2>3, <2>4, <2>11 DEF Look
    <3> QED BY <2>9, <2>11, <3>1 DEF e
  <2>12. CASE c.wave_of[d] = 0 /\ d \notin c.seen
    <3> DEFINE new == <<Frame(p, d)>>
               r == new \o rest
               u == c.seen \cup {d}
    <3>1. new \in Seq(Frames) /\ Len(new) = 1 /\ new[1] = Frame(p, d)
      BY <2>1, FrameHolds
    <3> HIDE DEF new
    <3>2. /\ r \in Seq(Frames) /\ Len(r) = 1 + Len(s)
          /\ \A i \in 1 .. 1 + Len(s) : r[i] = IF i <= 1 THEN new[i] ELSE rest[i - 1]
      <4>1. /\ r \in Seq(Frames) /\ Len(r) = Len(new) + Len(rest)
            /\ \A i \in 1 .. Len(new) + Len(rest) :
                  r[i] = IF i <= Len(new) THEN new[i] ELSE rest[i - Len(new)]
        <5> HIDE DEF Frames
        <5>1. new \in Seq(Frames) /\ rest \in Seq(Frames)
          BY <2>6, <3>1
        <5> QED BY <5>1, ConcatProperties
      <4> HIDE DEF r
      <4>2. Len(r) = 1 + Len(s)
        BY <2>6, <3>1, <4>1
      <4>3. \A i \in 1 .. 1 + Len(s) : r[i] = IF i <= 1 THEN new[i] ELSE rest[i - 1]
        BY <2>6, <3>1, <4>1
      <4> QED BY <4>1, <4>2, <4>3
    <3>3. e = SearchOf(r, u, c.wave_of)
      BY <1>1, <2>3, <2>4, <2>12 DEF Look, SearchOf, new
    <3> HIDE DEF r
    <3>4. u \in SUBSET Tasks
      BY <1>1, <2>1
    <3>5. e \in Searches /\ e.stack = r /\ e.seen = u /\ e.wave_of = c.wave_of
      <4> HIDE DEF u
      <4>1. \A v \in SUBSET Tasks, w \in [Tasks -> Nat] :
                /\ SearchOf(r, v, w) \in Searches /\ SearchOf(r, v, w).stack = r
                /\ SearchOf(r, v, w).seen = v /\ SearchOf(r, v, w).wave_of = w
        BY <3>2, SearchHolds
      <4> QED BY SMTT(30), <1>1, <3>3, <3>4, <4>1
    <3>6. r[1] = Frame(p, d)
      <4>1. 1 \in 1 .. 1 + Len(s) /\ 1 <= 1
        BY <1>2
      <4>2. r[1] = new[1]
        BY <3>2, <4>1
      <4> QED BY <3>1, <4>2
    <3>7. Past(r[2], f)
      <4>1. 2 \in 1 .. 1 + Len(s) /\ 2 - 1 = 1 /\ ~(2 <= 1)
        BY <1>2
      <4>2. r[2] = g
        BY <2>6, <3>2, <4>1
      <4> QED BY <2>2, <4>2
    <3>8. \A j \in 2 .. Len(s) : SameFrame(r[j + 1], s[j])
      <4> TAKE j \in 2 .. Len(s)
      <4>1. j + 1 \in 1 .. 1 + Len(s) /\ ~(j + 1 <= 1) /\ j + 1 - 1 = j
        BY <1>2
      <4>2. r[j + 1] = s[j]
        BY <2>6, <3>2, <4>1
      <4> QED BY <2>8, <4>2 DEF SameFrame
    <3>9. Entered(p, c, e)
      BY <1>5, <1>2, <2>12, <3>2, <3>5, <3>6, <3>7, <3>8 DEF Entered, f, d
    <3> QED BY <3>5, <3>9 DEF e
  <2> QED BY <2>10, <2>11, <2>12
<1> QED BY <1>4, <1>5

LEMMA Least ==
    ASSUME NEW G \in SUBSET Nat, G # {}
    PROVE  \E x \in G : \A y \in G : x <= y
<1>1. PICK x \in G : \A y \in G : ~(<<y, x>> \in OpToRel(<, Nat))
  BY NatLessThanWellFounded, WFMin
<1>2. \A y \in G : ~(y < x)
  BY <1>1 DEF OpToRel
<1> QED BY <1>2

LEMMA LeastOf ==
    ASSUME NEW B, B # {}, NEW m \in [B -> Nat]
    PROVE  \E b \in B : \A c \in B : m[b] <= m[c]
<1> DEFINE G == {m[c] : c \in B}
<1>1. G \in SUBSET Nat /\ G # {}
  OBVIOUS
<1>2. \A c \in B : m[c] \in G
  OBVIOUS
<1>3. \A x \in G : \E b \in B : x = m[b]
  OBVIOUS
<1> HIDE DEF G
<1>4. PICK x \in G : \A y \in G : x <= y
  BY <1>1, Least
<1> QED BY <1>2, <1>3, <1>4

LEMMA TasksAreFinite == IsFiniteSet(Tasks)
<1> DEFINE f == [i \in 1 .. Len(TaskList) |-> TaskList[i]]
<1>1. Tasks = {TaskList[i] : i \in 1 .. Len(TaskList)}
  BY DEF BuildAssumption
<1>2. IsFiniteSet(1 .. Len(TaskList))
  <2>1. Len(TaskList) \in Int
    BY DEF BuildAssumption
  <2> QED BY <2>1, FS_Interval
<1>3. f \in Surjection(1 .. Len(TaskList), Tasks)
  BY <1>1 DEF Surjection
<1> QED BY <1>2, <1>3, FS_Surjection

\* No set of searches is closed under the step.
LEMMA NoEndlessSearch ==
    ASSUME NEW p, NEW B \in SUBSET Searches,
           \A c \in B : c.stack # <<>> /\ Step(p, c) \in B
    PROVE  B = {}
<1> SUFFICES ASSUME B # {} PROVE FALSE
  OBVIOUS
<1> DEFINE unseen == [c \in B |-> Cardinality(Tasks \ c.seen)]
           depth  == [c \in B |-> Len(c.stack)]
           width  == [c \in B |-> Len(c.stack[1].todo)]
<1>1. /\ unseen \in [B -> Nat] /\ depth \in [B -> Nat] /\ width \in [B -> Nat]
      /\ \A c \in B : IsFiniteSet(Tasks \ c.seen)
  <2> SUFFICES ASSUME NEW c \in B
               PROVE  /\ IsFiniteSet(Tasks \ c.seen) /\ Cardinality(Tasks \ c.seen) \in Nat
                      /\ Len(c.stack) \in Nat /\ Len(c.stack[1].todo) \in Nat
    OBVIOUS
  <2>1. c.seen \in SUBSET Tasks /\ c.stack \in Seq(Frames) /\ c.stack # <<>>
    BY DEF Searches, Frames
  <2>2. Len(c.stack) \in Nat /\ c.stack[1] \in Frames
    BY <2>1
  <2>3. Len(c.stack[1].todo) \in Nat
    BY <2>2 DEF Frames
  <2>4. IsFiniteSet(Tasks \ c.seen) /\ Cardinality(Tasks \ c.seen) \in Nat
    BY TasksAreFinite, FS_Subset, FS_CardinalityType
  <2> QED BY <2>1, <2>2, <2>3, <2>4
<1>2. \A c \in B : Entered(p, c, Step(p, c)) => unseen[Step(p, c)] = unseen[c] - 1
  <2> TAKE c \in B
  <2> HAVE Entered(p, c, Step(p, c))
  <2>1. PICK t \in Tasks \ c.seen : Step(p, c).seen = c.seen \cup {t}
    <3>1. c.stack \in Seq(Frames) /\ c.stack # <<>>
      BY DEF Searches, Frames
    <3>2. c.stack[1].todo \in Seq(Tasks)
      <4>1. 1 \in 1 .. Len(c.stack)
        BY <3>1
      <4> QED BY <3>1, <4>1, FrameAt
    <3>3. c.stack[1].todo # <<>>
      BY DEF Entered
    <3>4. c.stack[1].todo[1] \in Tasks
      BY <3>2, <3>3
    <3> QED BY <3>4 DEF Entered
  <2>2. Tasks \ Step(p, c).seen = (Tasks \ c.seen) \ {t}
    BY <2>1
  <2>3. Cardinality((Tasks \ c.seen) \ {t}) = Cardinality(Tasks \ c.seen) - 1
    BY <1>1, FS_RemoveElement
  <2> QED BY <2>2, <2>3
<1>3. \A c \in B : Step(p, c).seen = c.seen => unseen[Step(p, c)] = unseen[c]
  OBVIOUS
<1>4. \A c \in B : Left(c, Step(p, c)) => depth[Step(p, c)] = depth[c] - 1
  BY DEF Left
<1>5. \A c \in B : Looked(c, Step(p, c)) => /\ depth[Step(p, c)] = depth[c]
                                           /\ width[Step(p, c)] = width[c] - 1
  <2> TAKE c \in B
  <2> HAVE Looked(c, Step(p, c))
  <2>1. c.stack \in Seq(Frames) /\ c.stack # <<>>
    BY DEF Searches, Frames
  <2>2. c.stack[1].todo \in Seq(Tasks)
    <3>1. 1 \in 1 .. Len(c.stack)
      BY <2>1
    <3> QED BY <2>1, <3>1, FrameAt
  <2>3. c.stack[1].todo # <<>> /\ Step(p, c).stack[1].todo = Tail(c.stack[1].todo)
    BY DEF Looked, Past
  <2>4. Len(Step(p, c).stack[1].todo) = Len(c.stack[1].todo) - 1
    BY <2>2, <2>3
  <2> QED BY <2>4 DEF Looked
<1>6. \A c \in B : \/ Step(p, c).seen = c.seen /\ (Left(c, Step(p, c)) \/ Looked(c, Step(p, c)))
                   \/ Entered(p, c, Step(p, c))
  BY StepHolds DEF Left, Looked
<1> HIDE DEF unseen, depth, width
<1>7. PICK a \in B : \A c \in B : unseen[a] <= unseen[c]
  BY <1>1, LeastOf
<1> DEFINE B1 == {c \in B : unseen[c] = unseen[a]}
<1>8. \A c \in B1 : Step(p, c) \in B1 /\ (Left(c, Step(p, c)) \/ Looked(c, Step(p, c)))
  <2> TAKE c \in B1
  <2>1. unseen[c] \in Nat /\ unseen[c] <= unseen[Step(p, c)]
    BY <1>1, <1>7
  <2>2. ~Entered(p, c, Step(p, c))
    BY <1>2, <2>1
  <2> QED BY <1>3, <1>6, <2>2
<1>9. PICK b \in B1 : \A c \in B1 : depth[b] <= depth[c]
  <2> DEFINE m == [c \in B1 |-> depth[c]]
  <2>1. m \in [B1 -> Nat] /\ B1 # {}
    BY <1>1
  <2>2. \A c \in B1 : m[c] = depth[c]
    OBVIOUS
  <2> HIDE DEF m, B1
  <2>3. \E x \in B1 : \A c \in B1 : m[x] <= m[c]
    BY <2>1, LeastOf
  <2> QED BY <2>2, <2>3
<1> DEFINE B2 == {c \in B1 : depth[c] = depth[b]}
<1>10. \A c \in B2 : Step(p, c) \in B2 /\ Looked(c, Step(p, c))
  <2> TAKE c \in B2
  <2>1. depth[c] \in Nat /\ depth[c] <= depth[Step(p, c)]
    BY <1>1, <1>8, <1>9
  <2>2. ~Left(c, Step(p, c))
    BY <1>4, <2>1
  <2> QED BY <1>5, <1>8, <2>2
<1>11. PICK w \in B2 : \A c \in B2 : width[w] <= width[c]
  <2> DEFINE m == [c \in B2 |-> width[c]]
  <2>1. m \in [B2 -> Nat] /\ B2 # {}
    BY <1>1
  <2>2. \A c \in B2 : m[c] = width[c]
    OBVIOUS
  <2> HIDE DEF m, B2
  <2>3. \E x \in B2 : \A c \in B2 : m[x] <= m[c]
    BY <2>1, LeastOf
  <2> QED BY <2>2, <2>3
<1>12. /\ Step(p, w) \in B2 /\ width[Step(p, w)] = width[w] - 1
       /\ width[w] \in Nat /\ width[w] <= width[Step(p, w)]
  BY <1>1, <1>5, <1>10, <1>11
<1> QED BY <1>12

-----------------------------------------------------------------------------
(* So the search has a result: the least relation between searches and the *)
(* levels they end with is a function, and Level is it.                    *)

Waves == [Tasks -> Nat]

Closed(p, Q) ==
    /\ \A c \in Searches : c.stack = <<>> => <<c, c.wave_of>> \in Q
    /\ \A c \in Searches, w \in Waves :
          c.stack # <<>> /\ <<Step(p, c), w>> \in Q => <<c, w>> \in Q

Found(p) == {x \in Searches \X Waves :
                \A Q \in SUBSET (Searches \X Waves) : Closed(p, Q) => x \in Q}

LEMMA WavesOfSearch == \A c \in Searches : c.wave_of \in Waves
BY DEF Searches, Waves

LEMMA FoundIsClosed == ASSUME NEW p PROVE Closed(p, Found(p))
<1>1. ASSUME NEW c \in Searches, c.stack = <<>> PROVE <<c, c.wave_of>> \in Found(p)
  BY <1>1, WavesOfSearch DEF Found, Closed
<1>2. ASSUME NEW c \in Searches, NEW w \in Waves, c.stack # <<>>, <<Step(p, c), w>> \in Found(p)
      PROVE  <<c, w>> \in Found(p)
  <2> SUFFICES ASSUME NEW Q \in SUBSET (Searches \X Waves), Closed(p, Q) PROVE <<c, w>> \in Q
    BY DEF Found
  <2>1. <<Step(p, c), w>> \in Q
    BY <1>2 DEF Found
  <2> QED BY <1>2, <2>1 DEF Closed
<1> QED BY <1>1, <1>2 DEF Closed

LEMMA FoundOnlySo ==
    ASSUME NEW p, NEW c \in Searches, NEW w \in Waves, <<c, w>> \in Found(p)
    PROVE  /\ c.stack = <<>> => w = c.wave_of
           /\ c.stack # <<>> => <<Step(p, c), w>> \in Found(p)
<1> SUFFICES ASSUME \/ c.stack = <<>> /\ w # c.wave_of
                    \/ c.stack # <<>> /\ <<Step(p, c), w>> \notin Found(p)
             PROVE  FALSE
  OBVIOUS
<1> DEFINE Q == Found(p) \ {<<c, w>>}
<1>1. Q \in SUBSET (Searches \X Waves)
  BY DEF Found
<1>2. ASSUME NEW d \in Searches, d.stack = <<>> PROVE <<d, d.wave_of>> \in Q
  <2>1. <<d, d.wave_of>> \in Found(p)
    BY <1>2, FoundIsClosed DEF Closed
  <2>2. <<d, d.wave_of>> # <<c, w>>
    BY <1>2
  <2> QED BY <2>1, <2>2
<1>3. ASSUME NEW d \in Searches, NEW v \in Waves, d.stack # <<>>, <<Step(p, d), v>> \in Q
      PROVE  <<d, v>> \in Q
  <2>1. <<Step(p, d), v>> \in Found(p)
    BY <1>3
  <2>2. <<d, v>> \in Found(p)
    BY <1>3, <2>1, FoundIsClosed DEF Closed
  <2>3. <<d, v>> # <<c, w>>
    BY <1>3, <2>1
  <2> QED BY <2>2, <2>3
<1>4. Closed(p, Q)
  <2> HIDE DEF Q
  <2> QED BY <1>2, <1>3 DEF Closed
<1>5. <<c, w>> \in Q
  <2> HIDE DEF Q
  <2> QED BY <1>1, <1>4 DEF Found
<1> QED BY <1>5

LEMMA OneIsFound ==
    ASSUME NEW p, NEW c \in Searches
    PROVE  /\ \E w \in Waves : <<c, w>> \in Found(p)
           /\ \A v, w \in Waves : <<c, v>> \in Found(p) /\ <<c, w>> \in Found(p) => v = w
<1>1. \E w \in Waves : <<c, w>> \in Found(p)
  <2> DEFINE B == {d \in Searches : \A w \in Waves : <<d, w>> \notin Found(p)}
  <2>1. ASSUME NEW d \in B PROVE d.stack # <<>> /\ Step(p, d) \in B
    <3>1. d.stack # <<>>
      BY FoundIsClosed, WavesOfSearch DEF Closed
    <3>2. Step(p, d) \in Searches
      BY <3>1, StepHolds
    <3>3. \A w \in Waves : <<Step(p, d), w>> \notin Found(p)
      BY <3>1, FoundIsClosed DEF Closed
    <3> QED BY <3>1, <3>2, <3>3
  <2>2. B \in SUBSET Searches
    OBVIOUS
  <2> HIDE DEF B
  <2>3. B = {}
    BY <2>1, <2>2, NoEndlessSearch
  <2> QED BY <2>3 DEF B
<1>2. \A v, w \in Waves : <<c, v>> \in Found(p) /\ <<c, w>> \in Found(p) => v = w
  <2> DEFINE B == {d \in Searches : \E v, w \in Waves :
                      v # w /\ <<d, v>> \in Found(p) /\ <<d, w>> \in Found(p)}
  <2>1. ASSUME NEW d \in B PROVE d.stack # <<>> /\ Step(p, d) \in B
    <3>1. PICK v \in Waves, w \in Waves :
              v # w /\ <<d, v>> \in Found(p) /\ <<d, w>> \in Found(p)
      OBVIOUS
    <3> HIDE DEF B
    <3>2. d \in Searches
      BY DEF B
    <3>5. d.stack = <<>> => v = d.wave_of /\ w = d.wave_of
      BY <3>1, <3>2, FoundOnlySo
    <3>6. d.stack # <<>>
      BY <3>1, <3>5
    <3>3. Step(p, d) \in Searches
      BY <3>2, <3>6, StepHolds
    <3>4. <<Step(p, d), v>> \in Found(p) /\ <<Step(p, d), w>> \in Found(p)
      BY <3>1, <3>2, <3>6, FoundOnlySo
    <3> QED BY <3>1, <3>3, <3>4, <3>6 DEF B
  <2>2. B \in SUBSET Searches
    OBVIOUS
  <2> HIDE DEF B
  <2>3. B = {}
    BY <2>1, <2>2, NoEndlessSearch
  <2> QED BY <2>3 DEF B
<1> QED BY <1>1, <1>2

LEMMA LevelHolds ==
    ASSUME NEW p, NEW c \in Searches
    PROVE  /\ Level(p)[c] \in Waves
           /\ c.stack = <<>> => Level(p)[c] = c.wave_of
           /\ c.stack # <<>> => Level(p)[c] = Level(p)[Step(p, c)]
<1> DEFINE Body(g, d) == IF d.stack = <<>> THEN d.wave_of ELSE g[Step(p, d)]
           Runs(g) == g = [d \in Searches |-> Body(g, d)]
           g == [d \in Searches |-> CHOOSE w \in Waves : <<d, w>> \in Found(p)]
           u == CHOOSE h : Runs(h)
<1>1. \A d \in Searches : g[d] \in Waves /\ <<d, g[d]>> \in Found(p)
  BY OneIsFound
<1>2. \A d \in Searches : g[d] = Body(g, d)
  <2> TAKE d \in Searches
  <2> HIDE DEF g
  <2>1. CASE d.stack = <<>>
    <3>1. g[d] = d.wave_of
      BY ZenonT(60), <1>1, <2>1, FoundOnlySo
    <3> QED BY <2>1, <3>1
  <2>2. CASE d.stack # <<>>
    <3>1. Step(p, d) \in Searches
      BY <2>2, StepHolds
    <3>2. <<Step(p, d), g[d]>> \in Found(p)
      BY <1>1, <2>2, FoundOnlySo
    <3>3. g[d] = g[Step(p, d)]
      BY <1>1, <3>1, <3>2, OneIsFound
    <3> QED BY <2>2, <3>3
  <2> QED BY <2>1, <2>2
<1>3. Runs(g)
  <2>1. g \in [Searches -> Waves]
    <3>1. \A d \in Searches : (CHOOSE w \in Waves : <<d, w>> \in Found(p)) \in Waves
      BY OneIsFound
    <3> QED BY <3>1
  <2> HIDE DEF g, Body
  <2>2. g = [d \in Searches |-> g[d]]
    BY <2>1
  <2> QED BY <1>2, <2>2
<1>4. Runs(u)
  <2> HIDE DEF g, Runs
  <2> QED BY <1>3
<1>5. Level(p) = u
  BY DEF Level, Step
<1> HIDE DEF u, g
<1>6. \A d \in Searches : u[d] = Body(u, d)
  <2> HIDE DEF Body
  <2> QED BY <1>4
<1> DEFINE B == {d \in Searches : u[d] \notin Waves}
<1>7. ASSUME NEW d \in B PROVE d.stack # <<>> /\ Step(p, d) \in B
  <2>1. d.stack # <<>>
    BY <1>6, WavesOfSearch
  <2>2. u[d] = u[Step(p, d)] /\ Step(p, d) \in Searches
    BY <1>6, <2>1, StepHolds
  <2> QED BY <2>1, <2>2
<1>8. B \in SUBSET Searches
  OBVIOUS
<1>9. B = {}
  <2> HIDE DEF B
  <2> QED BY <1>7, <1>8, NoEndlessSearch
<1> QED BY <1>5, <1>6, <1>9

-----------------------------------------------------------------------------
(* What the search finds: a level for every task it meets and, when no task *)
(* waits for itself, levels that climb along the dependencies.             *)

Deps(p, t) == p.depends_on[t] \cap p.listed

LEMMA DepsHold ==
    ASSUME NEW p \in PlanType, NEW t \in Tasks
    PROVE  /\ Deps(p, t) \subseteq Tasks
           /\ DependsOn(p, t) \in Seq(Tasks) /\ Elements(DependsOn(p, t)) = Deps(p, t)
<1>1. p.listed \subseteq Tasks
  BY DEF PlanType
<1>2. OnList(Deps(p, t)) = Deps(p, t)
  BY <1>1 DEF Deps, OnList
<1> QED BY <1>1, <1>2, InListOrderHolds DEF Deps, DependsOn

LEMMA TailElements ==
    ASSUME NEW s \in Seq(Tasks), s # <<>>
    PROVE  /\ s[1] \in Tasks /\ Tail(s) \in Seq(Tasks)
           /\ Elements(s) = {s[1]} \cup Elements(Tail(s))
<1> DEFINE r == Tail(s)
           n == Len(s)
<1>1. /\ n \in Nat \ {0} /\ r \in Seq(Tasks) /\ Len(r) = n - 1
      /\ \A i \in 1 .. n - 1 : r[i] = s[i + 1]
  BY HeadTailProperties
<1>2. s[1] \in Tasks
  BY <1>1
<1>3. \A x : x \in Elements(s) <=> \E i \in 1 .. n : s[i] = x
  BY ElementsAre
<1>4. r = Tail(s)
  OBVIOUS
<1> HIDE DEF r, n
<1>5. \A x : x \in Elements(r) <=> \E i \in 1 .. n - 1 : r[i] = x
  <2>1. \A x : x \in Elements(r) <=> \E i \in 1 .. Len(r) : r[i] = x
    BY <1>1, ElementsAre
  <2> QED BY <1>1, <2>1
<1>6. \A i \in 1 .. n : i = 1 \/ (i - 1 \in 1 .. n - 1 /\ i - 1 + 1 = i)
  BY <1>1
<1>7. 1 \in 1 .. n /\ \A i \in 1 .. n - 1 : i + 1 \in 1 .. n
  BY <1>1
<1>8. ASSUME NEW x PROVE x \in Elements(s) <=> x \in {s[1]} \cup Elements(r)
  <2>1. ASSUME x \in Elements(s) PROVE x \in {s[1]} \cup Elements(r)
    <3>1. PICK i \in 1 .. n : s[i] = x
      BY <1>3, <2>1
    <3>2. CASE i = 1
      BY <3>1, <3>2
    <3>3. CASE i - 1 \in 1 .. n - 1 /\ i - 1 + 1 = i
      <4>1. r[i - 1] = x
        BY <1>1, <3>1, <3>3
      <4> QED BY <1>5, <3>3, <4>1
    <3> QED BY <1>6, <3>2, <3>3
  <2>2. ASSUME x \in Elements(r) PROVE x \in Elements(s)
    <3>1. PICK i \in 1 .. n - 1 : r[i] = x
      BY <1>5, <2>2
    <3> QED BY <1>1, <1>3, <1>7, <3>1
  <2>3. s[1] \in Elements(s)
    BY <1>3, <1>7
  <2> QED BY <2>1, <2>2, <2>3
<1> QED BY <1>1, <1>2, <1>4, <1>8

\* Levels climb along the dependencies.
Ordered(p, w) == \A t \in Tasks : w[t] # 0 => \A d \in Deps(p, t) : w[d] # 0 /\ w[d] < w[t]

\* A dependency of the i-th frame: it has still to be looked at, or its level is
\* known and counted, or it is what the frame above searches.
Accounted(c, i, d) ==
    \/ d \in Elements(c.stack[i].todo)
    \/ c.wave_of[d] # 0 /\ c.wave_of[d] <= c.stack[i].top
    \/ i # 1 /\ d = c.stack[i - 1].ext

FrameSound(p, c, i) ==
    LET t == c.stack[i].ext
    IN /\ t \in p.listed /\ t \in c.seen /\ c.wave_of[t] = 0
       /\ Elements(c.stack[i].todo) \subseteq Deps(p, t)
       /\ \A d \in Deps(p, t) : Accounted(c, i, d)
       /\ i # 1 => c.stack[i - 1].ext \in Deps(p, t)

Sound(p, c) ==
    /\ Ordered(p, c.wave_of)
    /\ \A i \in 1 .. Len(c.stack) : FrameSound(p, c, i)
    /\ \A i, j \in 1 .. Len(c.stack) : c.stack[i].ext = c.stack[j].ext => i = j
    /\ \A t \in c.seen : c.wave_of[t] # 0 \/ \E i \in 1 .. Len(c.stack) : c.stack[i].ext = t

LEMMA SearchTyped ==
    ASSUME NEW c \in Searches
    PROVE  /\ c.stack \in Seq(Frames) /\ Len(c.stack) \in Nat
           /\ c.seen \subseteq Tasks /\ c.wave_of \in Waves
           /\ \A i \in 1 .. Len(c.stack) :
                 /\ c.stack[i].ext \in Tasks /\ c.stack[i].todo \in Seq(Tasks)
                 /\ c.stack[i].top \in Nat
<1>1. c.stack \in Seq(Frames) /\ c.seen \subseteq Tasks /\ c.wave_of \in Waves
  BY DEF Searches, Frames, Waves
<1> QED BY <1>1, FrameAt

LEMMA LeftSound ==
    ASSUME NEW p \in PlanType, NEW c \in Searches, NEW d \in Searches,
           c.stack # <<>>, Left(c, d), Sound(p, c)
    PROVE  Sound(p, d)
<1> DEFINE s == c.stack
           r == d.stack
           n == Len(s)
           x == s[1].ext
           top == s[1].top
           v == c.wave_of
           w == d.wave_of
<1>1. /\ n \in Nat \ {0} /\ 1 \in 1 .. n /\ x \in Tasks /\ top \in Nat /\ v \in Waves /\ w \in Waves
      /\ \A t \in Tasks : v[t] \in Nat /\ w[t] \in Nat
  <2>1. n \in Nat \ {0}
    BY SearchTyped
  <2>2. 1 \in 1 .. n
    BY <2>1
  <2> QED BY <2>1, <2>2, SearchTyped DEF Waves
<1>2. /\ s[1].todo = <<>> /\ d.seen = c.seen /\ Len(r) = n - 1
      /\ \A j \in 1 .. n - 1 : SameFrame(r[j], s[j + 1])
      /\ n - 1 # 0 => r[1].top >= 1 + top
  BY DEF Left
<1>3. w[x] = 1 + top /\ \A t \in Tasks : t # x => w[t] = v[t]
  BY <1>1 DEF Left, Waves
<1>4. /\ Ordered(p, v)
      /\ \A i \in 1 .. n : FrameSound(p, c, i)
      /\ \A i, j \in 1 .. n : s[i].ext = s[j].ext => i = j
      /\ \A t \in c.seen : v[t] # 0 \/ \E i \in 1 .. n : s[i].ext = t
  BY DEF Sound
<1>5. \A t \in Tasks : Deps(p, t) \subseteq Tasks
  BY DepsHold
<1>6. v[x] = 0 /\ \A e \in Deps(p, x) : v[e] # 0 /\ v[e] <= top
  <2>1. v[x] = 0 /\ \A e \in Deps(p, x) : Accounted(c, 1, e)
    BY <1>1, <1>4 DEF FrameSound
  <2>2. Elements(s[1].todo) = {}
    BY <1>2, EmptyHolds
  <2> QED BY <2>1, <2>2 DEF Accounted
<1>7. \A j \in 1 .. n - 1 : /\ j + 1 \in 1 .. n /\ j + 1 # 1 /\ j + 1 - 1 = j /\ j \in 1 .. n
                            /\ j # 1 => j - 1 \in 1 .. n - 1 /\ j - 1 + 1 = j
  BY SMTT(30), <1>1
<1>8. \A j \in 1 .. n - 1 : /\ r[j].ext = s[j + 1].ext /\ r[j].todo = s[j + 1].todo
                            /\ r[j].top >= s[j + 1].top
                            /\ r[j].top \in Nat /\ s[j + 1].top \in Nat /\ s[j + 1].ext \in Tasks
  BY <1>2, <1>7, SearchTyped DEF SameFrame
<1> HIDE DEF s, r, n, x, top, v, w
<1>9. Ordered(p, w)
  <2> SUFFICES ASSUME NEW t \in Tasks, w[t] # 0, NEW e \in Deps(p, t)
               PROVE  w[e] # 0 /\ w[e] < w[t]
    BY DEF Ordered
  <2>0. e \in Tasks
    BY <1>5
  <2>1. CASE t = x
    <3>1. v[e] # 0 /\ v[e] <= top /\ e # x
      BY <1>6, <2>1
    <3>2. w[e] = v[e] /\ w[t] = 1 + top
      BY <1>3, <2>0, <2>1, <3>1
    <3>3. v[e] \in Nat /\ top \in Nat
      BY <1>1, <2>0
    <3>4. v[e] < 1 + top
      BY SMTT(30), <3>1, <3>3
    <3> QED BY <3>1, <3>2, <3>4
  <2>2. CASE t # x
    <3>1. w[t] = v[t]
      BY <1>3, <2>2
    <3>2. v[e] # 0 /\ v[e] < v[t]
      BY <1>4, <3>1 DEF Ordered
    <3>3. e # x
      BY <1>6, <3>2
    <3>4. w[e] = v[e]
      BY <1>3, <2>0, <3>3
    <3> QED BY <3>1, <3>2, <3>4
  <2> QED BY <2>1, <2>2
<1>10. ASSUME NEW j \in 1 .. n - 1 PROVE FrameSound(p, d, j)
  <2> DEFINE t == s[j + 1].ext
  <2>1. /\ t \in p.listed /\ t \in c.seen /\ v[t] = 0
        /\ Elements(s[j + 1].todo) \subseteq Deps(p, t)
        /\ \A e \in Deps(p, t) : Accounted(c, j + 1, e)
        /\ s[j].ext \in Deps(p, t)
    <3>1. FrameSound(p, c, j + 1) /\ j + 1 # 1 /\ j + 1 - 1 = j
      BY <1>4, <1>7
    <3>2. j + 1 # 1 => s[j + 1 - 1].ext \in Deps(p, t)
      BY <3>1 DEF FrameSound, s
    <3>3. s[j].ext \in Deps(p, t)
      BY <3>1, <3>2
    <3> QED BY <3>1, <3>3 DEF FrameSound, s, v
  <2>2. r[j].ext = t /\ r[j].todo = s[j + 1].todo
    BY <1>8
  <2>3. t \in Tasks /\ t # x
    BY <1>1, <1>4, <1>7, <1>8 DEF x
  <2>4. w[t] = 0
    BY <1>3, <2>1, <2>3
  <2>5. j # 1 => r[j - 1].ext = s[j].ext
    BY <1>7, <1>8
  <2>6. ASSUME NEW e \in Deps(p, t) PROVE Accounted(d, j, e)
    <3>0. e \in Tasks
      BY <1>5, <2>3
    <3>1. \/ e \in Elements(s[j + 1].todo)
          \/ v[e] # 0 /\ v[e] <= s[j + 1].top
          \/ e = s[j].ext
      BY <1>7, <2>1 DEF Accounted, s, v
    <3>2. CASE e \in Elements(s[j + 1].todo)
      BY <2>2, <3>2 DEF Accounted, r
    <3>3. CASE v[e] # 0 /\ v[e] <= s[j + 1].top
      <4>1. w[e] = v[e]
        BY <1>3, <1>6, <3>0, <3>3
      <4>2. w[e] # 0 /\ w[e] <= r[j].top
        <5>1. v[e] \in Nat /\ s[j + 1].top \in Nat /\ r[j].top \in Nat /\ r[j].top >= s[j + 1].top
          BY <1>1, <1>8, <3>0
        <5>2. v[e] <= r[j].top
          BY <3>3, <5>1
        <5> QED BY <3>3, <4>1, <5>2
      <4> QED BY <4>2 DEF Accounted, r, w
    <3>4. CASE e = s[j].ext /\ j = 1
      <4>1. w[e] = 1 + top /\ r[1].top >= 1 + top
        BY <1>2, <1>3, <1>7, <3>4 DEF x
      <4>2. w[e] # 0 /\ w[e] <= r[j].top
        BY <1>1, <1>8, <3>4, <4>1
      <4> QED BY <4>2 DEF Accounted, r, w
    <3>5. CASE e = s[j].ext /\ j # 1
      BY <2>5, <3>5 DEF Accounted, r
    <3> QED BY <3>1, <3>2, <3>3, <3>4, <3>5
  <2> HIDE DEF t
  <2> QED BY <1>2, <2>1, <2>2, <2>4, <2>5, <2>6 DEF FrameSound, r, w
<1>11. \A i, j \in 1 .. n - 1 : r[i].ext = r[j].ext => i = j
  <2> TAKE i \in 1 .. n - 1, j \in 1 .. n - 1
  <2> HAVE r[i].ext = r[j].ext
  <2>1. i + 1 = j + 1
    BY <1>4, <1>7, <1>8
  <2> QED BY <2>1
<1>12. \A t \in c.seen : w[t] # 0 \/ \E i \in 1 .. n - 1 : r[i].ext = t
  <2> TAKE t \in c.seen
  <2>0. t \in Tasks
    BY SearchTyped
  <2>1. CASE t = x
    BY <1>1, <1>3, <2>1
  <2>2. CASE t # x /\ v[t] # 0
    BY <1>3, <2>0, <2>2
  <2>3. ASSUME t # x, NEW i \in 1 .. n, s[i].ext = t PROVE \E k \in 1 .. n - 1 : r[k].ext = t
    <3>1. i # 1
      BY <2>3 DEF x
    <3>2. i - 1 \in 1 .. n - 1 /\ i - 1 + 1 = i
      BY <1>1, <3>1
    <3>3. r[i - 1].ext = t
      BY <1>8, <2>3, <3>2
    <3> QED BY <3>2, <3>3
  <2> QED BY <1>4, <2>1, <2>2, <2>3
<1> QED BY <1>2, <1>9, <1>10, <1>11, <1>12 DEF Sound, r, w

\* A dependency met again before its level is known would close a cycle.
LEMMA NoCycle ==
    ASSUME NEW p \in PlanType, Acyclic(p), NEW c \in Searches, c.stack # <<>>, Sound(p, c),
           NEW t \in Deps(p, c.stack[1].ext), t \in c.seen
    PROVE  c.wave_of[t] # 0
<1> DEFINE s == c.stack
           n == Len(s)
<1>1. n \in Nat \ {0} /\ 1 \in 1 .. n
  BY SearchTyped
<1>2. /\ \A i \in 1 .. n : FrameSound(p, c, i)
      /\ \A u \in c.seen : c.wave_of[u] # 0 \/ \E i \in 1 .. n : s[i].ext = u
  BY DEF Sound
<1> SUFFICES ASSUME c.wave_of[t] = 0 PROVE FALSE
  OBVIOUS
<1>3. PICK m \in 1 .. n : s[m].ext = t
  BY <1>2
<1> DEFINE S == {s[j].ext : j \in 1 .. m}
<1>4. \A j \in 1 .. m : j \in 1 .. n
  BY <1>1
<1>5. S \in SUBSET p.listed
  BY <1>2, <1>4 DEF FrameSound
<1>6. t \in S
  BY <1>3
<1>7. PICK y \in S : p.depends_on[y] \cap S = {}
  BY <1>5, <1>6 DEF Acyclic
<1>8. PICK j \in 1 .. m : y = s[j].ext
  BY <1>7
<1>9. CASE j = 1
  BY <1>6, <1>7, <1>8, <1>9 DEF Deps
<1>10. CASE j # 1
  <2>1. j - 1 \in 1 .. m /\ j \in 1 .. n
    BY <1>1, <1>10
  <2>2. s[j - 1].ext \in Deps(p, y)
    BY <1>2, <1>8, <1>10, <2>1 DEF FrameSound
  <2>3. s[j - 1].ext \in S
    BY <2>1
  <2> QED BY <1>7, <2>2, <2>3 DEF Deps
<1> QED BY <1>9, <1>10

LEMMA LookedSound ==
    ASSUME NEW p \in PlanType, Acyclic(p), NEW c \in Searches, NEW d \in Searches,
           c.stack # <<>>, Looked(c, d), Sound(p, c)
    PROVE  Sound(p, d)
<1> DEFINE s == c.stack
           r == d.stack
           n == Len(s)
           v == c.wave_of
           x == s[1].ext
           t == s[1].todo[1]
<1>1. /\ n \in Nat \ {0} /\ 1 \in 1 .. n /\ x \in Tasks
      /\ \A u \in Tasks : v[u] \in Nat
  <2>1. n \in Nat \ {0} /\ 1 \in 1 .. n
    BY SearchTyped
  <2> QED BY <2>1, SearchTyped DEF Waves
<1>2. /\ s[1].todo # <<>> /\ d.seen = c.seen /\ d.wave_of = v /\ Len(r) = n
      /\ r[1].ext = x /\ r[1].todo = Tail(s[1].todo) /\ r[1].top >= s[1].top
      /\ \A j \in 2 .. n : SameFrame(r[j], s[j])
      /\ v[t] # 0 => r[1].top >= v[t]
      /\ v[t] = 0 => t \in c.seen
  BY DEF Looked, Past
<1>3. /\ Ordered(p, v)
      /\ \A i \in 1 .. n : FrameSound(p, c, i)
      /\ \A i, j \in 1 .. n : s[i].ext = s[j].ext => i = j
      /\ \A u \in c.seen : v[u] # 0 \/ \E i \in 1 .. n : s[i].ext = u
  BY DEF Sound
<1>4. s[1].todo \in Seq(Tasks)
  BY <1>1, SearchTyped
<1>5. Elements(s[1].todo) = {t} \cup Elements(Tail(s[1].todo))
  BY <1>2, <1>4, TailElements
<1>6. FrameSound(p, c, 1)
  BY <1>1, <1>3
<1>7. t \in Deps(p, x) /\ Elements(r[1].todo) \subseteq Deps(p, x)
  BY <1>2, <1>5, <1>6 DEF FrameSound
<1>8. v[t] # 0
  BY <1>2, <1>7, NoCycle
<1>9. \A j \in 1 .. n : /\ s[j].top \in Nat /\ r[j].top \in Nat
                        /\ j = 1 \/ j \in 2 .. n
                        /\ j # 1 => j - 1 \in 1 .. n
  <2>1. \A j \in 1 .. n : s[j].top \in Nat
    BY SearchTyped
  <2>2. \A j \in 1 .. Len(r) : r[j].top \in Nat
    BY SearchTyped
  <2>3. \A j \in 1 .. n : (j = 1 \/ j \in 2 .. n) /\ (j # 1 => j - 1 \in 1 .. n)
    BY <1>1
  <2> QED BY <1>2, <2>1, <2>2, <2>3
<1>10. \A j \in 1 .. n : r[j].ext = s[j].ext /\ r[j].top >= s[j].top
  BY <1>2, <1>9 DEF SameFrame
<1>11. \A j \in 2 .. n : r[j].todo = s[j].todo
  BY <1>2 DEF SameFrame
<1> HIDE DEF s, r, n, v, x, t
<1>12. ASSUME NEW j \in 1 .. n PROVE FrameSound(p, d, j)
  <2> DEFINE u == s[j].ext
  <2>1. /\ u \in p.listed /\ u \in c.seen /\ v[u] = 0 /\ Elements(s[j].todo) \subseteq Deps(p, u)
        /\ \A e \in Deps(p, u) : Accounted(c, j, e)
        /\ j # 1 => s[j - 1].ext \in Deps(p, u)
    <3>1. FrameSound(p, c, j)
      BY <1>3
    <3> QED BY <3>1 DEF FrameSound, s, v
  <2>2. r[j].ext = u
    BY <1>10
  <2>3. j # 1 => r[j - 1].ext = s[j - 1].ext
    BY <1>9, <1>10
  <2>4. Elements(r[j].todo) \subseteq Deps(p, u)
    <3>1. CASE j = 1
      BY <1>7, <3>1 DEF x
    <3>2. CASE j # 1
      BY <1>9, <1>11, <2>1, <3>2
    <3> QED BY <3>1, <3>2
  <2>5. ASSUME NEW e \in Deps(p, u) PROVE Accounted(d, j, e)
    <3>0. e \in Tasks
      BY <2>1, SearchTyped, DepsHold
    <3>1. \/ e \in Elements(s[j].todo)
          \/ v[e] # 0 /\ v[e] <= s[j].top
          \/ j # 1 /\ e = s[j - 1].ext
      BY <2>1 DEF Accounted, s, v
    <3>2. CASE e \in Elements(r[j].todo)
      BY <3>2 DEF Accounted, r
    <3>3. CASE j = 1 /\ e = t
      BY <1>2, <1>8, <3>3 DEF Accounted, r, v
    <3>4. CASE v[e] # 0 /\ v[e] <= s[j].top
      <4>1. v[e] \in Nat /\ s[j].top \in Nat /\ r[j].top \in Nat /\ r[j].top >= s[j].top
        BY <1>1, <1>9, <1>10, <3>0
      <4>2. v[e] <= r[j].top
        BY <3>4, <4>1
      <4> QED BY <1>2, <3>4, <4>2 DEF Accounted, r, v
    <3>5. CASE j # 1 /\ e = s[j - 1].ext
      BY <2>3, <3>5 DEF Accounted, r
    <3>6. e \in Elements(s[j].todo) => e \in Elements(r[j].todo) \/ (j = 1 /\ e = t)
      <4>1. CASE j = 1
        BY <1>2, <1>5, <4>1
      <4>2. CASE j # 1
        BY <1>9, <1>11, <4>2
      <4> QED BY <4>1, <4>2
    <3> QED BY <3>1, <3>2, <3>3, <3>4, <3>5, <3>6
  <2> HIDE DEF u
  <2> QED BY <1>2, <2>1, <2>2, <2>3, <2>4, <2>5 DEF FrameSound, r, v
<1>13. /\ \A i, j \in 1 .. n : r[i].ext = r[j].ext => i = j
       /\ \A u \in c.seen : v[u] # 0 \/ \E i \in 1 .. n : r[i].ext = u
  BY <1>3, <1>10
<1> QED BY <1>2, <1>3, <1>12, <1>13 DEF Sound, r, v

LEMMA EnteredSound ==
    ASSUME NEW p \in PlanType, NEW c \in Searches, NEW d \in Searches,
           c.stack # <<>>, Entered(p, c, d), Sound(p, c)
    PROVE  Sound(p, d)
<1> DEFINE s == c.stack
           r == d.stack
           n == Len(s)
           v == c.wave_of
           x == s[1].ext
           t == s[1].todo[1]
<1>1. /\ n \in Nat \ {0} /\ 1 \in 1 .. n /\ x \in Tasks
      /\ \A u \in Tasks : v[u] \in Nat
  <2>1. n \in Nat \ {0} /\ 1 \in 1 .. n
    BY SearchTyped
  <2> QED BY <2>1, SearchTyped DEF Waves
<1>2. /\ s[1].todo # <<>> /\ t \notin c.seen /\ v[t] = 0
      /\ d.seen = c.seen \cup {t} /\ d.wave_of = v /\ Len(r) = n + 1
      /\ r[1] = Frame(p, t)
      /\ r[2].ext = x /\ r[2].todo = Tail(s[1].todo) /\ r[2].top >= s[1].top
      /\ \A j \in 2 .. n : SameFrame(r[j + 1], s[j])
  BY DEF Entered, Past
<1>3. /\ Ordered(p, v)
      /\ \A i \in 1 .. n : FrameSound(p, c, i)
      /\ \A i, j \in 1 .. n : s[i].ext = s[j].ext => i = j
      /\ \A u \in c.seen : v[u] # 0 \/ \E i \in 1 .. n : s[i].ext = u
  BY DEF Sound
<1>4. s[1].todo \in Seq(Tasks)
  BY <1>1, SearchTyped
<1>5. t \in Tasks /\ Elements(s[1].todo) = {t} \cup Elements(Tail(s[1].todo))
  BY <1>2, <1>4, TailElements
<1>6. FrameSound(p, c, 1)
  BY <1>1, <1>3
<1>7. t \in Deps(p, x) /\ Elements(r[2].todo) \subseteq Deps(p, x)
  BY <1>2, <1>5, <1>6 DEF FrameSound
<1>8. r[1].ext = t /\ Elements(r[1].todo) = Deps(p, t)
  BY <1>2, <1>5, DepsHold DEF Frame
<1>9. \A i \in 1 .. n : /\ i = 1 \/ i \in 2 .. n
                        /\ i + 1 \in 1 .. n + 1 /\ i + 1 # 1 /\ i + 1 - 1 = i
                        /\ i # 1 => i - 1 \in 1 .. n /\ i - 1 + 1 = i
                        /\ s[i].top \in Nat
  BY SMTT(30), <1>1, SearchTyped
<1>10. \A i \in 1 .. n : r[i + 1].ext = s[i].ext /\ r[i + 1].top >= s[i].top
  <2> TAKE i \in 1 .. n
  <2>1. CASE i = 1
    BY <1>2, <2>1 DEF x
  <2>2. CASE i \in 2 .. n
    BY <1>2, <2>2 DEF SameFrame
  <2> QED BY <1>9, <2>1, <2>2
<1>11. \A i \in 2 .. n : r[i + 1].todo = s[i].todo
  BY <1>2 DEF SameFrame
<1>12. \A i \in 1 .. n : r[i + 1].top \in Nat
  <2>1. \A i \in 1 .. n + 1 : r[i].top \in Nat
    BY <1>2, SearchTyped
  <2> QED BY <1>9, <2>1
<1>13. \A j \in 1 .. n + 1 : j = 1 \/ \E i \in 1 .. n : j = i + 1
  <2> TAKE j \in 1 .. n + 1
  <2>1. j = 1 \/ (j - 1 \in 1 .. n /\ j = j - 1 + 1)
    BY <1>1
  <2> QED BY <2>1
<1> HIDE DEF s, r, n, v, x, t
<1>14. FrameSound(p, d, 1)
  <2>1. t \in p.listed /\ t \in d.seen /\ d.wave_of[t] = 0
    BY <1>2, <1>7 DEF Deps
  <2>2. \A e \in Deps(p, t) : Accounted(d, 1, e)
    BY <1>8 DEF Accounted, r
  <2> QED BY <1>8, <2>1, <2>2 DEF FrameSound, r
<1>15. ASSUME NEW i \in 1 .. n PROVE FrameSound(p, d, i + 1)
  <2> DEFINE u == s[i].ext
             k == i + 1
  <2>0. k # 1 /\ k - 1 = i
    BY <1>9
  <2>1. /\ u \in p.listed /\ u \in c.seen /\ v[u] = 0 /\ Elements(s[i].todo) \subseteq Deps(p, u)
        /\ \A e \in Deps(p, u) : Accounted(c, i, e)
        /\ i # 1 => s[i - 1].ext \in Deps(p, u)
    <3>1. FrameSound(p, c, i)
      BY <1>3
    <3> QED BY <3>1 DEF FrameSound, s, v
  <2>2. r[k].ext = u /\ r[k].top >= s[i].top /\ r[k].top \in Nat /\ s[i].top \in Nat
    BY <1>9, <1>10, <1>12
  <2>3. i # 1 => r[i].ext = s[i - 1].ext
    BY <1>9, <1>10
  <2>4. r[i].ext \in Deps(p, u)
    <3>1. CASE i = 1
      BY <1>7, <1>8, <3>1 DEF x
    <3>2. CASE i # 1
      BY <2>1, <2>3, <3>2
    <3> QED BY <3>1, <3>2
  <2>5. Elements(r[k].todo) \subseteq Deps(p, u)
    <3>1. CASE i = 1
      BY <1>7, <3>1 DEF x
    <3>2. CASE i # 1
      BY <1>9, <1>11, <2>1, <3>2
    <3> QED BY <3>1, <3>2
  <2>6. ASSUME NEW e \in Deps(p, u) PROVE Accounted(d, k, e)
    <3>0. e \in Tasks
      BY <2>1, SearchTyped, DepsHold
    <3>1. \/ e \in Elements(s[i].todo)
          \/ v[e] # 0 /\ v[e] <= s[i].top
          \/ i # 1 /\ e = s[i - 1].ext
      BY <2>1 DEF Accounted, s, v
    <3>2. CASE e \in Elements(r[k].todo)
      BY <3>2 DEF Accounted, r
    <3>3. CASE e = r[i].ext
      <4> HIDE DEF k
      <4> QED BY <2>0, <3>3 DEF Accounted, r
    <3>4. CASE v[e] # 0 /\ v[e] <= s[i].top
      <4>1. v[e] \in Nat
        BY <1>1, <3>0
      <4> HIDE DEF k
      <4>2. v[e] <= r[k].top
        BY <2>2, <3>4, <4>1
      <4> QED BY <1>2, <3>4, <4>2 DEF Accounted, r, v
    <3>5. e \in Elements(s[i].todo) => e \in Elements(r[k].todo) \/ e = r[i].ext
      <4>1. CASE i = 1
        BY <1>2, <1>5, <1>8, <4>1
      <4>2. CASE i # 1
        BY <1>9, <1>11, <4>2
      <4> QED BY <4>1, <4>2
    <3> QED BY <2>3, <3>1, <3>2, <3>3, <3>4, <3>5
  <2>7. FrameSound(p, d, k)
    <3> HIDE DEF k, u
    <3>1. u \in d.seen /\ d.wave_of[u] = 0
      BY <1>2, <2>1
    <3> QED BY <2>0, <2>1, <2>2, <2>4, <2>5, <2>6, <3>1 DEF FrameSound, r
  <2> QED BY <2>7
<1>16. \A j \in 1 .. n + 1 : FrameSound(p, d, j)
  BY <1>13, <1>14, <1>15
<1>17. \A i \in 1 .. n : r[i + 1].ext # t
  BY <1>2, <1>3, <1>10 DEF FrameSound, s
<1>18. \A i, j \in 1 .. n + 1 : r[i].ext = r[j].ext => i = j
  <2> TAKE i \in 1 .. n + 1, j \in 1 .. n + 1
  <2> HAVE r[i].ext = r[j].ext
  <2>1. CASE i = 1 \/ j = 1
    BY <1>8, <1>13, <1>17, <2>1
  <2>2. ASSUME NEW a \in 1 .. n, i = a + 1, NEW b \in 1 .. n, j = b + 1 PROVE i = j
    BY <1>3, <1>10, <2>2
  <2> QED BY <1>13, <2>1, <2>2
<1>19. \A u \in d.seen : v[u] # 0 \/ \E i \in 1 .. n + 1 : r[i].ext = u
  <2> TAKE u \in d.seen
  <2>1. CASE u = t
    <3>1. 1 \in 1 .. n + 1
      BY <1>1
    <3> QED BY <1>8, <2>1, <3>1
  <2>2. CASE u \in c.seen
    BY SMTT(30), <1>3, <1>9, <1>10, <2>2
  <2> QED BY <1>2, <2>1, <2>2
<1> QED BY <1>2, <1>3, <1>16, <1>18, <1>19 DEF Sound, r, v

LEMMA LevelCovers ==
    ASSUME NEW p, NEW c \in Searches, NEW t \in Tasks,
           c.wave_of[t] # 0 \/ \E i \in 1 .. Len(c.stack) : c.stack[i].ext = t
    PROVE  Level(p)[c][t] # 0
<1> DEFINE Met(d) == d.wave_of[t] # 0 \/ \E i \in 1 .. Len(d.stack) : d.stack[i].ext = t
           B == {d \in Searches : Met(d) /\ Level(p)[d][t] = 0}
<1>1. ASSUME NEW d \in B PROVE d.stack # <<>> /\ Step(p, d) \in B
  <2> DEFINE e == Step(p, d)
             n == Len(d.stack)
  <2>1. d \in Searches /\ Met(d) /\ Level(p)[d][t] = 0
    OBVIOUS
  <2>2. d.stack # <<>>
    <3>1. ASSUME d.stack = <<>> PROVE FALSE
      <4>1. Level(p)[d] = d.wave_of /\ Len(d.stack) = 0
        BY <3>1, LevelHolds
      <4> QED BY <2>1, <4>1
    <3> QED BY <3>1
  <2>3. e \in Searches /\ Level(p)[e] = Level(p)[d]
    BY <2>2, LevelHolds, StepHolds
  <2>4. n \in Nat \ {0}
    BY <2>2, SearchTyped
  <2>5. 1 \in 1 .. n /\ d.stack[1].ext \in Tasks /\ d.stack[1].top \in Nat /\ d.wave_of \in Waves
    <3>1. 1 \in 1 .. n
      BY <2>4
    <3> QED BY <3>1, SearchTyped
  <2> HIDE DEF e
  <2>6. ASSUME Left(d, e) PROVE Met(e)
    <3>1. Len(e.stack) = n - 1 /\ \A j \in 1 .. n - 1 : e.stack[j].ext = d.stack[j + 1].ext
      BY <2>6 DEF Left, SameFrame
    <3>2. /\ e.wave_of[d.stack[1].ext] = 1 + d.stack[1].top
          /\ \A u \in Tasks : u # d.stack[1].ext => e.wave_of[u] = d.wave_of[u]
      BY ZenonT(60), <2>5, <2>6 DEF Left, Waves
    <3>3. CASE t = d.stack[1].ext
      <4>1. e.wave_of[t] = 1 + d.stack[1].top
        BY <3>2, <3>3
      <4> DEFINE m == d.stack[1].top
      <4>2. m \in Nat /\ e.wave_of[t] = 1 + m
        BY <2>5, <4>1
      <4> HIDE DEF m
      <4> QED BY <4>2
    <3>4. CASE t # d.stack[1].ext /\ d.wave_of[t] # 0
      BY <3>2, <3>4
    <3>5. ASSUME t # d.stack[1].ext, NEW i \in 1 .. n, d.stack[i].ext = t PROVE Met(e)
      <4>1. i # 1
        BY <3>5
      <4>2. i - 1 \in 1 .. n - 1 /\ i - 1 + 1 = i
        BY <2>4, <4>1
      <4>3. e.stack[i - 1].ext = t
        BY <3>1, <3>5, <4>2
      <4> QED BY <3>1, <4>2, <4>3
    <3> QED BY <2>1, <3>3, <3>4, <3>5
  <2>7. ASSUME Looked(d, e) PROVE Met(e)
    <3>1. /\ Len(e.stack) = n /\ e.wave_of = d.wave_of /\ e.stack[1].ext = d.stack[1].ext
          /\ \A j \in 2 .. n : e.stack[j].ext = d.stack[j].ext
      BY <2>7 DEF Looked, Past, SameFrame
    <3>2. \A j \in 1 .. n : j = 1 \/ j \in 2 .. n
      BY <2>4
    <3>3. \A j \in 1 .. n : e.stack[j].ext = d.stack[j].ext
      BY <3>1, <3>2
    <3> QED BY <2>1, <3>1, <3>3
  <2>8. ASSUME Entered(p, d, e) PROVE Met(e)
    <3>1. /\ Len(e.stack) = n + 1 /\ e.wave_of = d.wave_of /\ e.stack[2].ext = d.stack[1].ext
          /\ \A j \in 2 .. n : e.stack[j + 1].ext = d.stack[j].ext
      BY <2>8 DEF Entered, Past, SameFrame
    <3>2. \A j \in 1 .. n : (j = 1 \/ j \in 2 .. n) /\ j + 1 \in 1 .. n + 1
      <4> HIDE DEF n
      <4> QED BY SMTT(30), <2>4
    <3>3. \A j \in 1 .. n : e.stack[j + 1].ext = d.stack[j].ext
      <4> TAKE j \in 1 .. n
      <4>1. j = 1 => j + 1 = 2
        OBVIOUS
      <4> QED BY <3>1, <3>2, <4>1
    <3>4. CASE d.wave_of[t] # 0
      BY <3>1, <3>4
    <3>5. ASSUME NEW i \in 1 .. n, d.stack[i].ext = t PROVE Met(e)
      <4>1. i + 1 \in 1 .. Len(e.stack)
        BY <3>1, <3>2
      <4>2. e.stack[i + 1].ext = t
        BY <3>3, <3>5
      <4> QED BY <4>1, <4>2
    <3> QED BY <2>1, <3>4, <3>5
  <2>9. e \in B
    <3>1. Met(e)
      BY <2>1, <2>2, <2>6, <2>7, <2>8, StepHolds DEF e
    <3> QED BY <2>1, <2>3, <3>1
  <2> QED BY <2>2, <2>9 DEF e
<1>2. B \in SUBSET Searches
  OBVIOUS
<1>3. B = {}
  <2> HIDE DEF B
  <2> QED BY <1>1, <1>2, NoEndlessSearch
<1> QED BY <1>3

LEMMA LevelClimbs ==
    ASSUME NEW p \in PlanType, Acyclic(p), NEW c \in Searches, Sound(p, c)
    PROVE  Ordered(p, Level(p)[c])
<1> DEFINE B == {d \in Searches : Sound(p, d) /\ ~Ordered(p, Level(p)[d])}
<1>1. ASSUME NEW d \in B PROVE d.stack # <<>> /\ Step(p, d) \in B
  <2>1. d.stack # <<>>
    BY LevelHolds DEF Sound
  <2>2. Step(p, d) \in Searches /\ Level(p)[Step(p, d)] = Level(p)[d]
    BY <2>1, LevelHolds, StepHolds
  <2>3. Sound(p, Step(p, d))
    BY <2>1, <2>2, StepHolds, LeftSound, LookedSound, EnteredSound
  <2> QED BY <2>1, <2>2, <2>3
<1>2. B \in SUBSET Searches
  OBVIOUS
<1>3. B = {}
  <2> HIDE DEF B
  <2> QED BY <1>1, <1>2, NoEndlessSearch
<1> QED BY <1>3

-----------------------------------------------------------------------------
(* A search per task that has no level yet.                                *)

Start(p, t, w) == [stack |-> <<Frame(p, t)>>, seen |-> {t}, wave_of |-> w]

LEMMA StartHolds ==
    ASSUME NEW p \in PlanType, NEW t \in p.listed, NEW w \in Waves
    PROVE  /\ Start(p, t, w) \in Searches
           /\ Start(p, t, w).wave_of = w
           /\ Len(Start(p, t, w).stack) = 1 /\ Start(p, t, w).stack[1].ext = t
           /\ Ordered(p, w) /\ w[t] = 0 => Sound(p, Start(p, t, w))
<1> DEFINE c == Start(p, t, w)
           f == Frame(p, t)
<1>1. t \in Tasks
  BY DEF PlanType
<1>2. f \in Frames /\ f.ext = t /\ Elements(f.todo) = Deps(p, t)
  BY <1>1, FrameHolds, DepsHold DEF Frame
<1> HIDE DEF f
<1>3. <<f>> \in Seq(Frames) /\ Len(<<f>>) = 1 /\ <<f>>[1] = f
  BY <1>2
<1>4. c.stack = <<f>> /\ c.seen = {t} /\ c.wave_of = w
  BY DEF Start, f
<1>5. c \in Searches
  <2>1. \A u \in SUBSET Tasks, v \in Waves : SearchOf(<<f>>, u, v) \in Searches
    BY <1>3, SearchHolds DEF Waves
  <2>2. c = SearchOf(<<f>>, {t}, w)
    BY DEF Start, SearchOf, f
  <2> QED BY <1>1, <2>1, <2>2
<1> HIDE DEF c
<1>6. Len(c.stack) = 1 /\ c.stack[1] = f
  BY <1>3, <1>4
<1>7. ASSUME Ordered(p, w), w[t] = 0 PROVE Sound(p, c)
  <2>1. \A i \in 1 .. Len(c.stack) : i = 1
    BY <1>6
  <2>2. FrameSound(p, c, 1)
    BY <1>2, <1>4, <1>6, <1>7 DEF FrameSound, Accounted
  <2>3. \E i \in 1 .. Len(c.stack) : c.stack[i].ext = t
    BY <1>2, <1>6
  <2> QED BY <1>4, <1>7, <2>1, <2>2, <2>3 DEF Sound
<1> QED BY <1>2, <1>4, <1>5, <1>6, <1>7 DEF c

LEMMA WaveOfIs ==
    ASSUME NEW p \in PlanType
    PROVE  \E g \in [0 .. Len(Listed(p)) -> Waves] :
               /\ g[0] = [t \in Tasks |-> 0]
               /\ \A i \in 1 .. Len(Listed(p)) :
                     g[i] = IF g[i - 1][Listed(p)[i]] # 0 THEN g[i - 1]
                            ELSE Level(p)[Start(p, Listed(p)[i], g[i - 1])]
               /\ WaveOf(p) = g[Len(Listed(p))]
<1> DEFINE list == Listed(p)
           n == Len(list)
           a == [t \in Tasks |-> 0]
           F == [x \in (1 .. n) \X Waves |->
                    IF x[2][list[x[1]]] # 0 THEN x[2] ELSE Level(p)[Start(p, list[x[1]], x[2])]]
           Next1(g, i) == IF i = 0 THEN a
                          ELSE IF g[i - 1][list[i]] # 0 THEN g[i - 1]
                          ELSE Level(p)[Start(p, list[i], g[i - 1])]
           Runs(g) == g = [i \in 0 .. n |-> Next1(g, i)]
<1>1. n \in Nat /\ \A i \in 1 .. n : list[i] \in p.listed
  <2>1. list \in Seq(Tasks) /\ Elements(list) = OnList(p.listed)
    BY ListedHolds
  <2>2. \A i \in 1 .. n : list[i] \in Elements(list)
    BY <2>1, ElementsAre
  <2> QED BY SMTT(30), <2>1, <2>2 DEF OnList
<1>2. a \in Waves
  BY DEF Waves
<1> HIDE DEF list, n, a
<1>3. \A i \in 1 .. n, w \in Waves : Level(p)[Start(p, list[i], w)] \in Waves
  BY <1>1, StartHolds, LevelHolds
<1>4. F \in [(1 .. n) \X Waves -> Waves]
  BY <1>3
<1>5. \A i \in 1 .. n, w \in Waves :
          F[<<i, w>>] = IF w[list[i]] # 0 THEN w ELSE Level(p)[Start(p, list[i], w)]
  OBVIOUS
<1> HIDE DEF F
<1>6. PICK g \in [0 .. n -> Waves] : Run(g, n, a, F)
  BY <1>1, <1>2, <1>4, Recursion
<1>7. g[0] = a /\ \A i \in 1 .. n :
          g[i] = IF g[i - 1][list[i]] # 0 THEN g[i - 1]
                 ELSE Level(p)[Start(p, list[i], g[i - 1])]
  <2>1. g[0] = a
    BY <1>6 DEF Run
  <2>2. ASSUME NEW i \in 1 .. n
        PROVE  g[i] = IF g[i - 1][list[i]] # 0 THEN g[i - 1]
                      ELSE Level(p)[Start(p, list[i], g[i - 1])]
    <3>1. i - 1 \in 0 .. n
      BY <1>1
    <3>2. g[i - 1] \in Waves
      BY <3>1
    <3>3. g[i] = F[<<i, g[i - 1]>>]
      BY <1>6 DEF Run
    <3> QED BY <1>5, <3>2, <3>3
  <2> QED BY <2>1, <2>2
<1>8. \A i \in 0 .. n : g[i] = Next1(g, i)
  <2>1. \A i \in 0 .. n : i = 0 \/ i \in 1 .. n
    BY <1>1
  <2> QED BY <1>7, <2>1
<1>9. Runs(g)
  <2> HIDE DEF Next1
  <2> QED BY <1>8
<1> DEFINE u == CHOOSE h : Runs(h)
<1>10. \A i \in 0 .. n : u[i] = Next1(u, i)
  <2>1. Runs(u)
    BY <1>9
  <2> HIDE DEF u, Next1
  <2> QED BY <2>1
<1>11. WaveOf(p) = u[n]
  BY DEF WaveOf, Start, list, n, a
<1> HIDE DEF u
<1>12. u[n] = g[n]
  <2> DEFINE G == {k \in Nat : k <= n => u[k] = g[k]}
  <2>1. 0 \in G
    <3>1. 0 \in 0 .. n
      BY <1>1
    <3>2. Next1(u, 0) = a
      OBVIOUS
    <3>3. u[0] = a
      BY <1>10, <3>1, <3>2
    <3> QED BY <1>7, <3>3
  <2>2. ASSUME NEW k \in Nat, k \in G PROVE k + 1 \in G
    <3> SUFFICES ASSUME k + 1 <= n PROVE u[k + 1] = g[k + 1]
      OBVIOUS
    <3>1. k + 1 \in 1 .. n /\ k + 1 \in 0 .. n /\ k + 1 # 0 /\ k + 1 - 1 = k
      BY <1>1
    <3>2. u[k] = g[k]
      BY <1>1, <2>2, <3>1
    <3> HIDE DEF Next1
    <3>3. u[k + 1] = Next1(u, k + 1) /\ g[k + 1] = Next1(g, k + 1)
      BY <1>8, <1>10, <3>1
    <3>4. u[k + 1 - 1] = g[k + 1 - 1]
      BY <3>1, <3>2
    <3>5. ASSUME NEW i \in 1 .. n, i # 0, u[i - 1] = g[i - 1] PROVE Next1(u, i) = Next1(g, i)
      BY <3>5, Zenon DEF Next1
    <3>6. Next1(u, k + 1) = Next1(g, k + 1)
      BY <3>1, <3>4, <3>5
    <3> QED BY <3>3, <3>6
  <2> HIDE DEF G
  <2>3. n \in G
    BY <1>1, <2>1, <2>2, Induct
  <2> QED BY <1>1, <2>3 DEF G
<1> QED BY <1>7, <1>11, <1>12 DEF list, n, a

LEMMA WaveOfHolds ==
    ASSUME NEW p \in PlanType
    PROVE  /\ WaveOf(p) \in Waves
           /\ \A t \in p.listed : WaveOf(p)[t] # 0
           /\ Acyclic(p) => Ordered(p, WaveOf(p))
<1> DEFINE list == Listed(p)
           n == Len(list)
<1>1. /\ n \in Nat /\ \A i \in 1 .. n : list[i] \in p.listed
      /\ \A t \in p.listed : \E i \in 1 .. n : list[i] = t
  <2>1. list \in Seq(Tasks) /\ Elements(list) = OnList(p.listed)
    BY ListedHolds
  <2>2. \A x : x \in Elements(list) <=> \E i \in 1 .. n : list[i] = x
    BY <2>1, ElementsAre
  <2>3. OnList(p.listed) = p.listed
    BY DEF OnList, PlanType
  <2> HIDE DEF list
  <2>4. n \in Nat
    BY <2>1
  <2>5. \A i \in 1 .. n : list[i] \in p.listed
    BY SMTT(30), <2>1, <2>2, <2>3
  <2>6. \A t \in p.listed : \E i \in 1 .. n : list[i] = t
    BY <2>1, <2>2, <2>3
  <2> QED BY <2>4, <2>5, <2>6
<1>2. PICK g \in [0 .. n -> Waves] :
          /\ g[0] = [t \in Tasks |-> 0]
          /\ \A i \in 1 .. n : g[i] = IF g[i - 1][list[i]] # 0 THEN g[i - 1]
                                      ELSE Level(p)[Start(p, list[i], g[i - 1])]
          /\ WaveOf(p) = g[n]
  BY WaveOfIs
<1> HIDE DEF list, n
<1> DEFINE Good(k) == /\ \A i \in 1 .. k : g[k][list[i]] # 0
                      /\ Acyclic(p) => Ordered(p, g[k])
           G == {k \in Nat : k <= n => Good(k)}
<1>3. 0 \in G
  BY <1>2 DEF Ordered
<1>4. ASSUME NEW k \in Nat, k \in G PROVE k + 1 \in G
  <2> SUFFICES ASSUME k + 1 <= n PROVE Good(k + 1)
    OBVIOUS
  <2>1. /\ k + 1 \in 1 .. n /\ k \in 0 .. n /\ k + 1 - 1 = k /\ k <= n
        /\ \A i \in 1 .. k + 1 : i \in 1 .. n /\ (i = k + 1 \/ i \in 1 .. k)
    BY <1>1
  <2>2. Good(k)
    BY <1>4, <2>1
  <2> DEFINE t == list[k + 1]
             w == g[k]
             c == Start(p, t, w)
  <2>3. t \in p.listed /\ w \in Waves /\ \A i \in 1 .. n : list[i] \in Tasks
    BY <1>1, <2>1 DEF PlanType
  <2>4. CASE w[t] # 0
    <3>1. g[k + 1] = w
      BY <1>2, <2>1, <2>4
    <3> QED BY <2>1, <2>2, <2>4, <3>1
  <2>5. CASE w[t] = 0
    <3>1. g[k + 1] = Level(p)[c]
      BY <1>2, <2>1, <2>5
    <3>2. /\ c \in Searches /\ c.wave_of = w
          /\ Len(c.stack) = 1 /\ c.stack[1].ext = t
          /\ Ordered(p, w) => Sound(p, c)
      BY SMTT(30), <2>3, <2>5, StartHolds
    <3> HIDE DEF c, t, w
    <3>3. \A i \in 1 .. k + 1 : Level(p)[c][list[i]] # 0
      <4> TAKE i \in 1 .. k + 1
      <4>1. CASE i = k + 1
        <5>1. list[i] = t /\ t \in Tasks /\ \E j \in 1 .. Len(c.stack) : c.stack[j].ext = t
          BY <2>1, <2>3, <3>2, <4>1 DEF t
        <5> QED BY <3>2, <5>1, LevelCovers
      <4>2. CASE i \in 1 .. k
        <5>1. c.wave_of[list[i]] # 0 /\ list[i] \in Tasks
          BY <2>1, <2>2, <2>3, <3>2, <4>2 DEF w
        <5> QED BY <3>2, <5>1, LevelCovers
      <4> QED BY <2>1, <4>1, <4>2
    <3>4. Acyclic(p) => Ordered(p, Level(p)[c])
      BY <2>2, <3>2, LevelClimbs DEF w
    <3> QED BY <3>1, <3>3, <3>4
  <2> QED BY <2>4, <2>5
<1> HIDE DEF G
<1>5. n \in G
  BY <1>1, <1>3, <1>4, Induct
<1>6. Good(n)
  BY <1>1, <1>5 DEF G
<1>7. g[n] \in Waves
  BY <1>1
<1>8. ASSUME NEW t \in p.listed PROVE g[n][t] # 0
  <2>1. PICK i \in 1 .. n : list[i] = t
    BY <1>1
  <2> QED BY <1>6, <2>1
<1> QED BY <1>2, <1>6, <1>7, <1>8

-----------------------------------------------------------------------------
(* The order of the walk.                                                  *)

InWave(p, w, k) == InListOrder({t \in p.listed : w[t] = k})

IsLast(p, w, n) == n \in {0} \cup {w[t] : t \in p.listed} /\ \A t \in p.listed : w[t] <= n

LEMMA LastWave ==
    ASSUME NEW p \in PlanType, NEW w \in Waves
    PROVE  \E n \in Nat : IsLast(p, w, n)
<1>1. p.listed \subseteq Tasks /\ \A t \in p.listed : w[t] \in Nat
  BY DEF PlanType, Waves
<1> DEFINE N == Len(TaskList)
           Upto(k) == {t \in p.listed : \E i \in 1 .. k : TaskList[i] = t}
           G == {k \in Nat : \E n \in {0} \cup {w[t] : t \in p.listed} :
                                \A t \in Upto(k) : w[t] <= n}
<1>2. 0 \in G
  OBVIOUS
<1>3. ASSUME NEW k \in Nat, k \in G PROVE k + 1 \in G
  <2>1. PICK n \in {0} \cup {w[t] : t \in p.listed} : \A t \in Upto(k) : w[t] <= n
    BY <1>3
  <2>2. n \in Nat
    BY <1>1
  <2>3. \A i \in 1 .. k + 1 : i \in 1 .. k \/ i = k + 1
    OBVIOUS
  <2> DEFINE x == TaskList[k + 1]
  <2>4. Upto(k + 1) \subseteq Upto(k) \cup {x}
    BY <2>3
  <2>5. CASE x \in p.listed /\ w[x] > n
    <3>1. \A t \in Upto(k + 1) : w[t] <= w[x]
      <4> TAKE t \in Upto(k + 1)
      <4>1. w[t] \in Nat /\ w[x] \in Nat
        BY <1>1, <2>5
      <4>2. t = x \/ w[t] <= n
        BY <2>1, <2>4
      <4>3. \A i, j \in Nat : (i = j \/ i <= n) /\ j > n => i <= j
        BY <2>2
      <4>4. t = x => w[t] = w[x]
        OBVIOUS
      <4> HIDE DEF x
      <4> QED BY <2>5, <4>1, <4>2, <4>3, <4>4
    <3>2. w[x] \in {0} \cup {w[t] : t \in p.listed}
      BY <2>5
    <3> HIDE DEF x, Upto
    <3>3. \E m \in {0} \cup {w[t] : t \in p.listed} : \A t \in Upto(k + 1) : w[t] <= m
      BY <3>1, <3>2, Zenon
    <3> QED BY <3>3
  <2>6. CASE ~(x \in p.listed /\ w[x] > n)
    <3>1. \A t \in Upto(k + 1) : w[t] <= n
      <4> TAKE t \in Upto(k + 1)
      <4>1. t \in p.listed /\ w[t] \in Nat
        BY <1>1
      <4>2. t = x \/ w[t] <= n
        BY <2>1, <2>4
      <4>3. \A i \in Nat : ~(i > n) => i <= n
        BY <2>2
      <4> HIDE DEF x
      <4> QED BY <2>6, <4>1, <4>2, <4>3
    <3> HIDE DEF x, Upto
    <3> QED BY <3>1
  <2> QED BY <2>5, <2>6
<1> HIDE DEF G
<1>4. Nat \subseteq G
  BY <1>2, <1>3, Induct
<1>5. N \in Nat
  BY DEF BuildAssumption
<1>6. PICK n \in {0} \cup {w[t] : t \in p.listed} : \A t \in Upto(N) : w[t] <= n
  BY <1>4, <1>5 DEF G
<1>7. Upto(N) = p.listed
  BY <1>1 DEF BuildAssumption
<1>8. n \in Nat
  BY <1>1
<1>9. \A t \in p.listed : w[t] <= n
  BY <1>6, <1>7
<1> HIDE DEF Upto, N
<1> QED BY <1>6, <1>8, <1>9 DEF IsLast

LEMMA InWavesIs ==
    ASSUME NEW p \in PlanType, NEW w \in Waves
    PROVE  \E last \in Nat : \E g \in [0 .. last -> Seq(Tasks)] :
               /\ \A t \in p.listed : w[t] <= last
               /\ g[0] = <<>>
               /\ \A k \in 1 .. last : g[k] = g[k - 1] \o InWave(p, w, k)
               /\ InWaves(p)[w] = g[last]
<1> DEFINE n == CHOOSE n \in {0} \cup {w[t] : t \in p.listed} : \A t \in p.listed : w[t] <= n
           A == Seq(Tasks)
           a == <<>>
           F == [x \in (1 .. n) \X A |-> x[2] \o InWave(p, w, x[1])]
           Next1(g, i) == IF i = 0 THEN a ELSE g[i - 1] \o InWave(p, w, i)
           Runs(g) == g = [i \in 0 .. n |-> Next1(g, i)]
<1>1. n \in Nat /\ \A t \in p.listed : w[t] <= n
  <2> DEFINE L == {0} \cup {w[t] : t \in p.listed}
  <2>1. \E i \in L : \A t \in p.listed : w[t] <= i
    BY LastWave DEF IsLast
  <2>2. n \in L /\ \A t \in p.listed : w[t] <= n
    BY <2>1
  <2>3. L \subseteq Nat
    BY DEF PlanType, Waves
  <2> HIDE DEF n, L
  <2> QED BY <2>2, <2>3
<1>2. a \in A
  OBVIOUS
<1> HIDE DEF n
<1>3. \A i \in 1 .. n, s \in A : s \o InWave(p, w, i) \in A
  BY InListOrderHolds DEF InWave
<1> HIDE DEF A, a
<1>4. F \in [(1 .. n) \X A -> A]
  BY <1>3
<1>5. \A i \in 1 .. n, s \in A : F[<<i, s>>] = s \o InWave(p, w, i)
  OBVIOUS
<1> HIDE DEF F
<1>6. PICK g \in [0 .. n -> A] : Run(g, n, a, F)
  BY <1>1, <1>2, <1>4, Recursion
<1>7. g[0] = a /\ \A i \in 1 .. n : g[i] = g[i - 1] \o InWave(p, w, i)
  <2>1. g[0] = a
    BY <1>6 DEF Run
  <2>2. ASSUME NEW i \in 1 .. n PROVE g[i] = g[i - 1] \o InWave(p, w, i)
    <3>1. i - 1 \in 0 .. n
      BY <1>1
    <3>2. g[i - 1] \in A
      BY <3>1
    <3>3. g[i] = F[<<i, g[i - 1]>>]
      BY <1>6 DEF Run
    <3> QED BY <1>5, <3>2, <3>3
  <2> QED BY <2>1, <2>2
<1>8. \A i \in 0 .. n : g[i] = Next1(g, i)
  <2>1. \A i \in 0 .. n : i = 0 \/ i \in 1 .. n
    BY <1>1
  <2> QED BY <1>7, <2>1
<1>9. Runs(g)
  <2> HIDE DEF Next1
  <2> QED BY <1>8
<1> DEFINE u == CHOOSE h : Runs(h)
<1>10. \A i \in 0 .. n : u[i] = Next1(u, i)
  <2>1. Runs(u)
    BY <1>9
  <2> HIDE DEF u, Next1
  <2> QED BY <2>1
<1>11. InWaves(p)[w] = u[n]
  BY DEF InWaves, InWave, Waves, n, a
<1> HIDE DEF u
<1>12. u[n] = g[n]
  <2> DEFINE G == {k \in Nat : k <= n => u[k] = g[k]}
  <2>1. 0 \in G
    <3>1. 0 \in 0 .. n
      BY <1>1
    <3>2. Next1(u, 0) = a
      OBVIOUS
    <3>3. u[0] = a
      BY <1>10, <3>1, <3>2
    <3> QED BY <1>7, <3>3
  <2>2. ASSUME NEW k \in Nat, k \in G PROVE k + 1 \in G
    <3> SUFFICES ASSUME k + 1 <= n PROVE u[k + 1] = g[k + 1]
      OBVIOUS
    <3>1. k + 1 \in 1 .. n /\ k + 1 \in 0 .. n /\ k + 1 # 0 /\ k + 1 - 1 = k
      BY <1>1
    <3>2. u[k] = g[k]
      BY <1>1, <2>2, <3>1
    <3> HIDE DEF Next1
    <3>3. u[k + 1] = Next1(u, k + 1) /\ g[k + 1] = Next1(g, k + 1)
      BY <1>8, <1>10, <3>1
    <3>4. u[k + 1 - 1] = g[k + 1 - 1]
      BY <3>1, <3>2
    <3>5. ASSUME NEW i \in 1 .. n, i # 0, u[i - 1] = g[i - 1] PROVE Next1(u, i) = Next1(g, i)
      BY <3>5, Zenon DEF Next1
    <3>6. Next1(u, k + 1) = Next1(g, k + 1)
      BY <3>1, <3>4, <3>5
    <3> QED BY <3>3, <3>6
  <2> HIDE DEF G
  <2>3. n \in G
    BY <1>1, <2>1, <2>2, Induct
  <2> QED BY <1>1, <2>3 DEF G
<1>13. g \in [0 .. n -> Seq(Tasks)] /\ g[0] = <<>>
  BY <1>7 DEF A, a
<1> QED BY <1>1, <1>7, <1>11, <1>12, <1>13

\* A sequence that goes through the waves one by one.
Climbing(w, s) == \A i, j \in 1 .. Len(s) : i < j => w[s[i]] <= w[s[j]]

LEMMA WaveAppended ==
    ASSUME NEW p \in PlanType, NEW w \in Waves, NEW k \in Nat,
           NEW s \in Seq(Tasks), Distinct(s), Climbing(w, s),
           Elements(s) = {t \in p.listed : w[t] \in 1 .. k}
    PROVE  LET r == s \o InWave(p, w, k + 1)
           IN /\ Distinct(r) /\ Climbing(w, r)
              /\ Elements(r) = {t \in p.listed : w[t] \in 1 .. k + 1}
<1> DEFINE q == InWave(p, w, k + 1)
           r == s \o q
           m == Len(s)
           n == Len(q)
<1>1. p.listed \subseteq Tasks /\ \A t \in p.listed : w[t] \in Nat
  BY DEF PlanType, Waves
<1>2. q \in Seq(Tasks) /\ Distinct(q) /\ Elements(q) = {t \in p.listed : w[t] = k + 1}
  <2>1. OnList({t \in p.listed : w[t] = k + 1}) = {t \in p.listed : w[t] = k + 1}
    BY <1>1 DEF OnList
  <2> QED BY <2>1, InListOrderHolds DEF InWave
<1> HIDE DEF q
<1>3. Elements(s) \cap Elements(q) = {}
  BY <1>1, <1>2
<1>4. Distinct(r) /\ Elements(r) = Elements(s) \cup Elements(q)
  BY <1>2, <1>3, ConcatHolds
<1>5. Elements(r) = {t \in p.listed : w[t] \in 1 .. k + 1}
  <2>1. \A t \in p.listed : w[t] \in 1 .. k + 1 <=> w[t] \in 1 .. k \/ w[t] = k + 1
    BY SMTT(30), <1>1
  <2> HIDE DEF r
  <2> QED BY <1>2, <1>4, <2>1
<1>6. /\ m \in Nat /\ n \in Nat /\ r \in Seq(Tasks) /\ Len(r) = m + n
      /\ \A i \in 1 .. m : r[i] = s[i]
      /\ \A i \in 1 .. n : r[m + i] = q[i]
  BY <1>2, ConcatProperties
<1>7. \A i \in 1 .. m : w[s[i]] \in Nat /\ w[s[i]] <= k
  <2> TAKE i \in 1 .. m
  <2>1. s[i] \in Elements(s)
    BY ElementsAre
  <2>2. s[i] \in p.listed /\ w[s[i]] \in 1 .. k
    BY <2>1
  <2>3. \A j \in 1 .. k : j \in Nat /\ j <= k
    OBVIOUS
  <2> QED BY <2>2, <2>3, Zenon
<1>8. \A i \in 1 .. n : w[q[i]] = k + 1
  <2> TAKE i \in 1 .. n
  <2>1. q[i] \in Elements(q)
    BY <1>2, ElementsAre
  <2> QED BY <1>2, <2>1
<1>9. \A i, j \in 1 .. m : i < j => w[s[i]] <= w[s[j]]
  BY DEF Climbing
<1> HIDE DEF r, m, n
<1>10. \A i \in 1 .. m + n : i \in 1 .. m \/ (i - m \in 1 .. n /\ i = m + (i - m))
  BY <1>6
<1>11. \A i \in 1 .. m + n : ~(i \in 1 .. m) => w[r[i]] = k + 1
  <2> TAKE i \in 1 .. m + n
  <2> HAVE ~(i \in 1 .. m)
  <2>1. i - m \in 1 .. n /\ i = m + (i - m)
    BY <1>10
  <2>2. r[i] = q[i - m]
    BY <1>6, <2>1
  <2> QED BY <1>8, <2>1, <2>2
<1>12. Climbing(w, r)
  <2> SUFFICES ASSUME NEW i \in 1 .. m + n, NEW j \in 1 .. m + n, i < j
               PROVE  w[r[i]] <= w[r[j]]
    BY <1>6 DEF Climbing
  <2>1. CASE j \in 1 .. m
    <3>1. i \in 1 .. m
      BY <1>6, <2>1
    <3> QED BY <1>6, <1>9, <2>1, <3>1
  <2>2. CASE j \notin 1 .. m /\ i \in 1 .. m
    <3>1. w[r[j]] = k + 1 /\ w[r[i]] \in Nat /\ w[r[i]] <= k
      BY <1>6, <1>7, <1>11, <2>2
    <3> QED BY <3>1
  <2>3. CASE j \notin 1 .. m /\ i \notin 1 .. m
    <3>1. w[r[j]] = k + 1 /\ w[r[i]] = k + 1
      BY <1>11, <2>3
    <3> QED BY <3>1
  <2> QED BY <2>1, <2>2, <2>3
<1> QED BY <1>4, <1>5, <1>12 DEF r, q

LEMMA InWavesHolds ==
    ASSUME NEW p \in PlanType, NEW w \in Waves
    PROVE  LET s == InWaves(p)[w]
           IN /\ s \in Seq(Tasks) /\ Distinct(s) /\ Climbing(w, s)
              /\ Elements(s) = {t \in p.listed : w[t] # 0}
<1>0. PICK last \in Nat : \E g \in [0 .. last -> Seq(Tasks)] :
          /\ \A t \in p.listed : w[t] <= last
          /\ g[0] = <<>>
          /\ \A k \in 1 .. last : g[k] = g[k - 1] \o InWave(p, w, k)
          /\ InWaves(p)[w] = g[last]
  BY InWavesIs
<1>1. PICK g \in [0 .. last -> Seq(Tasks)] :
          /\ \A t \in p.listed : w[t] <= last
          /\ g[0] = <<>>
          /\ \A k \in 1 .. last : g[k] = g[k - 1] \o InWave(p, w, k)
          /\ InWaves(p)[w] = g[last]
  BY <1>0
<1> DEFINE Sofar(k) == {t \in p.listed : w[t] \in 1 .. k}
           Good(k) == Distinct(g[k]) /\ Climbing(w, g[k]) /\ Elements(g[k]) = Sofar(k)
           G == {k \in Nat : k <= last => Good(k)}
<1> DEFINE J(x, i) == x \o InWave(p, w, i)
<1>2. \A t \in p.listed : w[t] \in Nat
  BY DEF PlanType, Waves
<1>2a. \A i \in 1 .. last : g[i] = J(g[i - 1], i)
  BY <1>1
<1> HIDE DEF J
<1>3. 0 \in G
  <2>1. Sofar(0) = {}
    BY <1>2
  <2>2. Climbing(w, <<>>)
    BY DEF Climbing
  <2> QED BY <1>1, <2>1, <2>2, EmptyHolds
<1>4. ASSUME NEW k \in Nat, k \in G PROVE k + 1 \in G
  <2> SUFFICES ASSUME k + 1 <= last PROVE Good(k + 1)
    OBVIOUS
  <2>1. k + 1 \in 1 .. last /\ k \in 0 .. last /\ k + 1 - 1 = k /\ k <= last
    OBVIOUS
  <2>2. Good(k) /\ g[k] \in Seq(Tasks)
    BY <1>4, <2>1
  <2> DEFINE s == g[k]
  <2>3. g[k + 1] = s \o InWave(p, w, k + 1)
    <3>1. g[k + 1] = J(g[k + 1 - 1], k + 1)
      BY <1>2a, <2>1
    <3>2. g[k + 1 - 1] = g[k]
      BY <2>1
    <3>3. g[k + 1] = J(g[k], k + 1)
      BY <3>1, <3>2, Zenon
    <3> QED BY <3>3 DEF J
  <2> HIDE DEF s
  <2>4. /\ Distinct(s \o InWave(p, w, k + 1)) /\ Climbing(w, s \o InWave(p, w, k + 1))
        /\ Elements(s \o InWave(p, w, k + 1)) = Sofar(k + 1)
    BY <2>2, WaveAppended DEF s
  <2> QED BY <2>3, <2>4
<1> HIDE DEF G
<1>5. last \in G
  BY <1>3, <1>4, Induct
<1>6. Good(last)
  BY <1>5 DEF G
<1>7. Sofar(last) = {t \in p.listed : w[t] # 0}
  BY <1>1, <1>2
<1>8. g[last] \in Seq(Tasks)
  OBVIOUS
<1> QED BY <1>1, <1>6, <1>7, <1>8

\* compute_waves loses no task and repeats none, and puts a task after every listed
\* task it depends on.
LEMMA OrderHolds ==
    ASSUME NEW p \in PlanType
    PROVE  /\ Order(p) \in Seq(Tasks) /\ Distinct(Order(p)) /\ Elements(Order(p)) = p.listed
           /\ AnnotationClimbs(p) /\ Acyclic(p) =>
                \A i \in 1 .. Len(Order(p)) :
                    Deps(p, Order(p)[i]) \subseteq {Order(p)[j] : j \in 1 .. i - 1}
<1> DEFINE w == compute_waves(p)
           s == InWaves(p)[w]
<1>1. w \in Waves /\ \A t \in p.listed : w[t] # 0
  <2>1. p.wave \in Waves
    BY DEF PlanType, Waves
  <2> QED BY <2>1, WaveOfHolds DEF compute_waves
<1>2. AnnotationClimbs(p) /\ Acyclic(p) => \A t \in p.listed : \A d \in Deps(p, t) : w[d] < w[t]
  <2>1. p.listed \subseteq Tasks
    BY DEF PlanType
  <2> QED BY <2>1, WaveOfHolds DEF compute_waves, AnnotationClimbs, Ordered, Deps
<1>3. Order(p) = s
  BY DEF Order
<1> HIDE DEF w
<1>4. /\ s \in Seq(Tasks) /\ Distinct(s) /\ Climbing(w, s)
      /\ Elements(s) = {t \in p.listed : w[t] # 0}
  BY <1>1, InWavesHolds
<1>5. Elements(s) = p.listed
  BY <1>1, <1>4
<1> HIDE DEF s
<1>6. \A x : x \in Elements(s) <=> \E i \in 1 .. Len(s) : s[i] = x
  BY <1>4, ElementsAre
<1>7. ASSUME AnnotationClimbs(p), Acyclic(p), NEW i \in 1 .. Len(s), NEW d \in Deps(p, s[i])
      PROVE  d \in {s[j] : j \in 1 .. i - 1}
  <2>1. s[i] \in p.listed /\ d \in p.listed
    BY <1>5, <1>6 DEF Deps
  <2>2. PICK j \in 1 .. Len(s) : s[j] = d
    BY <1>5, <1>6, <2>1
  <2>3. w[s[j]] < w[s[i]]
    BY <1>2, <1>7, <2>1, <2>2
  <2>4. w[s[i]] \in Nat /\ w[s[j]] \in Nat
    BY <1>1, <2>1, <2>2 DEF Waves, PlanType
  <2>5. ~(i < j)
    <3>1. i < j => w[s[i]] <= w[s[j]]
      BY <1>4 DEF Climbing
    <3> QED BY <2>3, <2>4, <3>1
  <2>6. i # j
    BY <2>3, <2>4
  <2>7. Len(s) \in Nat
    BY <1>4
  <2>8. j \in 1 .. i - 1
    BY <2>5, <2>6, <2>7
  <2> QED BY <2>2, <2>8
<1> DEFINE Right(r) ==
        /\ r \in Seq(Tasks) /\ Distinct(r) /\ Elements(r) = p.listed
        /\ AnnotationClimbs(p) /\ Acyclic(p) =>
             \A i \in 1 .. Len(r) : Deps(p, r[i]) \subseteq {r[j] : j \in 1 .. i - 1}
<1>8. Right(s)
  BY <1>4, <1>5, <1>7
<1> HIDE DEF Right
<1>9. Right(Order(p))
  BY <1>3, <1>8, Zenon
<1> QED BY <1>9 DEF Right

\* What Plan annotates climbs (the levels graphs/brainstorm/plan.py writes into the
\* task store with every task it creates).
LEMMA PlanAnnotates ==
    ASSUME NEW p \in PlanType
    PROVE  build_tree(p) \in PlanType /\ AnnotationClimbs(build_tree(p))
<1> DEFINE q == build_tree(p)
<1>1. /\ q \in PlanType /\ q.listed = p.listed /\ q.depends_on = p.depends_on
      /\ q.wave = WaveOf(p)
  BY WaveOfHolds DEF build_tree, planned_waves, PlanType, Waves
<1>2. Acyclic(q) => Acyclic(p)
  BY <1>1 DEF Acyclic
<1>3. \A t \in Tasks : Deps(q, t) = Deps(p, t)
  BY <1>1 DEF Deps
<1>4. p.listed \subseteq Tasks
  BY DEF PlanType
<1> HIDE DEF q
<1>5. Acyclic(q) => \A t \in p.listed : \A d \in Deps(q, t) : q.wave[d] < q.wave[t]
  BY <1>1, <1>2, <1>3, <1>4, WaveOfHolds DEF Ordered
<1> QED BY <1>1, <1>5 DEF AnnotationClimbs, Deps, q

-----------------------------------------------------------------------------
(* The inductive invariant.                                                *)

\* The simulator fails three attempts of a hard task: it will have a panel.
NeedsPanel(p, t)   == p.fails[t] >= Strikes
Before(p, i) == {j \in 1 .. (i - 1) : NeedsPanel(p, Order(p)[j])}

\* A question about the panel that as many panels come before as k says.
AskedAs(p, q, k) ==
    \E j \in 1 .. Len(Order(p)) :
        /\ NeedsPanel(p, Order(p)[j]) /\ Cardinality(Before(p, j)) = k
        /\ q = AskPanel(Order(p)[j])

\* The answers on file are to the panels in the order of the walk.
AnswersHold(p, as) == \A k \in 1 .. Len(as) : AskedAs(p, as[k].question, k - 1)

\* Where an open task is with the simulator: the attempts left tell whether it is
\* hard, and a panel meets it once.
OnTask(p, w) ==
    LET t == w.order[w.i]
    IN /\ ~w.struck => w.fail_until = p.fails[t] /\ w.attempt <= p.fails[t]
       /\ w.struck => NeedsPanel(p, t) /\ w.fail_until = 0
       /\ w.step = "green" /\ ~w.struck => w.attempt < Strikes
       /\ w.step = "panel" => ~w.struck /\ NeedsPanel(p, t)
       /\ w.step = "refactor" /\ ~w.struck => ~NeedsPanel(p, t)

\* As many answers are taken as panels are behind.
Taken(p, w) ==
    w.taken = Cardinality(Before(p, w.i)) + (IF w.struck THEN 1 ELSE 0)

WalkHolds(p, w) ==
    /\ w.order = Order(p)
    /\ w.step # "done" /\ p.runner = "simulated" => OnTask(p, w) /\ (~p.night => Taken(p, w))

LoopHolds ==
    at = "build_loop" =>
        /\ turn = "running" => WalkHolds(plan, walk)
        /\ Simulated => AnswersHold(plan, answers)
        /\ Simulated /\ turn = "parked" => AskedAs(plan, question, Len(answers))

\* What a human is told of by the test phase.
LayersAsked == AskTests(plan.layers \cap Required)

TestsHold ==
    at = "test_phase" =>
        /\ Len(answers) <= 1
        /\ Simulated /\ answers # <<>> => answers[1].question = LayersAsked
        /\ turn = "parked" => answers = <<>> /\ (Simulated => question = LayersAsked)

Rest ==
    /\ plan \in Plans \cup LaterPlans
    /\ turn = "parked" => at \in {"build_loop", "test_phase"}
    /\ plan.night => answers = <<>> /\ turn # "parked"
    /\ at = "preflight" => answers = <<>>
    /\ at \in {"wrap_up", "end"} => Len(answers) <= 1

IInv ==
    /\ TypeOK /\ Rest /\ LoopHolds /\ TestsHold
    /\ AnswerReachesItsPanel /\ FailuresAreAccepted

-----------------------------------------------------------------------------
(* The panels before a place in the order.                                 *)

LEMMA BeforeCounts ==
    ASSUME NEW p, NEW i \in Nat
    PROVE  IsFiniteSet(Before(p, i)) /\ Cardinality(Before(p, i)) \in Nat
<1>1. Before(p, i) \subseteq 1 .. (i - 1)
  BY DEF Before
<1>2. IsFiniteSet(1 .. (i - 1))
  BY FS_Interval
<1> QED BY <1>1, <1>2, FS_Subset, FS_CardinalityType

LEMMA NoneBeforeTheFirst == ASSUME NEW p PROVE Cardinality(Before(p, 1)) = 0
<1>1. Before(p, 1) = {}
  BY DEF Before
<1> QED BY <1>1, FS_EmptySet

LEMMA OneMoreBefore ==
    ASSUME NEW p, NEW i \in Nat \ {0}
    PROVE  Cardinality(Before(p, i + 1)) =
               Cardinality(Before(p, i)) + (IF NeedsPanel(p, Order(p)[i]) THEN 1 ELSE 0)
<1>1. CASE NeedsPanel(p, Order(p)[i])
  <2>1. Before(p, i + 1) = Before(p, i) \cup {i} /\ i \notin Before(p, i)
    BY <1>1 DEF Before
  <2> QED BY <1>1, <2>1, BeforeCounts, FS_AddElement
<1>2. CASE ~NeedsPanel(p, Order(p)[i])
  <2>1. Before(p, i + 1) = Before(p, i)
    BY <1>2 DEF Before
  <2>2. Cardinality(Before(p, i)) \in Nat
    BY BeforeCounts
  <2> QED BY <1>2, <2>1, <2>2
<1> QED BY <1>1, <1>2

\* The number of panels before it tells which panel it is.
LEMMA FewerBefore ==
    ASSUME NEW p, NEW i \in Nat \ {0}, NEW j \in Nat, i < j, NeedsPanel(p, Order(p)[i])
    PROVE  Cardinality(Before(p, i)) < Cardinality(Before(p, j))
<1>1. Before(p, i) \cup {i} \subseteq Before(p, j) /\ i \notin Before(p, i)
  BY DEF Before
<1>2. Cardinality(Before(p, i) \cup {i}) = Cardinality(Before(p, i)) + 1
  BY <1>1, BeforeCounts, FS_AddElement
<1>3. Cardinality(Before(p, i) \cup {i}) <= Cardinality(Before(p, j))
  BY <1>1, BeforeCounts, FS_Subset
<1>4. Cardinality(Before(p, i)) \in Nat /\ Cardinality(Before(p, j)) \in Nat
  BY BeforeCounts
<1> QED BY <1>2, <1>3, <1>4

LEMMA CountTellsPanel ==
    ASSUME NEW p, NEW i \in Nat \ {0}, NEW j \in Nat \ {0},
           NeedsPanel(p, Order(p)[i]), NeedsPanel(p, Order(p)[j]),
           Cardinality(Before(p, i)) = Cardinality(Before(p, j))
    PROVE  i = j
<1>1. Cardinality(Before(p, i)) \in Nat /\ Cardinality(Before(p, j)) \in Nat
  BY BeforeCounts
<1>2. ~(i < j)
  BY <1>1, FewerBefore
<1>3. ~(j < i)
  BY <1>1, FewerBefore
<1> QED BY <1>2, <1>3

\* Two questions to which a different number of panels comes before differ.
LEMMA QuestionsDiffer ==
    ASSUME NEW p \in Plans \cup LaterPlans, NEW q,
           NEW k, NEW l, AskedAs(p, q, k), AskedAs(p, q, l)
    PROVE  k = l
<1>1. PICK i \in 1 .. Len(Order(p)) : Cardinality(Before(p, i)) = k /\ q = AskPanel(Order(p)[i])
  BY DEF AskedAs
<1>2. PICK j \in 1 .. Len(Order(p)) : Cardinality(Before(p, j)) = l /\ q = AskPanel(Order(p)[j])
  BY DEF AskedAs
<1>3. Order(p)[i] = Order(p)[j]
  BY <1>1, <1>2 DEF AskPanel
<1>4. \A m, n \in 1 .. Len(Order(p)) : Order(p)[m] = Order(p)[n] => m = n
  BY OrderHolds DEF Distinct
<1> QED BY <1>1, <1>2, <1>3, <1>4

-----------------------------------------------------------------------------
(* The walk.                                                               *)

WalkType == [step : {"green", "panel", "refactor", "done"}, order : Seq(Tasks), i : Nat,
             attempt : 0 .. MaxAttempts, fail_until : Nat, struck : BOOLEAN, taken : Nat,
             test_loop : CountersType, strike_history : Seq(StrikeType),
             build_log : Seq(RecordType)]

\* The walk of a typed state.
WalkTyped(w) == w \in WalkType /\ (w.step # "done" => w.i \in 1 .. Len(w.order))

LEMMA NothingHolds ==
    /\ Nothing \in StateType /\ NoQuestion \in QuestionType
    /\ NoWalk \in WalkType /\ NoWalk.step = "done" /\ NoWalk.strike_history = <<>>
    /\ Nothing.strike_history = <<>> /\ NoWalk.taken = 0
BY DEF Nothing, NoQuestion, NoWalk, StateType, QuestionType, WalkType, CountersType, MaxAttempts

LEMMA PlansAreTyped ==
    ASSUME NEW p \in Plans \cup LaterPlans
    PROVE  /\ p.listed \subseteq Tasks /\ p.fails \in [Tasks -> Nat] /\ p.layers \subseteq Layers
           /\ p.night \in BOOLEAN /\ p.runner \in {"simulated", "subprocess"}
BY DEF PlanType

\* The loop turns to a task, with the panels before it counted.
LEMMA TurnsTo ==
    ASSUME plan \in Plans \cup LaterPlans,
           NEW w \in WalkType, w.order = Order(plan), NEW i \in Nat \ {0},
           Simulated /\ ~plan.night => w.taken = Cardinality(Before(plan, i))
    PROVE  /\ WalkTyped(TaskAt(w, i)) /\ WalkHolds(plan, TaskAt(w, i))
           /\ TaskAt(w, i).strike_history = w.strike_history
           /\ TaskAt(w, i).taken = w.taken
<1>1. w.order \in Seq(Tasks) /\ Len(w.order) \in Nat
  BY DEF WalkType
<1>2. CASE i > Len(w.order)
  <2>1. TaskAt(w, i) = [w EXCEPT !.i = i, !.step = "done"]
    BY <1>2 DEF TaskAt
  <2>2. TaskAt(w, i) \in WalkType /\ TaskAt(w, i).step = "done"
        /\ TaskAt(w, i).order = w.order /\ TaskAt(w, i).strike_history = w.strike_history
        /\ TaskAt(w, i).taken = w.taken
    BY <2>1 DEF WalkType
  <2> QED BY <2>2 DEF WalkTyped, WalkHolds
<1>3. CASE ~(i > Len(w.order))
  <2> DEFINE t == w.order[i]
             v == [w EXCEPT !.i = i, !.step = "green", !.attempt = 0, !.struck = FALSE,
                            !.fail_until = plan.fails[t]]
  <2>1. TaskAt(w, i) = v
    BY <1>3 DEF TaskAt
  <2>2. i \in 1 .. Len(w.order) /\ t \in Tasks /\ plan.fails[t] \in Nat
    <3>1. i \in 1 .. Len(w.order)
      BY <1>1, <1>3
    <3>2. t \in Tasks
      BY <1>1, <3>1
    <3>3. plan.fails \in [Tasks -> Nat]
      BY PlansAreTyped
    <3> QED BY <3>1, <3>2, <3>3
  <2>3. /\ v \in WalkType /\ v.step = "green" /\ v.i = i /\ v.attempt = 0 /\ v.struck = FALSE
        /\ v.fail_until = plan.fails[t] /\ v.order = w.order /\ v.taken = w.taken
        /\ v.strike_history = w.strike_history
    <3> HIDE DEF t
    <3>1. plan.fails[t] \in Nat /\ i \in Nat /\ 0 \in 0 .. MaxAttempts
      BY <2>2 DEF MaxAttempts
    <3>2. \A f \in Nat :
              LET u == [w EXCEPT !.i = i, !.step = "green", !.attempt = 0, !.struck = FALSE,
                                 !.fail_until = f]
              IN /\ u \in WalkType /\ u.step = "green" /\ u.i = i /\ u.attempt = 0
                 /\ u.struck = FALSE /\ u.fail_until = f /\ u.order = w.order
                 /\ u.taken = w.taken /\ u.strike_history = w.strike_history
      BY <3>1 DEF WalkType
    <3> QED BY <3>1, <3>2
  <2>4. OnTask(plan, v)
    BY <2>2, <2>3 DEF OnTask, Strikes
  <2>5. Simulated /\ ~plan.night => Taken(plan, v)
    <3>1. Cardinality(Before(plan, i)) \in Nat
      BY BeforeCounts
    <3> QED BY <2>3, <3>1 DEF Taken
  <2> HIDE DEF v
  <2> QED BY <2>1, <2>2, <2>3, <2>4, <2>5 DEF WalkTyped, WalkHolds, Simulated
<1> QED BY <1>2, <1>3

\* build_loop from its top, on the state it started from.
LEMMA StartsOver ==
    ASSUME plan \in Plans \cup LaterPlans, NEW s \in StateType
    PROVE  /\ WalkTyped(FromTheTop(s)) /\ WalkHolds(plan, FromTheTop(s))
           /\ FromTheTop(s).strike_history = s.strike_history
           /\ FromTheTop(s).taken = 0
<1> DEFINE w == [step |-> "done", order |-> Order(plan), i |-> 0, attempt |-> 0,
                 fail_until |-> 0, struck |-> FALSE, taken |-> 0, test_loop |-> s.test_loop,
                 strike_history |-> s.strike_history, build_log |-> s.build_log]
<1>1. /\ w \in WalkType /\ w.order = Order(plan) /\ w.taken = 0
      /\ w.strike_history = s.strike_history
  <2>1. Order(plan) \in Seq(Tasks)
    BY OrderHolds
  <2> QED BY <2>1 DEF WalkType, StateType, MaxAttempts
<1>2. FromTheTop(s) = TaskAt(w, 1)
  BY DEF FromTheTop
<1> HIDE DEF w
<1> QED BY <1>1, <1>2, TurnsTo, NoneBeforeTheFirst

-----------------------------------------------------------------------------
(* The steps of the loop.                                                  *)

LEMMA WalkIs ==
    ASSUME IInv, InNode("build_loop")
    PROVE  /\ WalkTyped(walk) /\ WalkHolds(plan, walk) /\ walk.taken <= Len(answers)
           /\ Simulated => RightPanels(walk.strike_history)
           /\ plan \in Plans \cup LaterPlans
BY DEF IInv, TypeOK, LoopHolds, Rest, InNode, WalkTyped, WalkType, AnswerReachesItsPanel

\* A step of the loop changes nothing but the walk.
LEMMA OnlyWalks ==
    ASSUME IInv, InNode("build_loop"),
           UNCHANGED <<plan, at, turn, kept, state, question, answers, builds>>,
           WalkTyped(walk'), WalkHolds(plan, walk'), walk'.taken <= Len(answers),
           Simulated => RightPanels(walk'.strike_history)
    PROVE  IInv'
<1>1. TypeOK'
  BY DEF IInv, TypeOK, WalkTyped, WalkType
<1>2. Rest' /\ TestsHold' /\ FailuresAreAccepted'
  BY DEF IInv, Rest, TestsHold, FailuresAreAccepted, InNode, LayersAsked
<1>3. LoopHolds'
  BY DEF IInv, LoopHolds, InNode, Simulated
<1>4. AnswerReachesItsPanel'
  BY DEF IInv, AnswerReachesItsPanel, InNode, Simulated
<1> QED BY <1>1, <1>2, <1>3, <1>4 DEF IInv

\* The task that is open.
LEMMA OpenTask ==
    ASSUME IInv, InNode("build_loop"), walk.step # "done"
    PROVE  /\ walk \in WalkType /\ walk.i \in 1 .. Len(walk.order) /\ Task \in Tasks
           /\ walk.i \in Nat \ {0}
           /\ plan.fails[Task] \in Nat /\ walk.order = Order(plan)
           /\ Simulated => OnTask(plan, walk)
           /\ Simulated /\ ~plan.night => Taken(plan, walk)
<1>1. WalkTyped(walk) /\ WalkHolds(plan, walk) /\ plan \in Plans \cup LaterPlans
  BY WalkIs
<1>2. walk \in WalkType /\ walk.i \in 1 .. Len(walk.order) /\ walk.order \in Seq(Tasks)
  BY <1>1 DEF WalkTyped, WalkType
<1>3. Task \in Tasks /\ walk.i \in Nat \ {0}
  <2>1. \A o \in Seq(Tasks) : \A k \in 1 .. Len(o) : o[k] \in Tasks /\ k \in Nat \ {0}
    BY SMTT(30)
  <2> QED BY <1>2, <2>1 DEF Task
<1>4. plan.fails \in [Tasks -> Nat]
  BY <1>1, PlansAreTyped
<1> QED BY <1>1, <1>2, <1>3, <1>4 DEF WalkHolds, Simulated

\* A new attempt or another step of the same task.
LEMMA SameTask ==
    ASSUME IInv, InNode("build_loop"), walk.step # "done", NEW w \in WalkType,
           w.order = walk.order, w.i = walk.i, w.taken = walk.taken, w.struck = walk.struck,
           w.strike_history = walk.strike_history, Simulated => OnTask(plan, w),
           walk' = w, UNCHANGED <<plan, at, turn, kept, state, question, answers, builds>>
    PROVE  IInv'
<1>1. WalkTyped(w)
  BY OpenTask DEF WalkTyped
<1>2. WalkHolds(plan, w)
  BY OpenTask DEF WalkHolds, Taken, Simulated
<1> QED BY <1>1, <1>2, WalkIs, OnlyWalks

LEMMA RunUnitKeeps == ASSUME IInv, RunUnit PROVE IInv'
<1>1. InNode("build_loop") /\ walk.step = "green" /\ walk.attempt < MaxAttempts
      /\ UNCHANGED <<plan, at, turn, kept, state, question, answers, builds>>
  BY DEF RunUnit
<1>2. PICK passed \in Verdicts(walk.attempt, walk.fail_until) :
          walk' = IF passed THEN [walk EXCEPT !.step = "refactor"] ELSE Missed(walk)
  BY DEF RunUnit
<1>3. walk \in WalkType /\ plan.fails[Task] \in Nat /\ Task \in Tasks
  BY <1>1, OpenTask
<1>4. walk.attempt \in 0 .. MaxAttempts /\ walk.fail_until \in Nat
  BY <1>3 DEF WalkType
<1>5. CASE passed
  <2> DEFINE w == [walk EXCEPT !.step = "refactor"]
  <2>1. /\ w \in WalkType /\ w.order = walk.order /\ w.i = walk.i /\ w.taken = walk.taken
        /\ w.struck = walk.struck /\ w.strike_history = walk.strike_history
        /\ w.attempt = walk.attempt /\ w.fail_until = walk.fail_until /\ w.step = "refactor"
    BY <1>3 DEF WalkType
  <2>2. Simulated => OnTask(plan, w)
    <3> HAVE Simulated
    <3>1. OnTask(plan, walk) /\ (walk.attempt >= walk.fail_until)
      BY <1>1, <1>2, <1>5, OpenTask DEF Verdicts, Simulated
    <3>2. ~walk.struck => ~NeedsPanel(plan, Task)
      <4> HAVE ~walk.struck
      <4>1. walk.fail_until = plan.fails[Task] /\ walk.attempt < Strikes
        BY <1>1, <3>1 DEF OnTask, Task
      <4> QED BY SMTT(30), <1>3, <1>4, <3>1, <4>1 DEF NeedsPanel, Strikes
    <3> QED BY <2>1, <3>1, <3>2 DEF OnTask, Task
  <2>3. walk' = w
    BY <1>2, <1>5
  <2> HIDE DEF w
  <2> QED BY <1>1, <2>1, <2>2, <2>3, SameTask
<1>6. CASE ~passed
  <2> DEFINE n == walk.attempt + 1
             w == [walk EXCEPT !.attempt = n, !.test_loop[Task] = n,
                               !.step = IF n >= Strikes /\ ~walk.struck THEN "panel" ELSE "green"]
  <2>1. walk' = w
    BY <1>2, <1>6 DEF Missed
  <2>2. n \in 0 .. MaxAttempts
    BY <1>1, <1>4 DEF MaxAttempts
  <2>3. /\ w \in WalkType /\ w.order = walk.order /\ w.i = walk.i /\ w.taken = walk.taken
        /\ w.struck = walk.struck /\ w.strike_history = walk.strike_history
        /\ w.attempt = n /\ w.fail_until = walk.fail_until
        /\ w.step = IF n >= Strikes /\ ~walk.struck THEN "panel" ELSE "green"
    <3> HIDE DEF n
    <3> QED BY <1>3, <2>2 DEF WalkType, CountersType
  <2>4. Simulated => OnTask(plan, w)
    <3> HAVE Simulated
    <3>1. OnTask(plan, walk) /\ ~(walk.attempt >= walk.fail_until)
      BY <1>1, <1>2, <1>6, OpenTask DEF Verdicts, Simulated
    <3>2. ~walk.struck
      BY <1>4, <3>1 DEF OnTask
    <3>3. walk.fail_until = plan.fails[Task]
      BY <3>1, <3>2 DEF OnTask, Task
    <3>4. n <= plan.fails[Task] /\ n \in Nat
      BY <1>4, <3>1, <3>3
    <3>5. n >= Strikes => NeedsPanel(plan, Task)
      BY SMTT(30), <1>3, <3>4 DEF NeedsPanel, Strikes
    <3> HIDE DEF n, w
    <3> QED BY <2>3, <3>2, <3>3, <3>4, <3>5 DEF OnTask, Task, Strikes
  <2> HIDE DEF w
  <2> QED BY <1>1, <2>1, <2>3, <2>4, SameTask
<1> QED BY <1>5, <1>6

LEMMA GiveUpKeeps == ASSUME IInv, GiveUp PROVE IInv'
<1> DEFINE w == [walk EXCEPT !.step = "refactor"]
<1>1. InNode("build_loop") /\ walk.step = "green" /\ walk.attempt = MaxAttempts /\ walk' = w
      /\ UNCHANGED <<plan, at, turn, kept, state, question, answers, builds>>
  BY DEF GiveUp
<1>2. /\ w \in WalkType /\ w.order = walk.order /\ w.i = walk.i /\ w.taken = walk.taken
      /\ w.struck = walk.struck /\ w.strike_history = walk.strike_history
      /\ w.attempt = walk.attempt /\ w.fail_until = walk.fail_until /\ w.step = "refactor"
  BY <1>1, OpenTask DEF WalkType
<1>3. Simulated => OnTask(plan, w)
  <2> HAVE Simulated
  <2>1. OnTask(plan, walk)
    BY <1>1, OpenTask
  <2>2. walk.struck
    BY <1>1, <2>1 DEF OnTask, MaxAttempts, Strikes
  <2> QED BY <1>2, <2>1, <2>2 DEF OnTask
<1> HIDE DEF w
<1> QED BY <1>1, <1>2, <1>3, SameTask

\* The record of a panel: the task is open again, and cannot have another.
LEMMA PanelPassed ==
    ASSUME IInv, InNode("build_loop"), walk.step = "panel",
           NEW choice \in Nat, NEW auto \in BOOLEAN, NEW asked \in QuestionType,
           NEW more \in {0, 1}, plan.night \/ more = 1,
           walk.taken + more <= Len(answers),
           Simulated /\ ~auto => asked = AskPanel(Task),
           walk' = [Struck(walk, choice, auto, asked) EXCEPT !.taken = walk.taken + more],
           UNCHANGED <<plan, at, turn, kept, state, question, answers, builds>>
    PROVE  IInv'
<1> DEFINE strike == [task_id |-> Task, choice |-> choice, auto |-> auto, asked |-> asked]
           h == Append(walk.strike_history, strike)
           w == [Struck(walk, choice, auto, asked) EXCEPT !.taken = walk.taken + more]
<1>1. /\ walk \in WalkType /\ walk.i \in 1 .. Len(walk.order) /\ Task \in Tasks
      /\ plan.fails[Task] \in Nat /\ walk.order = Order(plan)
      /\ Simulated => OnTask(plan, walk)
      /\ Simulated /\ ~plan.night => Taken(plan, walk)
  BY OpenTask
<1>2. strike \in StrikeType
  BY <1>1 DEF StrikeType
<1>3. walk.strike_history \in Seq(StrikeType) /\ walk.taken \in Nat
      /\ walk.test_loop \in CountersType /\ walk.i \in Nat
  BY <1>1 DEF WalkType
<1>4. h \in Seq(StrikeType)
  BY <1>2, <1>3
<1>5. [walk.test_loop EXCEPT ![Task] = 0] \in CountersType
  <2>1. 0 \in 0 .. MaxAttempts
    BY DEF MaxAttempts
  <2> QED BY <1>1, <1>3, <2>1 DEF CountersType
<1>6. /\ w \in WalkType /\ w.order = walk.order /\ w.i = walk.i /\ w.taken = walk.taken + more
      /\ w.struck = TRUE /\ w.strike_history = h /\ w.fail_until = 0 /\ w.step = "green"
  <2>1. w = [walk EXCEPT !.step = "green", !.struck = TRUE, !.fail_until = 0,
                         !.test_loop = [walk.test_loop EXCEPT ![Task] = 0],
                         !.strike_history = h, !.taken = walk.taken + more]
    BY <1>1 DEF Struck, WalkType
  <2> HIDE DEF w, h
  <2>2. walk.taken + more \in Nat
    BY <1>3
  <2> QED BY <1>1, <1>4, <1>5, <2>1, <2>2 DEF WalkType
<1>7. Simulated => RightPanels(w.strike_history)
  <2> HAVE Simulated
  <2>1. RightPanels(walk.strike_history)
    BY WalkIs
  <2>2. ~strike.auto => strike.asked = AskPanel(strike.task_id)
    OBVIOUS
  <2> HIDE DEF strike, w
  <2>3. RightPanels(h)
    BY <1>2, <1>3, <2>1, <2>2 DEF RightPanels
  <2> QED BY <1>6, <2>3
<1>8. WalkTyped(w)
  BY <1>1, <1>6 DEF WalkTyped
<1>9. WalkHolds(plan, w)
  <2>1. Simulated => OnTask(plan, w)
    BY <1>1, <1>6 DEF OnTask
  <2>2. Simulated /\ ~plan.night => Taken(plan, w)
    <3> HAVE Simulated /\ ~plan.night
    <3>1. ~walk.struck /\ walk.taken = Cardinality(Before(plan, walk.i))
      <4>1. OnTask(plan, walk) /\ Taken(plan, walk)
        BY <1>1
      <4>2. ~walk.struck
        BY <4>1 DEF OnTask
      <4>3. Cardinality(Before(plan, walk.i)) \in Nat
        BY <1>3, BeforeCounts
      <4> QED BY <4>1, <4>2, <4>3 DEF Taken
    <3> HIDE DEF w
    <3> QED BY <1>6, <3>1 DEF Taken
  <2> HIDE DEF w
  <2> QED BY <1>1, <1>6, <2>1, <2>2 DEF WalkHolds, Simulated
<1>10. walk' = w
  OBVIOUS
<1> HIDE DEF w
<1> QED BY <1>6, <1>7, <1>8, <1>9, <1>10, OnlyWalks

LEMMA AutoPickKeeps == ASSUME IInv, AutoPick PROVE IInv'
<1>1. InNode("build_loop") /\ walk.step = "panel" /\ plan.night
      /\ walk' = Struck(walk, 0, TRUE, NoQuestion)
      /\ UNCHANGED <<plan, at, turn, kept, state, question, answers, builds>>
  BY DEF AutoPick
<1>2. walk \in WalkType /\ walk.taken \in Nat /\ walk.taken <= Len(answers)
  BY <1>1, WalkIs DEF WalkTyped, WalkType
<1>3. walk' = [Struck(walk, 0, TRUE, NoQuestion) EXCEPT !.taken = walk.taken + 0]
  <2>1. walk.taken + 0 = walk.taken
    BY <1>2
  <2>2. \A l, h :
            LET u == [walk EXCEPT !.step = "green", !.struck = TRUE, !.fail_until = 0,
                                  !.test_loop = l, !.strike_history = h]
            IN u = [u EXCEPT !.taken = walk.taken]
    BY <1>2 DEF WalkType
  <2> DEFINE loop == [walk.test_loop EXCEPT ![Task] = 0]
             hist == Append(walk.strike_history, [task_id |-> Task, choice |-> 0,
                                                  auto |-> TRUE, asked |-> NoQuestion])
  <2>3. Struck(walk, 0, TRUE, NoQuestion) =
            [walk EXCEPT !.step = "green", !.struck = TRUE, !.fail_until = 0,
                         !.test_loop = loop, !.strike_history = hist]
    BY <1>2 DEF Struck, WalkType
  <2>4. Struck(walk, 0, TRUE, NoQuestion) =
            [Struck(walk, 0, TRUE, NoQuestion) EXCEPT !.taken = walk.taken]
    <3> HIDE DEF loop, hist
    <3> QED BY <2>2, <2>3
  <2> QED BY <1>1, <2>1, <2>4, Zenon
<1>4. walk.taken + 0 <= Len(answers)
  <2>1. walk.taken + 0 = walk.taken
    BY <1>2
  <2> QED BY <1>2, <2>1
<1>5. 0 \in Nat /\ 0 \in {0, 1} /\ TRUE \in BOOLEAN /\ NoQuestion \in QuestionType
  BY NothingHolds
<1> QED BY <1>1, <1>3, <1>4, <1>5, PanelPassed, Zenon

\* The answer taken is the one to this task's panel: as many panels are behind.
LEMMA TakeAnswerKeeps == ASSUME IInv, TakeAnswer PROVE IInv'
<1> DEFINE given == answers[walk.taken + 1]
<1>1. InNode("build_loop") /\ walk.step = "panel" /\ ~plan.night /\ walk.taken < Len(answers)
      /\ walk' = [Struck(walk, ChoiceOf(given.choice), FALSE, given.question)
                      EXCEPT !.taken = walk.taken + 1]
      /\ UNCHANGED <<plan, at, turn, kept, state, question, answers, builds>>
  BY DEF TakeAnswer
<1>2. walk \in WalkType /\ walk.taken \in Nat /\ walk.order = Order(plan)
      /\ walk.i \in 1 .. Len(walk.order) /\ walk.i \in Nat \ {0}
  BY <1>1, OpenTask DEF WalkType
<1>3. answers \in Seq([question : QuestionType, choice : Choices]) /\ Len(answers) \in Nat
  BY DEF IInv, TypeOK
<1>4. walk.taken + 1 \in 1 .. Len(answers) /\ walk.taken + 1 <= Len(answers)
  BY <1>1, <1>2, <1>3
<1>5. given \in [question : QuestionType, choice : Choices]
  <2> DEFINE Given == [question : QuestionType, choice : Choices]
  <2> HIDE DEF Given
  <2>2. answers \in Seq(Given)
    BY <1>3 DEF Given
  <2>3. given \in Given
    BY <1>4, <2>2, ElementOfSeq
  <2> QED BY <2>3 DEF Given
<1>6. given.question \in QuestionType /\ ChoiceOf(given.choice) \in Nat
  BY <1>5 DEF ChoiceOf
<1>7. Simulated => given.question = AskPanel(Task)
  <2> HAVE Simulated
  <2>1. AskedAs(plan, given.question, walk.taken + 1 - 1)
    <3>1. AnswersHold(plan, answers)
      BY <1>1 DEF IInv, LoopHolds, InNode
    <3>2. PICK k \in 1 .. Len(answers) : k = walk.taken + 1
      BY <1>4
    <3>3. AskedAs(plan, answers[k].question, k - 1)
      BY <3>1 DEF AnswersHold
    <3>4. k - 1 = walk.taken + 1 - 1
      BY <1>2, <3>2
    <3> QED BY <3>2, <3>3, <3>4
  <2>2. PICK j \in 1 .. Len(Order(plan)) :
            /\ NeedsPanel(plan, Order(plan)[j])
            /\ Cardinality(Before(plan, j)) = walk.taken + 1 - 1
            /\ given.question = AskPanel(Order(plan)[j])
    BY <2>1 DEF AskedAs
  <2>3. OnTask(plan, walk) /\ Taken(plan, walk)
    BY <1>1, OpenTask
  <2>4. ~walk.struck /\ NeedsPanel(plan, Order(plan)[walk.i])
    BY <1>1, <1>2, <2>3 DEF OnTask
  <2>5. Cardinality(Before(plan, walk.i)) = Cardinality(Before(plan, j))
    <3>1. Cardinality(Before(plan, walk.i)) \in Nat
      BY <1>2, BeforeCounts
    <3> QED BY <1>2, <2>2, <2>3, <2>4, <3>1 DEF Taken
  <2>6. j \in Nat \ {0}
    BY <2>2
  <2>7. walk.i = j
    BY <1>2, <2>2, <2>4, <2>5, <2>6, CountTellsPanel
  <2> HIDE DEF given
  <2> QED BY <1>2, <2>2, <2>7 DEF Task
<1> HIDE DEF given
<1> QED BY <1>1, <1>4, <1>6, <1>7, PanelPassed

LEMMA PanelAsksKeeps == ASSUME IInv, PanelAsks PROVE IInv'
<1>1. InNode("build_loop") /\ walk.step = "panel" /\ ~plan.night /\ walk.taken = Len(answers)
      /\ question' = AskPanel(Task) /\ turn' = "parked" /\ walk' = NoWalk
      /\ UNCHANGED <<plan, at, kept, state, answers, builds>>
  BY DEF PanelAsks
<1>2. /\ walk \in WalkType /\ walk.i \in 1 .. Len(walk.order) /\ Task \in Tasks
      /\ walk.i \in Nat \ {0} /\ walk.order = Order(plan)
      /\ Simulated => OnTask(plan, walk) /\ Taken(plan, walk)
  BY <1>1, OpenTask
<1>3. AskPanel(Task) \in QuestionType
  BY <1>2 DEF AskPanel, QuestionType
<1>4. TypeOK'
  <2>1. Len(answers) \in Nat
    BY DEF IInv, TypeOK
  <2>2. walk' \in WalkType /\ walk'.step = "done" /\ walk'.taken = 0
    BY <1>1, NothingHolds
  <2> QED BY <1>1, <1>3, <2>1, <2>2 DEF IInv, TypeOK, WalkType
<1>5. Simulated => AskedAs(plan, AskPanel(Task), Len(answers))
  <2> HAVE Simulated
  <2>1. OnTask(plan, walk) /\ Taken(plan, walk)
    BY <1>2
  <2>2. ~walk.struck /\ NeedsPanel(plan, Order(plan)[walk.i])
    BY <1>1, <1>2, <2>1 DEF OnTask
  <2>3. Cardinality(Before(plan, walk.i)) \in Nat
    BY <1>2, BeforeCounts
  <2>4. Cardinality(Before(plan, walk.i)) = Len(answers)
    BY <1>1, <2>1, <2>2, <2>3 DEF Taken
  <2> QED BY <1>2, <2>2, <2>4 DEF AskedAs, Task
<1>6. LoopHolds'
  BY <1>1, <1>5 DEF IInv, LoopHolds, InNode, Simulated
<1>7. Rest' /\ TestsHold' /\ FailuresAreAccepted'
  BY <1>1 DEF IInv, Rest, TestsHold, FailuresAreAccepted, InNode
<1>8. AnswerReachesItsPanel'
  <2>1. RightPanels(NoWalk.strike_history)
    BY NothingHolds DEF RightPanels
  <2> QED BY <1>1, <2>1 DEF IInv, AnswerReachesItsPanel, InNode, Simulated
<1> QED BY <1>4, <1>6, <1>7, <1>8 DEF IInv

\* The task is recorded, and with it one more panel is behind if it had one.
LEMMA RefactorKeeps == ASSUME IInv, Refactor PROVE IInv'
<1>1. InNode("build_loop") /\ walk.step = "refactor"
      /\ UNCHANGED <<plan, at, turn, kept, state, question, answers, builds>>
  BY DEF Refactor
<1>2. PICK passed \in Verdicts(walk.attempt, 0) :
          walk' = TaskAt([walk EXCEPT !.build_log =
                              Append(@, [task_id |-> Task, attempts |-> walk.attempt,
                                         struck |-> walk.struck, passed |-> passed])],
                         walk.i + 1)
  BY DEF Refactor
<1>3. /\ walk \in WalkType /\ walk.i \in 1 .. Len(walk.order) /\ Task \in Tasks
      /\ walk.i \in Nat \ {0} /\ walk.order = Order(plan)
      /\ Simulated => OnTask(plan, walk)
      /\ Simulated /\ ~plan.night => Taken(plan, walk)
      /\ plan \in Plans \cup LaterPlans
  BY <1>1, OpenTask, WalkIs
<1> DEFINE record == [task_id |-> Task, attempts |-> walk.attempt, struck |-> walk.struck,
                      passed |-> passed]
           w == [walk EXCEPT !.build_log = Append(walk.build_log, record)]
<1>4. passed \in BOOLEAN
  <2>1. (walk.attempt >= 0) \in BOOLEAN
    OBVIOUS
  <2>2. Verdicts(walk.attempt, 0) \in {{walk.attempt >= 0}, BOOLEAN}
    BY Zenon DEF Verdicts
  <2> QED BY <1>2, <2>1, <2>2, Zenon
<1>5. record \in RecordType
  BY <1>3, <1>4 DEF RecordType, WalkType
<1>6. /\ w \in WalkType /\ w.order = walk.order /\ w.taken = walk.taken
      /\ w.strike_history = walk.strike_history
  <2> HIDE DEF record
  <2>1. Append(walk.build_log, record) \in Seq(RecordType)
    BY <1>3, <1>5 DEF WalkType
  <2> QED BY <1>3, <2>1 DEF WalkType
<1>7. Simulated /\ ~plan.night => w.taken = Cardinality(Before(plan, walk.i + 1))
  <2> HAVE Simulated /\ ~plan.night
  <2>1. OnTask(plan, walk) /\ Taken(plan, walk)
    BY <1>3
  <2>2. walk.struck <=> NeedsPanel(plan, Order(plan)[walk.i])
    BY <1>1, <1>3, <2>1 DEF OnTask
  <2> QED BY <1>3, <1>6, <2>1, <2>2, OneMoreBefore DEF Taken
<1>8. walk' = TaskAt(w, walk.i + 1)
  BY <1>2
<1> HIDE DEF w, record
<1>9. walk.i + 1 \in Nat \ {0}
  BY SMTT(30), <1>3
<1>10. /\ WalkTyped(walk') /\ WalkHolds(plan, walk') /\ walk'.taken = walk.taken
       /\ walk'.strike_history = walk.strike_history
  BY SMTT(30), <1>3, <1>6, <1>7, <1>8, <1>9, TurnsTo
<1> QED BY <1>1, <1>10, WalkIs, OnlyWalks

-----------------------------------------------------------------------------
(* The other steps.                                                        *)

LEMMA NoAnswers ==
    /\ <<>> \in Seq([question : QuestionType, choice : Choices]) /\ Len(<<>>) = 0
    /\ \A p : AnswersHold(p, <<>>)
    /\ RightPanels(<<>>)
BY DEF AnswersHold, RightPanels

LEMMA BuiltKeeps == ASSUME IInv, Built PROVE IInv'
<1>1. InNode("build_loop") /\ walk.step = "done" /\ at' = "test_phase"
      /\ question' = NoQuestion /\ answers' = <<>>
      /\ UNCHANGED <<plan, turn, kept, builds>>
  BY DEF Built
<1>2. walk \in WalkType /\ (Simulated => RightPanels(walk.strike_history))
  BY <1>1, WalkIs DEF WalkTyped
<1>3. state' \in StateType /\ state'.strike_history = walk.strike_history
  BY <1>2 DEF Built, IInv, TypeOK, StateType, WalkType
<1>4. walk' \in WalkType /\ walk'.step = "done" /\ walk'.strike_history = <<>> /\ walk'.taken = 0
  BY <1>2, NothingHolds DEF Built, WalkType
<1>5. TypeOK'
  BY <1>1, <1>3, <1>4, NoAnswers, NothingHolds DEF IInv, TypeOK, WalkType
<1>6. Rest' /\ LoopHolds' /\ TestsHold' /\ FailuresAreAccepted'
  BY <1>1, NoAnswers DEF IInv, Rest, LoopHolds, TestsHold, FailuresAreAccepted, InNode
<1>7. AnswerReachesItsPanel'
  BY <1>1, <1>2, <1>3, <1>4, NoAnswers DEF AnswerReachesItsPanel, Simulated
<1> QED BY <1>5, <1>6, <1>7 DEF IInv

LEMMA PreflightKeeps == ASSUME IInv, Preflight PROVE IInv'
<1>1. InNode("preflight") /\ at' = "build_loop"
      /\ state' = [Nothing EXCEPT !.tests = state.tests] /\ walk' = FromTheTop(state')
      /\ UNCHANGED <<plan, turn, kept, question, answers, builds>>
  BY DEF Preflight
<1>2. state' \in StateType /\ state'.strike_history = <<>>
  BY <1>1, NothingHolds DEF IInv, TypeOK, StateType
<1>3. /\ WalkTyped(walk') /\ WalkHolds(plan, walk') /\ walk'.strike_history = <<>>
      /\ walk'.taken = 0
  BY <1>1, <1>2, StartsOver DEF IInv, Rest
<1>4. answers = <<>>
  BY <1>1 DEF IInv, Rest, InNode
<1>5. TypeOK'
  BY <1>1, <1>2, <1>3, <1>4, NoAnswers DEF IInv, TypeOK, WalkTyped, WalkType
<1>6. Rest' /\ TestsHold' /\ FailuresAreAccepted'
  BY <1>1 DEF IInv, Rest, TestsHold, FailuresAreAccepted, InNode
<1>7. LoopHolds'
  <2>1. turn = "running"
    BY <1>1 DEF InNode
  <2> QED BY <1>1, <1>3, <1>4, <2>1, NoAnswers DEF LoopHolds
<1>8. AnswerReachesItsPanel'
  BY <1>1, <1>2, <1>3, NoAnswers DEF AnswerReachesItsPanel
<1> QED BY <1>5, <1>6, <1>7, <1>8 DEF IInv

\* With the simulator the same layers fail on every entry, so the human who
\* answers has been told of what is recorded.
LEMMA TestPhaseKeeps == ASSUME IInv, TestPhase PROVE IInv'
<1>1. InNode("test_phase") /\ UNCHANGED <<plan, kept, answers, walk, builds>>
  BY DEF TestPhase
<1>2. PICK failed \in Failing :
          IF AsksAbout(failed) /\ answers = <<>>
          THEN /\ question' = AskTests(failed \cap Required)
               /\ turn' = "parked"
               /\ UNCHANGED <<at, state>>
          ELSE /\ state' = [state EXCEPT !.tests = failed]
               /\ at' = "wrap_up"
               /\ UNCHANGED <<turn, question>>
  BY DEF TestPhase
<1>3. failed \in SUBSET Layers /\ (Simulated => failed = plan.layers)
  BY <1>2, PlansAreTyped DEF Failing, Simulated, IInv, Rest
<1>4. plan.night \in BOOLEAN
  BY PlansAreTyped DEF IInv, Rest
<1>5. CASE AsksAbout(failed) /\ answers = <<>>
  <2>1. question' = AskTests(failed \cap Required) /\ turn' = "parked" /\ UNCHANGED <<at, state>>
    BY <1>2, <1>5
  <2>2. AskTests(failed \cap Required) \in QuestionType /\ ~plan.night
    BY <1>5 DEF AskTests, QuestionType, AsksAbout
  <2>3. TypeOK'
    BY <1>1, <2>1, <2>2 DEF IInv, TypeOK
  <2>4. Rest' /\ LoopHolds' /\ FailuresAreAccepted' /\ AnswerReachesItsPanel'
    BY <1>1, <2>1, <2>2 DEF IInv, Rest, LoopHolds, FailuresAreAccepted, InNode,
       AnswerReachesItsPanel, Simulated
  <2>5. TestsHold'
    <3>1. Len(answers') = 0 /\ answers' = <<>> /\ plan' = plan
      BY <1>1, <1>5, NoAnswers
    <3>2. Simulated' => question' = LayersAsked'
      <4>1. Simulated' = Simulated /\ LayersAsked' = LayersAsked
        BY <3>1 DEF Simulated, LayersAsked
      <4>2. Simulated => question' = LayersAsked
        BY <1>3, <2>1 DEF LayersAsked
      <4> QED BY <4>1, <4>2
    <3> QED BY <3>1, <3>2 DEF TestsHold
  <2> QED BY <2>3, <2>4, <2>5 DEF IInv
<1>6. CASE ~(AsksAbout(failed) /\ answers = <<>>)
  <2>1. state' = [state EXCEPT !.tests = failed] /\ at' = "wrap_up" /\ UNCHANGED <<turn, question>>
    BY <1>2, <1>6
  <2>2. /\ state' \in StateType /\ state'.tests = failed
        /\ state'.strike_history = state.strike_history
    BY <1>3, <2>1 DEF IInv, TypeOK, StateType
  <2>3. TypeOK'
    BY <1>1, <2>1, <2>2 DEF IInv, TypeOK
  <2>4. Rest' /\ LoopHolds' /\ TestsHold' /\ AnswerReachesItsPanel'
    BY <1>1, <2>1, <2>2 DEF IInv, Rest, LoopHolds, TestsHold, InNode, AnswerReachesItsPanel,
       Simulated
  <2>5. FailuresAreAccepted'
    <3> SUFFICES ASSUME Simulated, ~plan.night
                 PROVE  \/ failed \cap Required = {}
                        \/ answers # <<>>
                           /\ failed \cap Required \subseteq answers[1].question.layers
      BY <1>1, <2>1, <2>2 DEF FailuresAreAccepted, Simulated
    <3>1. CASE answers = <<>>
      BY <1>6, <3>1 DEF AsksAbout
    <3>2. CASE answers # <<>>
      <4>1. answers[1].question = LayersAsked
        BY <1>1, <3>2 DEF IInv, TestsHold, InNode
      <4> QED BY <1>3, <3>2, <4>1 DEF LayersAsked, AskTests
    <3> QED BY <3>1, <3>2
  <2> QED BY <2>3, <2>4, <2>5 DEF IInv
<1> QED BY <1>5, <1>6

LEMMA WrapUpKeeps == ASSUME IInv, WrapUp PROVE IInv'
<1>1. InNode("wrap_up") /\ at' = "end" /\ turn' = "done" /\ kept' = state
      /\ UNCHANGED <<plan, state, question, answers, walk, builds>>
  BY DEF WrapUp
<1>2. TypeOK'
  BY <1>1 DEF IInv, TypeOK
<1>3. Rest' /\ LoopHolds' /\ TestsHold'
  BY <1>1 DEF IInv, Rest, LoopHolds, TestsHold, InNode
<1>4. FailuresAreAccepted' /\ AnswerReachesItsPanel'
  BY <1>1 DEF IInv, FailuresAreAccepted, AnswerReachesItsPanel, InNode, Simulated
<1> QED BY <1>2, <1>3, <1>4 DEF IInv

LEMMA CommandKeeps == ASSUME IInv, Command PROVE IInv'
<1>1. /\ at' = "preflight" /\ turn' = "running" /\ state' = kept
      /\ question' = NoQuestion /\ answers' = <<>> /\ walk' = NoWalk
      /\ builds < MaxBuilds /\ builds' = builds + 1 /\ UNCHANGED kept
  BY DEF Command
<1>2. plan' \in Plans \cup LaterPlans /\ plan' \in PlanType
  BY DEF Command, IInv, Rest
<1>3. builds' \in 0 .. MaxBuilds
  BY <1>1 DEF IInv, TypeOK
<1>4. TypeOK'
  BY <1>1, <1>2, <1>3, NoAnswers, NothingHolds DEF IInv, TypeOK, WalkType
<1>5. Rest' /\ LoopHolds' /\ TestsHold'
  BY <1>1, <1>2 DEF Rest, LoopHolds, TestsHold
<1>6. FailuresAreAccepted' /\ AnswerReachesItsPanel'
  BY <1>1 DEF FailuresAreAccepted, AnswerReachesItsPanel
<1> QED BY <1>4, <1>5, <1>6 DEF IInv

\* The node starts over with one answer more, to the question it was parked on.
LEMMA AnswerKeeps == ASSUME IInv, NEW c \in Choices, Answer(c) PROVE IInv'
<1> DEFINE entry == [question |-> question, choice |-> c]
           Given == [question : QuestionType, choice : Choices]
<1>1. /\ turn = "parked" /\ turn' = "running" /\ answers' = Append(answers, entry)
      /\ walk' = IF at = "build_loop" THEN FromTheTop(state) ELSE walk
      /\ UNCHANGED <<plan, at, kept, state, question, builds>>
  BY DEF Answer
<1>2. entry \in Given /\ answers \in Seq(Given) /\ entry.question = question
  BY DEF IInv, TypeOK
<1> HIDE DEF entry, Given
<1>3. /\ answers' \in Seq(Given) /\ Len(answers') = Len(answers) + 1 /\ Len(answers) \in Nat
      /\ answers' # <<>>
      /\ \A k \in 1 .. Len(answers) : answers'[k] = answers[k]
      /\ answers'[Len(answers) + 1] = entry
  BY <1>1, <1>2
<1>4. ~plan.night /\ at \in {"build_loop", "test_phase"} /\ plan \in Plans \cup LaterPlans
  BY <1>1 DEF IInv, Rest
<1>5. CASE at = "build_loop"
  <2>1. /\ WalkTyped(walk') /\ WalkHolds(plan, walk') /\ walk'.taken = 0
        /\ walk'.strike_history = state.strike_history
    BY <1>1, <1>4, <1>5, StartsOver DEF IInv, TypeOK
  <2>2. TypeOK'
    BY SMTT(30), <1>1, <1>3, <2>1 DEF IInv, TypeOK, WalkTyped, WalkType, Given
  <2>3. Rest' /\ TestsHold' /\ FailuresAreAccepted'
    BY <1>1, <1>4, <1>5 DEF Rest, TestsHold, FailuresAreAccepted
  <2>4. AnswerReachesItsPanel'
    BY <1>1, <1>5, <2>1 DEF IInv, AnswerReachesItsPanel, Simulated
  <2>5. ASSUME Simulated PROVE AnswersHold(plan, answers')
    <3> SUFFICES ASSUME NEW k \in 1 .. Len(answers')
                 PROVE  AskedAs(plan, answers'[k].question, k - 1)
      BY DEF AnswersHold
    <3>1. AnswersHold(plan, answers) /\ AskedAs(plan, question, Len(answers))
      BY <1>1, <1>5, <2>5 DEF IInv, LoopHolds
    <3>2. CASE k \in 1 .. Len(answers)
      BY <1>3, <3>1, <3>2 DEF AnswersHold
    <3>3. CASE k = Len(answers) + 1
      <4>1. k - 1 = Len(answers) /\ answers'[k].question = question
        BY <1>2, <1>3, <3>3
      <4> QED BY <3>1, <4>1
    <3> QED BY <1>3, <3>2, <3>3
  <2>6. LoopHolds'
    BY <1>1, <1>5, <2>1, <2>5 DEF LoopHolds, Simulated
  <2> QED BY <2>2, <2>3, <2>4, <2>6 DEF IInv
<1>6. CASE at = "test_phase"
  <2>1. walk' = walk
    BY <1>1, <1>6
  <2>2. TypeOK'
    <3>1. walk.taken \in Nat /\ walk.taken <= Len(answers)
      BY DEF IInv, TypeOK
    <3>2. walk'.taken <= Len(answers')
      BY <1>3, <2>1, <3>1
    <3> QED BY <1>1, <1>3, <2>1, <3>2 DEF IInv, TypeOK, Given
  <2>3. Rest' /\ LoopHolds' /\ FailuresAreAccepted'
    BY <1>1, <1>4, <1>6 DEF Rest, LoopHolds, FailuresAreAccepted
  <2>4. AnswerReachesItsPanel'
    BY <1>1, <1>6, <2>1 DEF IInv, AnswerReachesItsPanel, Simulated
  <2>5. answers = <<>> /\ (Simulated => question = LayersAsked)
    BY <1>1, <1>6 DEF IInv, TestsHold
  <2>6. Len(answers) = 0
    BY <2>5
  <2>7. TestsHold'
    BY <1>1, <1>2, <1>3, <2>5, <2>6 DEF TestsHold, Simulated, LayersAsked
  <2> QED BY <2>2, <2>3, <2>4, <2>7 DEF IInv
<1> QED BY <1>4, <1>5, <1>6

LEMMA FailKeeps == ASSUME IInv, Fail PROVE IInv'
<1>1. /\ turn = "running" /\ turn' = "failed"
      /\ walk' = IF at = "build_loop" THEN NoWalk ELSE walk
      /\ UNCHANGED <<plan, at, kept, state, question, answers, builds>>
  BY DEF Fail
<1>2. TypeOK'
  <2>1. Len(answers) \in Nat
    BY DEF IInv, TypeOK
  <2>2. CASE at = "build_loop"
    <3>1. walk' \in WalkType /\ walk'.step = "done" /\ walk'.taken = 0
      BY <1>1, <2>2, NothingHolds
    <3> QED BY SMTT(30), <1>1, <2>1, <3>1 DEF IInv, TypeOK, WalkType
  <2>3. CASE at # "build_loop"
    BY <1>1, <2>3 DEF IInv, TypeOK
  <2> QED BY <2>2, <2>3
<1>3. Rest' /\ TestsHold' /\ LoopHolds' /\ FailuresAreAccepted'
  BY <1>1 DEF IInv, Rest, TestsHold, LoopHolds, FailuresAreAccepted, LayersAsked, Simulated
<1>4. AnswerReachesItsPanel'
  BY <1>1, NothingHolds, NoAnswers DEF IInv, AnswerReachesItsPanel, Simulated
<1> QED BY <1>2, <1>3, <1>4 DEF IInv

-----------------------------------------------------------------------------
(* What a walk leaves behind.  The answers on file only tell which panels   *)
(* a replay passes: log, strikes and counts depend on the place the walk    *)
(* has come to and on nothing before this walk.                             *)

\* What the simulator makes of a task: its record, and its count at the end.
RecordOf(p, t) == [task_id |-> t, struck |-> NeedsPanel(p, t), passed |-> TRUE,
                   attempts |-> IF NeedsPanel(p, t) THEN Strikes ELSE p.fails[t]]
CountOf(p, t)  == IF NeedsPanel(p, t) THEN 0 ELSE p.fails[t]

\* The first n records, the strikes of the first n tasks and the counts of the tasks
\* of S, and nothing else.
Records(p, log, n) ==
    Len(log) = n /\ \A k \in 1 .. n : log[k] = RecordOf(p, Order(p)[k])
StrikesOf(p, strikes, n) ==
    /\ Len(strikes) = Cardinality(Before(p, n + 1))
    /\ \A k \in Before(p, n + 1) :
           strikes[Cardinality(Before(p, k + 1))].task_id = Order(p)[k]
Counts(p, loop, n) ==
    \A t \in Tasks : loop[t] = IF \E k \in 1 .. n : Order(p)[k] = t THEN CountOf(p, t) ELSE 0

\* Where a walk is: through with the first w.i - 1 tasks, and with the panel of the
\* open one if it was struck.
OpenHolds(p, w) ==
    /\ w.struck \/ w.step = "panel" => w.attempt = Strikes
    /\ ~w.struck /\ w.step = "refactor" => w.attempt = p.fails[w.order[w.i]]
Through(p, w) ==
    /\ w.step # "done" => OpenHolds(p, w)
    /\ w.step = "done" => w.i = Len(Order(p)) + 1
    /\ Records(p, w.build_log, w.i - 1)
    /\ StrikesOf(p, w.strike_history,
                 IF w.step # "done" /\ w.struck THEN w.i ELSE w.i - 1)
    /\ \/ w.step = "done" /\ Counts(p, w.test_loop, w.i - 1)
       \/ /\ w.step # "done"
          /\ w.test_loop[w.order[w.i]] = IF w.struck THEN 0 ELSE w.attempt
          /\ Counts(p, [w.test_loop EXCEPT ![w.order[w.i]] = 0], w.i - 1)

Seeded(s) == s.test_loop = Nothing.test_loop /\ s.strike_history = <<>> /\ s.build_log = <<>>

LeftBehind(p, s) ==
    LET n == Len(Order(p))
    IN Records(p, s.build_log, n) /\ StrikesOf(p, s.strike_history, n) /\ Counts(p, s.test_loop, n)

TraceInv ==
    /\ at = "build_loop" => Seeded(state)
    /\ InNode("build_loop") /\ Simulated => Through(plan, walk)
    /\ at \in {"test_phase", "wrap_up", "end"} /\ turn # "idle" =>
         walk.order = Order(plan) /\ (Simulated => LeftBehind(plan, state))

LEMMA RecordMore ==
    ASSUME NEW p, NEW n \in Nat, NEW log \in Seq(RecordType), Records(p, log, n),
           NEW r \in RecordType, r = RecordOf(p, Order(p)[n + 1])
    PROVE  Records(p, Append(log, r), n + 1)
<1> DEFINE a == Append(log, r)
<1>1. /\ Len(log) = n /\ Len(a) = n + 1 /\ a[n + 1] = r
      /\ \A k \in 1 .. n : a[k] = log[k]
  BY DEF Records
<1> HIDE DEF a
<1>2. \A k \in 1 .. n + 1 : k \in 1 .. n \/ k = n + 1
  OBVIOUS
<1>3. Records(p, a, n + 1)
  BY <1>1, <1>2 DEF Records
<1> QED BY <1>3 DEF a

LEMMA StrikeMore ==
    ASSUME NEW p, NEW n \in Nat, NeedsPanel(p, Order(p)[n + 1]),
           NEW strikes \in Seq(StrikeType), StrikesOf(p, strikes, n),
           NEW s \in StrikeType, s.task_id = Order(p)[n + 1]
    PROVE  StrikesOf(p, Append(strikes, s), n + 1)
<1> DEFINE a == Append(strikes, s)
           m == Len(strikes)
<1>1. /\ m = Cardinality(Before(p, n + 1)) /\ m \in Nat /\ Len(a) = m + 1 /\ a[m + 1] = s
      /\ \A k \in 1 .. m : a[k] = strikes[k]
  BY DEF StrikesOf
<1> HIDE DEF a, m
<1>2. Cardinality(Before(p, n + 1 + 1)) = m + 1
  BY <1>1, OneMoreBefore
<1>3. \A k \in Before(p, n + 1 + 1) : k \in Before(p, n + 1) \/ k = n + 1
  BY DEF Before
<1>4. ASSUME NEW k \in Before(p, n + 1)
      PROVE  a[Cardinality(Before(p, k + 1))].task_id = Order(p)[k]
  <2> DEFINE c == Cardinality(Before(p, k + 1))
  <2>1. k \in Nat \ {0} /\ NeedsPanel(p, Order(p)[k]) /\ k <= n
    BY DEF Before
  <2>2. Before(p, k + 1) \subseteq Before(p, n + 1)
    BY <2>1 DEF Before
  <2>3. c <= m /\ c \in Nat
    BY <1>1, <2>1, <2>2, BeforeCounts, FS_Subset
  <2>4. c >= 1
    <3>1. c = Cardinality(Before(p, k)) + 1
      BY <2>1, OneMoreBefore
    <3> QED BY <2>1, <3>1, BeforeCounts
  <2>5. strikes[c].task_id = Order(p)[k]
    BY DEF StrikesOf
  <2> HIDE DEF c
  <2>6. a[c] = strikes[c]
    BY <1>1, <2>3, <2>4
  <2> QED BY <2>5, <2>6 DEF c
<1>5. \A k \in Before(p, n + 1 + 1) : a[Cardinality(Before(p, k + 1))].task_id = Order(p)[k]
  <2> TAKE k \in Before(p, n + 1 + 1)
  <2>1. CASE k = n + 1
    BY <1>1, <1>2, <2>1
  <2> QED BY <1>3, <1>4, <2>1
<1>6. StrikesOf(p, a, n + 1)
  BY <1>1, <1>2, <1>5 DEF StrikesOf
<1> QED BY <1>6 DEF a

LEMMA NoStrikeMore ==
    ASSUME NEW p, NEW n \in Nat, ~NeedsPanel(p, Order(p)[n + 1]), NEW strikes,
           StrikesOf(p, strikes, n)
    PROVE  StrikesOf(p, strikes, n + 1)
<1>1. Before(p, n + 1 + 1) = Before(p, n + 1)
  BY DEF Before
<1> QED BY <1>1, Zenon DEF StrikesOf

LEMMA CountMore ==
    ASSUME NEW p, NEW n \in Nat, NEW loop \in CountersType, Order(p)[n + 1] \in Tasks,
           loop[Order(p)[n + 1]] = CountOf(p, Order(p)[n + 1]),
           Counts(p, [loop EXCEPT ![Order(p)[n + 1]] = 0], n)
    PROVE  Counts(p, loop, n + 1)
<1> DEFINE t == Order(p)[n + 1]
<1> SUFFICES ASSUME NEW u \in Tasks
             PROVE  loop[u] = IF \E k \in 1 .. n + 1 : Order(p)[k] = u THEN CountOf(p, u) ELSE 0
  BY DEF Counts
<1>1. \A k \in 1 .. n + 1 : k \in 1 .. n \/ k = n + 1
  OBVIOUS
<1>2. CASE u = t
  BY <1>2
<1>3. CASE u # t
  <2>1. (\E k \in 1 .. n + 1 : Order(p)[k] = u) <=> \E k \in 1 .. n : Order(p)[k] = u
    BY SMTT(30), <1>1, <1>3
  <2>2. [loop EXCEPT ![t] = 0][u] = loop[u]
    BY <1>3 DEF CountersType
  <2>3. [loop EXCEPT ![t] = 0][u] =
            IF \E k \in 1 .. n : Order(p)[k] = u THEN CountOf(p, u) ELSE 0
    BY DEF Counts
  <2> HIDE DEF t
  <2> QED BY <2>1, <2>2, <2>3
<1> QED BY <1>2, <1>3

\* The loop turns to its i-th task, through with those before it.
LEMMA TurnsThrough ==
    ASSUME plan \in Plans \cup LaterPlans, NEW w \in WalkType, w.order = Order(plan),
           NEW i \in 1 .. Len(Order(plan)) + 1,
           Records(plan, w.build_log, i - 1), StrikesOf(plan, w.strike_history, i - 1),
           Counts(plan, w.test_loop, i - 1)
    PROVE  Through(plan, TaskAt(w, i))
<1> DEFINE o == Order(plan)
<1>1. o \in Seq(Tasks) /\ Len(o) \in Nat /\ Distinct(o)
  BY OrderHolds
<1>2. CASE i > Len(o)
  <2>1. TaskAt(w, i) = [w EXCEPT !.i = i, !.step = "done"] /\ i = Len(o) + 1
    BY <1>1, <1>2 DEF TaskAt
  <2>2. /\ TaskAt(w, i).step = "done" /\ TaskAt(w, i).i = i
        /\ TaskAt(w, i).build_log = w.build_log /\ TaskAt(w, i).test_loop = w.test_loop
        /\ TaskAt(w, i).strike_history = w.strike_history
    BY <2>1 DEF WalkType
  <2> QED BY <2>1, <2>2 DEF Through
<1>3. CASE ~(i > Len(o))
  <2> DEFINE v == [w EXCEPT !.i = i, !.step = "green", !.attempt = 0, !.struck = FALSE,
                            !.fail_until = plan.fails[w.order[i]]]
  <2>1. TaskAt(w, i) = v /\ i \in 1 .. Len(o)
    BY <1>1, <1>3 DEF TaskAt
  <2>2. /\ v.step = "green" /\ v.i = i /\ v.attempt = 0 /\ v.struck = FALSE
        /\ v.order = o /\ v.build_log = w.build_log /\ v.test_loop = w.test_loop
        /\ v.strike_history = w.strike_history
    BY DEF WalkType
  <2> HIDE DEF v
  <2>3. o[i] \in Tasks
    BY <1>1, <2>1
  <2>4. ASSUME NEW k \in 1 .. i - 1, o[k] = o[i] PROVE FALSE
    <3> HIDE DEF o
    <3>1. \A m \in Nat : \A b \in 1 .. m : \A a \in 1 .. b - 1 : a \in 1 .. m /\ a # b
      OBVIOUS
    <3>2. k \in 1 .. Len(o) /\ k # i
      BY <1>1, <2>1, <3>1
    <3> QED BY <1>1, <2>1, <2>4, <3>2 DEF Distinct
  <2>5. w.test_loop[o[i]] = 0
    BY <2>3, <2>4 DEF Counts
  <2>6. [w.test_loop EXCEPT ![o[i]] = 0] = w.test_loop
    BY <2>3, <2>5 DEF WalkType, CountersType
  <2>7. OpenHolds(plan, v)
    BY <2>2 DEF OpenHolds
  <2> HIDE DEF o
  <2> QED BY <2>1, <2>2, <2>5, <2>6, <2>7 DEF Through
<1> QED BY <1>2, <1>3

LEMMA StartsThrough ==
    ASSUME plan \in Plans \cup LaterPlans, NEW s \in StateType, Seeded(s)
    PROVE  Through(plan, FromTheTop(s))
<1> DEFINE w == [step |-> "done", order |-> Order(plan), i |-> 0, attempt |-> 0,
                 fail_until |-> 0, struck |-> FALSE, taken |-> 0, test_loop |-> s.test_loop,
                 strike_history |-> s.strike_history, build_log |-> s.build_log]
<1>1. Order(plan) \in Seq(Tasks) /\ Len(Order(plan)) \in Nat
  BY OrderHolds
<1>2. /\ w \in WalkType /\ w.order = Order(plan) /\ w.test_loop = Nothing.test_loop
      /\ w.strike_history = <<>> /\ w.build_log = <<>>
  BY <1>1 DEF WalkType, StateType, MaxAttempts, Seeded
<1>3. FromTheTop(s) = TaskAt(w, 1)
  BY DEF FromTheTop
<1> HIDE DEF w
<1>4. Before(plan, 0 + 1) = {} /\ Len(<<>>) = 0 /\ 1 .. 0 = {} /\ 1 - 1 = 0
  BY DEF Before
<1>5. Records(plan, w.build_log, 1 - 1)
  BY <1>2, <1>4 DEF Records
<1>6. StrikesOf(plan, w.strike_history, 1 - 1)
  BY <1>2, <1>4, FS_EmptySet DEF StrikesOf
<1>7. Counts(plan, w.test_loop, 1 - 1)
  BY <1>2, <1>4 DEF Counts, Nothing
<1>8. 1 \in 1 .. Len(Order(plan)) + 1
  BY <1>1
<1> QED BY <1>2, <1>3, <1>5, <1>6, <1>7, <1>8, TurnsThrough

\* A step of the loop.
LEMMA OnlyWalksThrough ==
    ASSUME TraceInv, InNode("build_loop"), UNCHANGED <<plan, at, turn, state>>,
           Simulated => Through(plan, walk')
    PROVE  TraceInv'
BY DEF TraceInv, InNode, Simulated

\* Another step of the same task, with nothing recorded.
LEMMA SameTaskThrough ==
    ASSUME IInv, TraceInv, InNode("build_loop"), walk.step # "done", Simulated,
           NEW w \in WalkType, w.step # "done", w.order = walk.order, w.i = walk.i,
           w.struck = walk.struck, w.build_log = walk.build_log,
           w.strike_history = walk.strike_history, OpenHolds(plan, w),
           w.test_loop = [walk.test_loop EXCEPT ![Task] = IF w.struck THEN 0 ELSE w.attempt]
    PROVE  Through(plan, w)
<1>1. Through(plan, walk)
  BY DEF TraceInv
<1>2. walk.test_loop \in CountersType /\ Task \in Tasks
  BY OpenTask DEF WalkType
<1> DEFINE n == IF w.struck THEN 0 ELSE w.attempt
<1>3. w.test_loop[Task] = n
  BY <1>2 DEF CountersType
<1>4. [w.test_loop EXCEPT ![Task] = 0] = [walk.test_loop EXCEPT ![Task] = 0]
  BY <1>2 DEF CountersType
<1>5. Task = w.order[w.i]
  BY DEF Task
<1> QED BY <1>1, <1>3, <1>4, <1>5 DEF Through, Task

LEMMA RunUnitThrough == ASSUME IInv, TraceInv, RunUnit, Simulated PROVE Through(plan, walk')
<1>1. InNode("build_loop") /\ walk.step = "green" /\ walk.attempt < MaxAttempts
  BY DEF RunUnit
<1>2. PICK passed \in Verdicts(walk.attempt, walk.fail_until) :
          walk' = IF passed THEN [walk EXCEPT !.step = "refactor"] ELSE Missed(walk)
  BY DEF RunUnit
<1>3. /\ walk \in WalkType /\ plan.fails[Task] \in Nat /\ Task \in Tasks
      /\ OnTask(plan, walk) /\ Through(plan, walk)
  BY <1>1, OpenTask DEF TraceInv
<1>4. /\ walk.attempt \in Nat /\ walk.fail_until \in Nat /\ walk.test_loop \in CountersType
      /\ walk.test_loop[Task] = IF walk.struck THEN 0 ELSE walk.attempt
  BY <1>1, <1>3 DEF WalkType, Through, Task
<1>5. passed <=> walk.attempt >= walk.fail_until
  BY <1>2 DEF Verdicts, Simulated
<1>6. CASE passed
  <2> DEFINE w == [walk EXCEPT !.step = "refactor"]
  <2>1. /\ w \in WalkType /\ w.order = walk.order /\ w.i = walk.i /\ w.struck = walk.struck
        /\ w.strike_history = walk.strike_history /\ w.build_log = walk.build_log
        /\ w.attempt = walk.attempt /\ w.step = "refactor" /\ w.test_loop = walk.test_loop
    BY <1>3 DEF WalkType
  <2>2. OpenHolds(plan, w)
    <3>1. ~walk.struck => walk.attempt = plan.fails[Task]
      BY <1>3, <1>4, <1>5, <1>6 DEF OnTask, Task
    <3>2. walk.struck => walk.attempt = Strikes
      BY <1>1, <1>3 DEF Through, OpenHolds
    <3> QED BY <2>1, <3>1, <3>2 DEF OpenHolds, Task
  <2>3. walk.test_loop = [walk.test_loop EXCEPT ![Task] = IF walk.struck THEN 0 ELSE walk.attempt]
    BY <1>3, <1>4 DEF CountersType
  <2>4. walk' = w
    BY <1>2, <1>6
  <2> HIDE DEF w
  <2> QED BY <1>1, <2>1, <2>2, <2>3, <2>4, SameTaskThrough
<1>7. CASE ~passed
  <2> DEFINE n == walk.attempt + 1
             w == [walk EXCEPT !.attempt = n, !.test_loop[Task] = n,
                               !.step = IF n >= Strikes /\ ~walk.struck THEN "panel" ELSE "green"]
  <2>1. walk' = w
    BY <1>2, <1>7 DEF Missed
  <2>2. ~walk.struck /\ walk.attempt < Strikes
    BY <1>1, <1>3, <1>4, <1>5, <1>7 DEF OnTask
  <2>3. n \in 0 .. MaxAttempts
    <3>1. \A a \in Nat : a < 6 => a + 1 \in 0 .. 6
      OBVIOUS
    <3> QED BY <1>1, <1>4, <3>1 DEF MaxAttempts
  <2>4. /\ w \in WalkType /\ w.order = walk.order /\ w.i = walk.i /\ w.struck = walk.struck
        /\ w.strike_history = walk.strike_history /\ w.build_log = walk.build_log
        /\ w.attempt = n /\ w.test_loop = [walk.test_loop EXCEPT ![Task] = n]
        /\ w.step = IF n >= Strikes /\ ~walk.struck THEN "panel" ELSE "green"
    <3> HIDE DEF n
    <3> QED BY <1>3, <2>3 DEF WalkType, CountersType
  <2>5. OpenHolds(plan, w)
    <3>1. n >= Strikes => n = Strikes
      BY <1>4, <2>2 DEF Strikes
    <3> HIDE DEF n, w
    <3> QED BY <2>2, <2>4, <3>1 DEF OpenHolds
  <2> HIDE DEF w, n
  <2>6. /\ w.step # "done"
        /\ w.test_loop = [walk.test_loop EXCEPT ![Task] = IF w.struck THEN 0 ELSE w.attempt]
    BY <2>2, <2>4
  <2> QED BY <1>1, <2>1, <2>4, <2>5, <2>6, SameTaskThrough
<1> QED BY <1>6, <1>7

LEMMA GiveUpThrough == ASSUME IInv, TraceInv, GiveUp, Simulated PROVE FALSE
<1>1. InNode("build_loop") /\ walk.step = "green" /\ walk.attempt = MaxAttempts
  BY DEF GiveUp
<1>2. OnTask(plan, walk) /\ Through(plan, walk)
  BY <1>1, OpenTask DEF TraceInv
<1>3. walk.struck => walk.attempt = Strikes
  BY <1>1, <1>2 DEF Through, OpenHolds
<1>4. ~walk.struck => walk.attempt < Strikes
  BY <1>1, <1>2 DEF OnTask
<1> QED BY <1>1, <1>3, <1>4 DEF MaxAttempts, Strikes

\* A panel is passed, by the night or on an answer.
LEMMA PanelThrough ==
    ASSUME IInv, TraceInv, InNode("build_loop"), walk.step = "panel", Simulated,
           NEW strike \in StrikeType, strike.task_id = Task,
           NEW w \in WalkType, w.step = "green", w.struck = TRUE, w.attempt = walk.attempt,
           w.order = walk.order, w.i = walk.i, w.build_log = walk.build_log,
           w.strike_history = Append(walk.strike_history, strike),
           w.test_loop = [walk.test_loop EXCEPT ![Task] = 0]
    PROVE  Through(plan, w)
<1>1. /\ walk \in WalkType /\ Task \in Tasks /\ walk.order = Order(plan)
      /\ walk.i \in Nat \ {0} /\ OnTask(plan, walk) /\ Through(plan, walk)
  BY OpenTask DEF TraceInv
<1>2. walk.test_loop \in CountersType /\ walk.strike_history \in Seq(StrikeType)
  BY <1>1 DEF WalkType
<1>3. ~walk.struck /\ NeedsPanel(plan, Task) /\ walk.attempt = Strikes
  BY <1>1 DEF OnTask, Through, OpenHolds, Task
<1>4. /\ StrikesOf(plan, walk.strike_history, walk.i - 1)
      /\ Records(plan, walk.build_log, walk.i - 1)
      /\ Counts(plan, [walk.test_loop EXCEPT ![Task] = 0], walk.i - 1)
  BY <1>1, <1>3 DEF Through, Task
<1>5. StrikesOf(plan, w.strike_history, w.i)
  <2> DEFINE n == walk.i - 1
  <2>1. n \in Nat /\ n + 1 = walk.i /\ Task = Order(plan)[n + 1]
    <3>1. \A k \in Nat \ {0} : k - 1 \in Nat /\ k - 1 + 1 = k
      OBVIOUS
    <3>2. n \in Nat /\ n + 1 = walk.i
      BY <1>1, <3>1
    <3> HIDE DEF n
    <3> QED BY <1>1, <3>2 DEF Task
  <2> HIDE DEF n
  <2>2. StrikesOf(plan, Append(walk.strike_history, strike), n + 1)
    BY <1>2, <1>3, <1>4, <2>1, StrikeMore DEF n
  <2> QED BY <2>1, <2>2
<1>6. w.test_loop[Task] = 0 /\ [w.test_loop EXCEPT ![Task] = 0] = w.test_loop
  BY <1>1, <1>2 DEF CountersType
<1>7. OpenHolds(plan, w)
  BY <1>3 DEF OpenHolds
<1>8. Task = w.order[w.i]
  BY DEF Task
<1> QED BY <1>4, <1>5, <1>6, <1>7, <1>8 DEF Through

LEMMA AutoPickThrough == ASSUME IInv, TraceInv, AutoPick, Simulated PROVE Through(plan, walk')
<1> DEFINE strike == [task_id |-> Task, choice |-> 0, auto |-> TRUE, asked |-> NoQuestion]
           h == Append(walk.strike_history, strike)
           l == [walk.test_loop EXCEPT ![Task] = 0]
<1>1. InNode("build_loop") /\ walk.step = "panel" /\ walk' = Struck(walk, 0, TRUE, NoQuestion)
  BY DEF AutoPick
<1>2. walk \in WalkType /\ Task \in Tasks
  BY <1>1, OpenTask
<1>3. strike \in StrikeType /\ strike.task_id = Task
  BY <1>2, NothingHolds DEF StrikeType
<1>4. h \in Seq(StrikeType) /\ l \in CountersType
  <2>1. walk.strike_history \in Seq(StrikeType) /\ walk.test_loop \in CountersType
        /\ 0 \in 0 .. MaxAttempts
    BY <1>2 DEF WalkType, MaxAttempts
  <2>2. l \in CountersType
    BY <1>2, <2>1 DEF CountersType
  <2> HIDE DEF strike
  <2> QED BY <1>3, <2>1, <2>2
<1>5. walk' = [walk EXCEPT !.step = "green", !.struck = TRUE, !.fail_until = 0,
                           !.test_loop = l, !.strike_history = h]
  BY <1>1, <1>2 DEF Struck, WalkType
<1> HIDE DEF h, l
<1>6. /\ walk' \in WalkType /\ walk'.step = "green" /\ walk'.struck = TRUE
      /\ walk'.attempt = walk.attempt /\ walk'.order = walk.order /\ walk'.i = walk.i
      /\ walk'.build_log = walk.build_log /\ walk'.strike_history = h /\ walk'.test_loop = l
  BY <1>2, <1>4, <1>5 DEF WalkType
<1>7. walk'.strike_history = Append(walk.strike_history, strike)
      /\ walk'.test_loop = [walk.test_loop EXCEPT ![Task] = 0]
  BY <1>6 DEF h, l
<1> HIDE DEF strike
<1> QED BY <1>1, <1>3, <1>6, <1>7, PanelThrough

LEMMA TakeAnswerThrough ==
    ASSUME IInv, TraceInv, TakeAnswer, IInv', Simulated PROVE Through(plan, walk')
<1> DEFINE given == answers[walk.taken + 1]
           strike == [task_id |-> Task, choice |-> ChoiceOf(given.choice),
                      auto |-> FALSE, asked |-> given.question]
           h == Append(walk.strike_history, strike)
           l == [walk.test_loop EXCEPT ![Task] = 0]
<1>1. /\ InNode("build_loop") /\ walk.step = "panel" /\ walk.taken < Len(answers)
      /\ walk' = [Struck(walk, ChoiceOf(given.choice), FALSE, given.question)
                      EXCEPT !.taken = walk.taken + 1]
  BY DEF TakeAnswer
<1>2. walk \in WalkType /\ Task \in Tasks /\ walk.taken \in Nat
  BY <1>1, OpenTask DEF WalkType
<1>3. given.question \in QuestionType /\ ChoiceOf(given.choice) \in Nat
  <2> DEFINE Given == [question : QuestionType, choice : Choices]
  <2> HIDE DEF Given
  <2>1. answers \in Seq(Given) /\ Len(answers) \in Nat
    BY DEF IInv, TypeOK, Given
  <2>2. walk.taken + 1 \in 1 .. Len(answers)
    BY SMTT(30), <1>1, <1>2, <2>1
  <2>3. given \in Given
    BY <2>1, <2>2, ElementOfSeq
  <2> HIDE DEF given
  <2> QED BY <2>3 DEF Given, ChoiceOf
<1> HIDE DEF given
<1>4. strike \in StrikeType /\ strike.task_id = Task
  BY <1>2, <1>3 DEF StrikeType
<1>5. h \in Seq(StrikeType) /\ l \in CountersType
  <2>1. walk.strike_history \in Seq(StrikeType) /\ walk.test_loop \in CountersType
        /\ 0 \in 0 .. MaxAttempts
    BY <1>2 DEF WalkType, MaxAttempts
  <2>2. l \in CountersType
    BY <1>2, <2>1 DEF CountersType
  <2> HIDE DEF strike
  <2> QED BY <1>4, <2>1, <2>2
<1>6. walk' = [walk EXCEPT !.step = "green", !.struck = TRUE, !.fail_until = 0,
                           !.test_loop = l, !.strike_history = h, !.taken = walk.taken + 1]
  BY <1>1, <1>2 DEF Struck, WalkType
<1> HIDE DEF h, l
<1>7. /\ walk' \in WalkType /\ walk'.step = "green" /\ walk'.struck = TRUE
      /\ walk'.attempt = walk.attempt /\ walk'.order = walk.order /\ walk'.i = walk.i
      /\ walk'.build_log = walk.build_log /\ walk'.strike_history = h /\ walk'.test_loop = l
  <2>1. walk.taken + 1 \in Nat
    BY <1>2
  <2> QED BY <1>2, <1>5, <1>6, <2>1 DEF WalkType
<1>8. walk'.strike_history = Append(walk.strike_history, strike)
      /\ walk'.test_loop = [walk.test_loop EXCEPT ![Task] = 0]
  BY <1>7 DEF h, l
<1> HIDE DEF strike
<1> QED BY <1>1, <1>4, <1>7, <1>8, PanelThrough

LEMMA RefactorThrough == ASSUME IInv, TraceInv, Refactor, Simulated PROVE Through(plan, walk')
<1>1. InNode("build_loop") /\ walk.step = "refactor"
  BY DEF Refactor
<1>2. PICK passed \in Verdicts(walk.attempt, 0) :
          walk' = TaskAt([walk EXCEPT !.build_log =
                              Append(@, [task_id |-> Task, attempts |-> walk.attempt,
                                         struck |-> walk.struck, passed |-> passed])],
                         walk.i + 1)
  BY DEF Refactor
<1>3. /\ walk \in WalkType /\ walk.i \in 1 .. Len(walk.order) /\ Task \in Tasks
      /\ walk.i \in Nat \ {0} /\ walk.order = Order(plan) /\ OnTask(plan, walk)
      /\ plan \in Plans \cup LaterPlans /\ Through(plan, walk) /\ plan.fails[Task] \in Nat
  BY <1>1, OpenTask, WalkIs DEF TraceInv
<1>4. /\ walk.attempt \in 0 .. MaxAttempts /\ walk.struck \in BOOLEAN
      /\ walk.test_loop \in CountersType /\ walk.build_log \in Seq(RecordType)
  BY <1>3 DEF WalkType
<1>5. passed = TRUE
  <2>1. \A a \in 0 .. MaxAttempts : a >= 0
    BY DEF MaxAttempts
  <2>2. passed = (walk.attempt >= 0)
    BY <1>2 DEF Verdicts, Simulated
  <2>3. (walk.attempt >= 0) = TRUE
    BY <1>4, <2>1
  <2> QED BY <2>2, <2>3, Zenon
<1>6. /\ walk.struck = NeedsPanel(plan, Task)
      /\ walk.attempt = IF NeedsPanel(plan, Task) THEN Strikes ELSE plan.fails[Task]
  <2>1. OpenHolds(plan, walk)
    BY <1>1, <1>3 DEF Through
  <2>2. walk.struck <=> NeedsPanel(plan, Task)
    BY <1>1, <1>3 DEF OnTask, Task
  <2>3. NeedsPanel(plan, Task) \in BOOLEAN
    BY DEF NeedsPanel
  <2> QED BY <1>1, <1>4, <2>1, <2>2, <2>3 DEF OpenHolds, Task
<1> DEFINE record == [task_id |-> Task, attempts |-> walk.attempt, struck |-> walk.struck,
                      passed |-> passed]
           log == Append(walk.build_log, record)
           w == [walk EXCEPT !.build_log = log]
           n == walk.i - 1
<1>7. record \in RecordType /\ record = RecordOf(plan, Task)
  BY <1>3, <1>4, <1>5, <1>6 DEF RecordType, RecordOf
<1>8. walk' = TaskAt(w, walk.i + 1)
  BY <1>2
<1> HIDE DEF record
<1>9. /\ w \in WalkType /\ w.order = Order(plan) /\ w.build_log = log
      /\ w.strike_history = walk.strike_history /\ w.test_loop = walk.test_loop
  <2>1. log \in Seq(RecordType)
    BY <1>4, <1>7
  <2> HIDE DEF log
  <2> QED BY <1>3, <2>1 DEF WalkType
<1>10. n \in Nat /\ n + 1 = walk.i /\ Task = Order(plan)[n + 1]
  <2>1. \A k \in Nat \ {0} : k - 1 \in Nat /\ k - 1 + 1 = k
    OBVIOUS
  <2>2. n \in Nat /\ n + 1 = walk.i
    BY <1>3, <2>1
  <2> HIDE DEF n
  <2> QED BY <1>3, <2>2 DEF Task
<1>11. /\ Records(plan, walk.build_log, n)
       /\ StrikesOf(plan, walk.strike_history, IF walk.struck THEN walk.i ELSE n)
       /\ walk.test_loop[Task] = IF walk.struck THEN 0 ELSE walk.attempt
       /\ Counts(plan, [walk.test_loop EXCEPT ![Task] = 0], n)
  BY <1>1, <1>3 DEF Through, Task
<1> HIDE DEF n, w, log
<1>12. Records(plan, w.build_log, n + 1)
  <2>1. record = RecordOf(plan, Order(plan)[n + 1])
    BY <1>7, <1>10
  <2>2. Records(plan, Append(walk.build_log, record), n + 1)
    BY <1>4, <1>7, <1>10, <1>11, <2>1, RecordMore
  <2> QED BY <1>9, <2>2 DEF log
<1>13. StrikesOf(plan, w.strike_history, n + 1)
  <2>1. CASE walk.struck
    BY <1>9, <1>10, <1>11, <2>1
  <2>2. CASE ~walk.struck
    BY <1>6, <1>9, <1>10, <1>11, <2>2, NoStrikeMore
  <2> QED BY <2>1, <2>2
<1>14. Counts(plan, w.test_loop, n + 1)
  <2>1. walk.test_loop[Task] = CountOf(plan, Task)
    BY <1>6, <1>11 DEF CountOf
  <2> QED BY <1>3, <1>4, <1>9, <1>10, <1>11, <2>1, CountMore
<1> DEFINE j == walk.i + 1
<1>15. j \in 1 .. Len(Order(plan)) + 1 /\ n + 1 = j - 1
  <2>1. Len(Order(plan)) \in Nat
    BY <1>3, OrderHolds
  <2>2. \A m \in Nat : \A k \in 1 .. m : k + 1 \in 1 .. m + 1 /\ k + 1 - 1 = k
    OBVIOUS
  <2>3. walk.i \in 1 .. Len(Order(plan))
    BY <1>3
  <2>4. j \in 1 .. Len(Order(plan)) + 1 /\ j - 1 = walk.i
    BY <2>1, <2>2, <2>3
  <2> HIDE DEF j
  <2> QED BY <1>10, <2>4
<1>16. walk' = TaskAt(w, j)
  BY <1>8
<1> HIDE DEF j
<1>17. /\ Records(plan, w.build_log, j - 1) /\ StrikesOf(plan, w.strike_history, j - 1)
       /\ Counts(plan, w.test_loop, j - 1)
  BY <1>12, <1>13, <1>14, <1>15, Zenon
<1>18. Through(plan, TaskAt(w, j))
  BY <1>3, <1>9, <1>15, <1>17, TurnsThrough
<1> QED BY <1>16, <1>18

LEMMA BuiltThrough == ASSUME IInv, TraceInv, Built PROVE TraceInv'
<1>1. /\ InNode("build_loop") /\ walk.step = "done" /\ at' = "test_phase"
      /\ state' = [state EXCEPT !.test_loop = walk.test_loop,
                                !.strike_history = walk.strike_history,
                                !.build_log = walk.build_log]
      /\ walk' = [NoWalk EXCEPT !.order = walk.order] /\ UNCHANGED <<plan, turn>>
  BY DEF Built
<1>2. /\ walk \in WalkType /\ walk.order = Order(plan) /\ plan \in Plans \cup LaterPlans
  BY <1>1, WalkIs DEF WalkTyped, WalkHolds
<1>3. walk'.order = Order(plan)
  BY <1>1, <1>2 DEF NoWalk
<1>4. /\ state'.test_loop = walk.test_loop /\ state'.strike_history = walk.strike_history
      /\ state'.build_log = walk.build_log
  BY <1>1 DEF IInv, TypeOK, StateType
<1>5. Simulated => LeftBehind(plan, state')
  <2> HAVE Simulated
  <2>1. Through(plan, walk)
    BY <1>1 DEF TraceInv
  <2>2. Len(Order(plan)) \in Nat
    BY <1>2, OrderHolds
  <2>3. walk.i - 1 = Len(Order(plan))
    BY <1>1, <2>1, <2>2 DEF Through
  <2> QED BY <1>1, <1>4, <2>1, <2>3 DEF Through, LeftBehind
<1> QED BY <1>1, <1>3, <1>5 DEF TraceInv, InNode, Simulated

LEMMA TraceInit == Init => TraceInv
BY DEF Init, TraceInv, InNode

LEMMA TraceNext == IInv /\ IInv' /\ TraceInv /\ [Next]_vars => TraceInv'
<1> SUFFICES ASSUME IInv, IInv', TraceInv, [Next]_vars PROVE TraceInv'
  OBVIOUS
<1>0. plan \in Plans \cup LaterPlans /\ state \in StateType
  BY DEF IInv, TypeOK, Rest
<1>1. CASE Command
  BY <1>1 DEF Command, TraceInv, InNode
<1>2. CASE Preflight
  <2>1. /\ at' = "build_loop" /\ state' = [Nothing EXCEPT !.tests = state.tests]
        /\ walk' = FromTheTop(state') /\ UNCHANGED <<plan, turn>>
    BY <1>2 DEF Preflight
  <2>2. Seeded(state') /\ state' \in StateType
    BY <1>0, <2>1, NothingHolds DEF Seeded, Nothing, StateType
  <2>3. Through(plan, walk')
    BY <1>0, <2>1, <2>2, StartsThrough
  <2> QED BY <2>1, <2>2, <2>3 DEF TraceInv
<1>3. CASE RunUnit \/ GiveUp \/ AutoPick \/ TakeAnswer \/ Refactor
  <2>1. InNode("build_loop") /\ UNCHANGED <<plan, at, turn, state>>
    BY <1>3 DEF RunUnit, GiveUp, AutoPick, TakeAnswer, Refactor
  <2>2. Simulated => Through(plan, walk')
    BY <1>3, RunUnitThrough, GiveUpThrough, AutoPickThrough, TakeAnswerThrough,
       RefactorThrough
  <2> QED BY <2>1, <2>2, OnlyWalksThrough
<1>4. CASE PanelAsks
  BY <1>4 DEF PanelAsks, TraceInv, InNode
<1>5. CASE Built
  BY <1>5, BuiltThrough
<1>6. CASE TestPhase
  <2>1. /\ at = "test_phase" /\ turn = "running" /\ UNCHANGED <<plan, walk>>
        /\ at' \in {"test_phase", "wrap_up"}
        /\ state' = state \/ \E f : state' = [state EXCEPT !.tests = f]
    BY <1>6 DEF TestPhase, InNode
  <2>2. /\ state'.test_loop = state.test_loop /\ state'.strike_history = state.strike_history
        /\ state'.build_log = state.build_log
    BY <1>0, <2>1 DEF StateType
  <2>3. Simulated => LeftBehind(plan, state')
    BY <2>1, <2>2 DEF TraceInv, LeftBehind
  <2> QED BY <2>1, <2>3 DEF TraceInv, InNode, Simulated
<1>7. CASE WrapUp
  BY <1>7 DEF WrapUp, TraceInv, InNode, Simulated
<1>8. CASE Fail
  BY <1>8 DEF Fail, TraceInv, InNode, Simulated
<1>9. ASSUME NEW c \in Choices, Answer(c) PROVE TraceInv'
  <2>1. /\ turn = "parked" /\ turn' = "running" /\ UNCHANGED <<plan, at, state>>
        /\ walk' = IF at = "build_loop" THEN FromTheTop(state) ELSE walk
    BY <1>9 DEF Answer
  <2>2. CASE at = "build_loop"
    <3>1. Through(plan, walk')
      BY <1>0, <2>1, <2>2, StartsThrough DEF TraceInv
    <3> QED BY <2>1, <2>2, <3>1 DEF TraceInv
  <2>3. CASE at # "build_loop"
    BY <2>1, <2>3 DEF TraceInv, InNode, Simulated
  <2> QED BY <2>2, <2>3
<1>10. CASE UNCHANGED vars
  BY <1>10 DEF vars, TraceInv, InNode, Simulated
<1> QED BY <1>1, <1>2, <1>3, <1>4, <1>5, <1>6, <1>7, <1>8, <1>9, <1>10 DEF Next, Node

LEMMA NoTraceIsLeft == ASSUME IInv, TraceInv PROVE ReplayLeavesNoTrace
<1> SUFFICES ASSUME Simulated, at \in {"test_phase", "wrap_up", "end"}, turn # "idle"
             PROVE  LET n == Len(walk.order)
                        hard(t) == plan.fails[t] >= Strikes
                        panels(i) == {j \in 1 .. i : hard(walk.order[j])}
                    IN /\ state.build_log =
                            [i \in 1 .. n |->
                                LET t == walk.order[i]
                                IN [task_id |-> t, struck |-> hard(t), passed |-> TRUE,
                                    attempts |-> IF hard(t) THEN Strikes ELSE plan.fails[t]]]
                       /\ Len(state.strike_history) = Cardinality(panels(n))
                       /\ \A i \in panels(n) :
                            state.strike_history[Cardinality(panels(i))].task_id = walk.order[i]
                       /\ state.test_loop =
                            [t \in Tasks |-> IF t \in plan.listed /\ ~hard(t)
                                             THEN plan.fails[t] ELSE 0]
  BY DEF ReplayLeavesNoTrace
<1> DEFINE n == Len(walk.order)
           o == walk.order
           hard(t) == plan.fails[t] >= Strikes
           panels(i) == {j \in 1 .. i : hard(o[j])}
           right(t) == [task_id |-> t, struck |-> hard(t), passed |-> TRUE,
                        attempts |-> IF hard(t) THEN Strikes ELSE plan.fails[t]]
<1>1. /\ o = Order(plan) /\ LeftBehind(plan, state) /\ state \in StateType
      /\ plan \in Plans \cup LaterPlans
  BY DEF TraceInv, IInv, TypeOK, Rest
<1>2. o \in Seq(Tasks) /\ Elements(o) = plan.listed /\ n = Len(o) /\ n \in Nat
  BY <1>1, OrderHolds
<1>3. /\ Records(plan, state.build_log, n) /\ StrikesOf(plan, state.strike_history, n)
      /\ Counts(plan, state.test_loop, n)
  <2> HIDE DEF o, n
  <2> QED BY <1>1, <1>2 DEF LeftBehind
<1>4. state.build_log = [i \in 1 .. n |-> right(o[i])]
  <2> DEFINE log == state.build_log
  <2>1. log \in Seq(RecordType)
    BY <1>1 DEF StateType
  <2>2. \A t : RecordOf(plan, t) = right(t)
    BY DEF RecordOf, NeedsPanel
  <2> HIDE DEF o, n, log, right
  <2>3. Len(log) = n /\ \A i \in 1 .. n : log[i] = right(o[i])
    BY <1>1, <1>3, <2>2 DEF Records, log
  <2>4. log = [i \in 1 .. Len(log) |-> log[i]]
    BY <2>1
  <2>5. log = [i \in 1 .. n |-> right(o[i])]
    BY <2>3, <2>4
  <2> QED BY <2>5 DEF log
<1>5. /\ Len(state.strike_history) = Cardinality(panels(n))
      /\ \A i \in panels(n) :
            state.strike_history[Cardinality(panels(i))].task_id = o[i]
  <2>1. \A i \in Nat : panels(i) = Before(plan, i + 1)
    <3> HIDE DEF o
    <3> QED BY <1>1 DEF Before, NeedsPanel
  <2>2. \A i \in panels(n) : i \in Nat
    OBVIOUS
  <2> HIDE DEF panels, n, o
  <2> QED BY <1>1, <1>2, <1>3, <2>1, <2>2 DEF StrikesOf
<1>6. state.test_loop =
          [t \in Tasks |-> IF t \in plan.listed /\ ~hard(t) THEN plan.fails[t] ELSE 0]
  <2>1. state.test_loop \in CountersType
    BY <1>1 DEF StateType
  <2> HIDE DEF n, o
  <2>2. \A t \in Tasks : (\E k \in 1 .. n : o[k] = t) <=> t \in plan.listed
    BY SMTT(30), <1>2, ElementsAre
  <2>3. \A t \in Tasks :
            state.test_loop[t] = IF \E k \in 1 .. n : o[k] = t THEN CountOf(plan, t) ELSE 0
    BY <1>1, <1>3 DEF Counts
  <2>4. \A t \in Tasks : state.test_loop[t] =
            IF t \in plan.listed /\ ~hard(t) THEN plan.fails[t] ELSE 0
    BY <2>2, <2>3 DEF CountOf, NeedsPanel
  <2> QED BY <2>1, <2>4 DEF CountersType
<1> QED BY <1>4, <1>5, <1>6

-----------------------------------------------------------------------------
(* The theorems.                                                           *)

THEOREM Initially == Init => IInv
<1> SUFFICES ASSUME Init PROVE IInv
  OBVIOUS
<1>1. plan \in PlanType /\ 0 \in 0 .. MaxBuilds
  BY DEF Init
<1>2. TypeOK
  BY <1>1, NoAnswers, NothingHolds DEF Init, TypeOK, WalkType
<1>3. Rest /\ LoopHolds /\ TestsHold /\ FailuresAreAccepted
  BY NoAnswers DEF Init, Rest, LoopHolds, TestsHold, FailuresAreAccepted
<1>4. AnswerReachesItsPanel
  BY NoAnswers, NothingHolds DEF Init, AnswerReachesItsPanel
<1> QED BY <1>2, <1>3, <1>4 DEF IInv

THEOREM Inductively == IInv /\ [Next]_vars => IInv'
<1> SUFFICES ASSUME IInv, [Next]_vars PROVE IInv'
  OBVIOUS
<1>1. CASE Command
  BY <1>1, CommandKeeps
<1>2. CASE Node
  BY <1>2, PreflightKeeps, RunUnitKeeps, GiveUpKeeps, AutoPickKeeps, TakeAnswerKeeps,
     PanelAsksKeeps, RefactorKeeps, BuiltKeeps, TestPhaseKeeps, WrapUpKeeps DEF Node
<1>3. CASE Fail
  BY <1>3, FailKeeps
<1>4. ASSUME NEW c \in Choices, Answer(c) PROVE IInv'
  BY <1>4, AnswerKeeps
<1>5. CASE UNCHANGED vars
  <2>1. TypeOK' /\ Rest' /\ TestsHold' /\ FailuresAreAccepted' /\ AnswerReachesItsPanel'
    BY <1>5 DEF vars, IInv, TypeOK, Rest, TestsHold, FailuresAreAccepted,
       AnswerReachesItsPanel, LayersAsked, Simulated
  <2>2. LoopHolds'
    BY <1>5 DEF vars, IInv, LoopHolds, Simulated
  <2> QED BY <2>1, <2>2 DEF IInv
<1> QED BY <1>1, <1>2, <1>3, <1>4, <1>5 DEF Next

\* Nobody is asked twice: the panels a question and the answers on file are about
\* are told apart by the number of panels before them.
LEMMA AskedOnce == IInv => NobodyAskedTwice
<1> SUFFICES ASSUME IInv PROVE NobodyAskedTwice
  OBVIOUS
<1>1. turn = "parked" => ~plan.night
  BY DEF IInv, Rest
<1>2. Len(answers) \in Nat /\ plan \in Plans \cup LaterPlans
  BY DEF IInv, TypeOK, Rest
<1>3. CASE at = "build_loop"
  <2>1. ASSUME Simulated, turn = "parked", NEW i \in 1 .. Len(answers),
               answers[i].question = question
        PROVE  FALSE
    <3>1. AskedAs(plan, question, Len(answers)) /\ AskedAs(plan, question, i - 1)
      BY <1>3, <2>1 DEF IInv, LoopHolds, AnswersHold
    <3>2. Len(answers) = i - 1
      BY <1>2, <3>1, QuestionsDiffer
    <3> QED BY <1>2, <3>2
  <2>2. ASSUME Simulated, NEW i \in 1 .. Len(answers), NEW j \in 1 .. Len(answers),
               answers[i].question = answers[j].question
        PROVE  i = j
    <3>1. AskedAs(plan, answers[i].question, i - 1) /\ AskedAs(plan, answers[i].question, j - 1)
      BY <1>3, <2>2 DEF IInv, LoopHolds, AnswersHold
    <3>2. i - 1 = j - 1
      BY <1>2, <3>1, QuestionsDiffer
    <3> QED BY <3>2
  <2> QED BY <1>1, <2>1, <2>2 DEF NobodyAskedTwice
<1>4. CASE at # "build_loop"
  <2>1. Len(answers) <= 1 /\ (turn = "parked" => answers = <<>>)
    BY <1>4 DEF IInv, TypeOK, Rest, TestsHold
  <2>2. \A i, j \in 1 .. Len(answers) : i = j
    BY <1>2, <2>1
  <2>3. turn = "parked" => Len(answers) = 0
    BY <2>1
  <2> QED BY <1>1, <2>2, <2>3 DEF NobodyAskedTwice
<1> QED BY <1>3, <1>4

\* The human whom a strike panel or a failed layer asks decides that and nothing
\* else, and is asked once (build_loop.py's interrupts and their replay).
THEOREM HumansAreHeardAlways == Spec => []HumansAreHeard
<1>1. Init => IInv
  BY Initially
<1>2. IInv /\ [Next]_vars => IInv'
  BY Inductively
<1>3. IInv => HumansAreHeard
  BY AskedOnce DEF IInv, HumansAreHeard
<1> QED BY <1>1, <1>2, <1>3, PTL DEF Spec

\* While the loop walks, its order is the one compute_waves gives its plan.
LEMMA InOrder ==
    ASSUME IInv, \A p \in Plans \cup LaterPlans : AnnotationClimbs(p)
    PROVE  WavesAreRight
<1>1. TypeOK
  BY DEF IInv
<1>2. ASSUME Looping
      PROVE  walk.order = Order(plan) /\ plan \in PlanType /\ AnnotationClimbs(plan)
  BY <1>2 DEF IInv, LoopHolds, Looping, WalkHolds, Rest
<1>3. ASSUME Looping
      PROVE  /\ Distinct(walk.order) /\ Elements(walk.order) = plan.listed
             /\ Acyclic(plan) =>
                   \A i \in 1 .. Len(walk.order) :
                       Deps(plan, walk.order[i]) \subseteq {walk.order[j] : j \in 1 .. i - 1}
  <2> DEFINE Right(r) ==
          /\ Distinct(r) /\ Elements(r) = plan.listed
          /\ Acyclic(plan) =>
                \A i \in 1 .. Len(r) : Deps(plan, r[i]) \subseteq {r[j] : j \in 1 .. i - 1}
  <2>1. Right(Order(plan))
    BY <1>2, <1>3, OrderHolds
  <2> HIDE DEF Right
  <2>2. Right(walk.order)
    BY <1>2, <1>3, <2>1, Zenon
  <2> QED BY <2>2 DEF Right
<1>4. EveryTaskOnce
  BY <1>3 DEF EveryTaskOnce, Distinct, Elements
<1>5. DependenciesFirst
  BY <1>3 DEF DependenciesFirst, Deps
<1> QED BY <1>1, <1>4, <1>5 DEF WavesAreRight

\* The build loop walks every listed task once and, unless tasks wait for each
\* other in a circle, after all it depends on: with the waves preflight computes,
\* and with annotations such as Plan writes (compute_waves, PlanAnnotates).
THEOREM WavesAreRightAlways ==
    (\A p \in Plans \cup LaterPlans : AnnotationClimbs(p)) => (Spec => []WavesAreRight)
<1> SUFFICES ASSUME \A p \in Plans \cup LaterPlans : AnnotationClimbs(p)
             PROVE  Spec => []WavesAreRight
  OBVIOUS
<1>1. Init => IInv
  BY Initially
<1>2. IInv /\ [Next]_vars => IInv'
  BY Inductively
<1>3. IInv => WavesAreRight
  BY InOrder
<1> QED BY <1>1, <1>2, <1>3, PTL DEF Spec

\* What a build leaves behind is what one walk through its tasks would: the answers
\* that a replay finds on file pass panels and change nothing else (preflight seeds
\* the bookkeeping; build_loop's lists are copies of the state's).
THEOREM ReplaysLeaveNoTrace == Spec => []ReplayLeavesNoTrace
<1>1. Init => IInv /\ TraceInv
  BY Initially, TraceInit
<1>2. IInv /\ TraceInv /\ [Next]_vars => IInv' /\ TraceInv'
  BY Inductively, TraceNext
<1>3. IInv /\ TraceInv => ReplayLeavesNoTrace
  BY NoTraceIsLeft
<1> QED BY <1>1, <1>2, <1>3, PTL DEF Spec

=============================================================================

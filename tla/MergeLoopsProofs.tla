-------------------------- MODULE MergeLoopsProofs --------------------------
(***************************************************************************)
(* Theorems of MergeLoops for every value of its constants: however many   *)
(* merges follow each other and whatever order the maps are ranged over in.*)
(***************************************************************************)
EXTENDS MergeLoops, LoopLemmas

-----------------------------------------------------------------------------
(* A pass over a queue (Sifted).                                           *)

(* The positions up to y whose entries are in C.                           *)
Chosen(q, C, y) == {x \in 1 .. y : q[x] \in C}

Sifting(q, C, turn) ==
    /\ turn[0] = <<>>
    /\ \A x \in 1 .. Len(q) :
          turn[x] = IF q[x] \in C THEN Append(turn[x - 1], q[x]) ELSE turn[x - 1]

LEMMA SiftedTurns ==
    ASSUME NEW S, NEW q \in Seq(S), NEW C
    PROVE  \E turn \in [0 .. Len(q) -> Seq(S)] :
              Sifting(q, C, turn) /\ Sifted(q, C) = turn[Len(q)]
  <1> DEFINE n == Len(q)
             T == Seq(S)
             none == <<>>
             Turn(x, w) == IF q[x] \in C THEN Append(w, q[x]) ELSE w
             step == [y \in (1 .. n) \X T |-> Turn(y[1], y[2])]
             Rec(f) == [x \in 0 .. n |-> IF x = 0 THEN <<>>
                          ELSE IF q[x] \in C THEN Append(f[x - 1], q[x]) ELSE f[x - 1]]
             g == CHOOSE h : h = Rec(h)
  <1>1. n \in Nat /\ none \in T
    OBVIOUS
  <1>2. \A x \in 1 .. n, w \in T : Turn(x, w) \in T
    <2> TAKE x \in 1 .. n, w \in T
    <2>1. q[x] \in S
      BY ElementOfSeq
    <2>2. Append(w, q[x]) \in Seq(S)
      BY <2>1, AppendProperties
    <2> QED
      BY <2>2
  <1>3. \A f : Rec(f) = [x \in 0 .. n |-> IF x = 0 THEN none ELSE Turn(x, f[x - 1])]
    OBVIOUS
  <1>4. Sifted(q, C) = g[n]
    BY DEF Sifted
  <1> HIDE DEF n, T, none, Turn, Rec
  <1>5. step \in [(1 .. n) \X T -> T]
    BY <1>2
  <1> HIDE DEF step, g
  <1>6. PICK f : Runs(n, T, none, step, f)
    BY <1>1, <1>5, LoopRuns
  <1>7. ASSUME NEW x \in 1 .. n PROVE f[x] = Turn(x, f[x - 1])
    <2>1. x - 1 \in 0 .. n /\ f[x - 1] \in T
      BY <1>1, <1>6 DEF Runs
    <2> QED
      BY <1>6, <2>1 DEF step, Runs
  <1>8. f = Rec(f)
    <2>1. \A x \in 0 .. n : x # 0 => x \in 1 .. n
      BY <1>1
    <2>2. \A x \in 0 .. n : f[x] = IF x = 0 THEN none ELSE Turn(x, f[x - 1])
      BY <1>6, <1>7, <2>1 DEF Runs
    <2> QED
      BY <1>3, <1>6, <2>2 DEF Runs
  <1>9. g = Rec(g)
    BY <1>8 DEF g
  <1>10. g = [x \in 0 .. n |-> IF x = 0 THEN none ELSE Turn(x, g[x - 1])]
    BY <1>3, <1>9
  <1>11. /\ g[0] = none
         /\ \A x \in 1 .. n : g[x] = Turn(x, g[x - 1])
    BY <1>1, <1>10
  <1> DEFINE G == {x \in 0 .. n : g[x] \in T}
  <1>12. \A x \in 0 .. n : x \in G
    <2>1. 0 \in G
      BY <1>1, <1>11
    <2>2. \A x \in 1 .. n : x - 1 \in G => x \in G
      BY <1>1, <1>2, <1>11
    <2> HIDE DEF G
    <2> QED
      BY <1>1, <2>1, <2>2, TurnInduction
  <1>13. g \in [0 .. n -> T]
    BY <1>10, <1>12
  <1>14. Sifting(q, C, g)
    BY <1>11 DEF Sifting, n, none, Turn
  <1> QED
    BY <1>4, <1>13, <1>14 DEF n, T

(* What was sifted are the entries in C, all of them, in their order.      *)
SiftedBy(q, C, w, f) ==
    TakenFrom(q, Chosen(q, C, Len(q)), w, f) /\ AllTaken(Chosen(q, C, Len(q)), w, f)

LEMMA SiftedTakes ==
    ASSUME NEW S, NEW q \in Seq(S), NEW C
    PROVE  Sifted(q, C) \in Seq(S) /\ \E f : SiftedBy(q, C, Sifted(q, C), f)
  <1> DEFINE n == Len(q)
  <1>1. PICK turn \in [0 .. n -> Seq(S)] :
           Sifting(q, C, turn) /\ Sifted(q, C) = turn[n]
    BY SiftedTurns
  <1>2. n \in Nat
    OBVIOUS
  <1> HIDE DEF n
  <1> DEFINE Good(y) == \E f : /\ TakenFrom(q, Chosen(q, C, y), turn[y], f)
                               /\ AllTaken(Chosen(q, C, y), turn[y], f)
             G == {y \in 0 .. n : Good(y)}
  <1>3. Good(0)
    <2> DEFINE f == [x \in 1 .. 0 |-> 0]
    <2>1. Chosen(q, C, 0) = {} /\ turn[0] = <<>> /\ Len(turn[0]) = 0
      BY <1>1 DEF Sifting, Chosen
    <2>2. f \in [1 .. 0 -> {}]
      OBVIOUS
    <2> HIDE DEF f
    <2> QED
      BY <2>1, <2>2 DEF TakenFrom, AllTaken
  <1>4. ASSUME NEW y \in 1 .. n, Good(y - 1) PROVE Good(y)
    <2> DEFINE D == Chosen(q, C, y - 1)
               w == turn[y - 1]
    <2>1. y - 1 \in 0 .. n /\ y \in Nat /\ y \in 1 .. Len(q) /\ w \in Seq(S)
      <3>1. y - 1 \in 0 .. n /\ y \in Nat /\ y \in 1 .. Len(q)
        BY <1>2 DEF n
      <3> QED
        BY <1>1, <3>1
    <2>2. D \subseteq 1 .. y - 1
      BY DEF Chosen
    <2>3. PICK f : TakenFrom(q, D, w, f) /\ AllTaken(D, w, f)
      BY <1>4
    <2>4. CASE q[y] \in C
      <3>1. Chosen(q, C, y) = D \cup {y}
        BY <2>1, <2>4 DEF Chosen
      <3>2. turn[y] = Append(w, q[y])
        BY <1>1, <2>1, <2>4 DEF Sifting
      <3> HIDE DEF D, w
      <3>3. \E h : /\ TakenFrom(q, D \cup {y}, Append(w, q[y]), h)
                   /\ AllTaken(D \cup {y}, Append(w, q[y]), h)
        BY <2>1, <2>2, <2>3, TakenGrows
      <3> QED
        BY <3>1, <3>2, <3>3
    <2>5. CASE q[y] \notin C
      <3>1. Chosen(q, C, y) = D
        BY <2>1, <2>5 DEF Chosen
      <3>2. turn[y] = w
        BY <1>1, <2>1, <2>5 DEF Sifting
      <3> QED
        BY <2>3, <3>1, <3>2
    <2> QED
      BY <2>4, <2>5
  <1>5. n \in G
    <2>1. 0 \in G /\ n \in 0 .. n
      BY <1>2, <1>3
    <2>2. \A y \in 1 .. n : y - 1 \in G => y \in G
      <3> HIDE DEF Good
      <3>1. \A y \in 1 .. n : y \in 0 .. n
        BY <1>2
      <3> QED
        BY <1>4, <3>1
    <2> HIDE DEF G
    <2> QED
      BY <1>2, <2>1, <2>2, TurnInduction
  <1> QED
    BY <1>1, <1>2, <1>5 DEF SiftedBy, n

-----------------------------------------------------------------------------
(* The inductive invariant.                                                *)
Val == [id : Nat, path : {Path}, name : Names, ts : Int]

Allocated == 1 .. Len(stamp)

TypeOK ==
    /\ pc \in {"idle", "room", "match", "drop"}
    /\ stamp \in Seq(Int) /\ lastId \in Nat
    /\ list \in Seq(Allocated)
    /\ DOMAIN queue \subseteq Names /\ queue \in [DOMAIN queue -> Seq(Val)]
    /\ taken \in Seq([Names -> Seq(Val)]) /\ Len(taken) = Len(stamp)

UpTo(s, id) == \A x \in DOMAIN s : s[x].id <= id

(* What an object could still take came after all it has taken.            *)
Behind(o, n) ==
    \A x \in DOMAIN queue[n], y \in DOMAIN taken[o][n] :
        Older(queue[n][x], stamp[o]) => taken[o][n][y].id < queue[n][x].id

Ordered ==
    /\ \A n \in DOMAIN queue : InOrder(queue[n]) /\ UpTo(queue[n], lastId)
    /\ \A o \in Allocated, n \in Names :
          /\ InOrder(taken[o][n]) /\ UpTo(taken[o][n], lastId)
          /\ n \in DOMAIN queue => Behind(o, n)

(* The queue of a name holds nothing older than the entry at j.            *)
Cleared(n, j) ==
    \A x \in DOMAIN queue[n] : ~Older(queue[n][x], stamp[list[j]])

InRoom == pc = "room" => validOfs \in 0 .. Len(list) /\ Len(stamp) # 0

InMatch ==
    pc = "match" =>
        /\ i \in 1 .. Len(list) /\ names \subseteq DOMAIN queue
        /\ \A n \in DOMAIN queue, j \in 1 .. Len(list) :
              j < i \/ (j = i /\ n \notin names) => Cleared(n, j)

InDrop ==
    pc = "drop" =>
        /\ names \subseteq DOMAIN queue /\ Len(list) # 0
        /\ \A n \in DOMAIN queue, j \in 1 .. Len(list) : Cleared(n, j)

Dropping ==
    IF name = "" THEN values = <<>> /\ size = 0
    ELSE /\ pc = "drop" /\ name \in DOMAIN queue
         /\ values = queue[name] /\ size = Len(values) /\ k \in Nat \ {0}

LInv == TypeOK /\ Ordered /\ InRoom /\ InMatch /\ InDrop /\ Dropping

-----------------------------------------------------------------------------
(* What a pass leaves of the order, and of the values.                     *)
LEMMA SiftedOrder ==
    ASSUME NEW q \in Seq(Val), NEW C
    PROVE  LET w == Sifted(q, C) IN
           /\ w \in Seq(Val)
           /\ \A x \in DOMAIN w : w[x] \in C /\ \E y \in DOMAIN q : w[x] = q[y]
           /\ InOrder(q) => InOrder(w)
           /\ \A id : UpTo(q, id) => UpTo(w, id)
  <1> DEFINE w == Sifted(q, C)
             n == Len(q)
  <1>1. w \in Seq(Val) /\ \E f : SiftedBy(q, C, w, f)
    BY SiftedTakes
  <1> HIDE DEF w
  <1>2. PICK f : SiftedBy(q, C, w, f)
    BY <1>1
  <1>3. /\ Len(w) \in Nat /\ DOMAIN w = 1 .. Len(w)
        /\ n \in Nat /\ DOMAIN q = 1 .. n
    BY <1>1
  <1>4. \A x \in DOMAIN w : f[x] \in DOMAIN q /\ q[f[x]] \in C /\ w[x] = q[f[x]]
    BY <1>2, <1>3 DEF SiftedBy, TakenFrom, Chosen
  <1>5. \A x, y \in DOMAIN w : x < y => f[x] < f[y]
    BY <1>2, <1>3 DEF SiftedBy, TakenFrom
  <1>6. InOrder(q) => InOrder(w)
    BY <1>4, <1>5 DEF InOrder
  <1>7. \A id : UpTo(q, id) => UpTo(w, id)
    BY <1>4 DEF UpTo
  <1>8. \A x \in DOMAIN w : w[x] \in C /\ \E y \in DOMAIN q : w[x] = q[y]
    BY <1>4
  <1> QED
    BY <1>1, <1>6, <1>7, <1>8 DEF w

(* Of a queue and the values appended to a list that all came before it.   *)
LEMMA OrderConcat ==
    ASSUME NEW s \in Seq(Val), NEW t \in Seq(Val), InOrder(s), InOrder(t),
           \A y \in DOMAIN s, x \in DOMAIN t : s[y].id < t[x].id
    PROVE  /\ InOrder(s \o t)
           /\ \A id : UpTo(s, id) /\ UpTo(t, id) => UpTo(s \o t, id)
  <1> DEFINE u == s \o t
             l == Len(s)
  <1>1. /\ u \in Seq(Val) /\ Len(u) = l + Len(t) /\ l \in Nat /\ Len(t) \in Nat
        /\ \A x \in 1 .. l : u[x] = s[x]
        /\ \A x \in 1 .. Len(u) : x > l => u[x] = t[x - l] /\ x - l \in DOMAIN t
    BY ConcatProperties
  <1>2. DOMAIN u = 1 .. Len(u) /\ DOMAIN s = 1 .. l /\ DOMAIN t = 1 .. Len(t)
    BY <1>1
  <1> HIDE DEF u, l
  <1>3. ASSUME NEW x \in DOMAIN u, NEW y \in DOMAIN u, x < y
        PROVE  u[x].id < u[y].id
    <2>1. x \in Nat /\ y \in Nat
      BY <1>1, <1>2
    <2>2. CASE y <= l
      <3>1. x \in DOMAIN s /\ y \in DOMAIN s
        BY <1>1, <1>2, <1>3, <2>1, <2>2
      <3> QED
        BY <1>1, <1>2, <1>3, <3>1 DEF InOrder
    <2>3. CASE x <= l /\ y > l
      <3>1. x \in DOMAIN s /\ y - l \in DOMAIN t /\ u[y] = t[y - l] /\ u[x] = s[x]
        BY <1>1, <1>2, <1>3, <2>1, <2>3
      <3> QED
        BY <3>1
    <2>4. CASE x > l
      <3>1. /\ x - l \in DOMAIN t /\ u[x] = t[x - l]
            /\ y - l \in DOMAIN t /\ u[y] = t[y - l] /\ x - l < y - l
        BY <1>1, <1>2, <1>3, <2>1, <2>4
      <3> QED
        BY <3>1 DEF InOrder
    <2> QED
      BY <1>1, <2>1, <2>2, <2>3, <2>4
  <1>4. ASSUME NEW id, UpTo(s, id), UpTo(t, id), NEW x \in DOMAIN u
        PROVE  u[x].id <= id
    <2>1. CASE x <= l
      <3>1. x \in DOMAIN s /\ u[x] = s[x]
        BY <1>1, <1>2, <2>1
      <3> QED
        BY <1>4, <3>1 DEF UpTo
    <2>2. CASE x > l
      <3>1. x - l \in DOMAIN t /\ u[x] = t[x - l]
        BY <1>1, <1>2, <2>2
      <3> QED
        BY <1>4, <3>1 DEF UpTo
    <2> QED
      BY <1>1, <1>2, <2>1, <2>2
  <1> QED
    BY <1>3, <1>4 DEF InOrder, UpTo, u

(* The oldest stamp is that of an entry.                                   *)
LEMMA OldestIsListed ==
    ASSUME TypeOK, Len(list) # 0
    PROVE  \E j \in 1 .. Len(list) : OldestStamp = stamp[list[j]]
  <1> DEFINE m == Len(list)
             at(j) == stamp[list[j]]
             Least(y) == \E j \in 1 .. y : \A z \in 1 .. y : at(j) <= at(z)
             G == {y \in 0 .. m : y = 0 \/ Least(y)}
  <1>1. m \in Nat /\ \A j \in 1 .. m : list[j] \in Allocated /\ at(j) \in Int
    BY ElementOfSeq DEF TypeOK, Allocated
  <1> HIDE DEF m, at
  <1>2. \A y \in 1 .. m : y - 1 \in G => y \in G
    <2> TAKE y \in 1 .. m
    <2> HAVE y - 1 \in G
    <2>0. y \in 0 .. m
      BY <1>1
    <2>1. CASE y = 1
      <3>1. Least(y)
        BY <1>1, <2>1
      <3> QED
        BY <2>0, <3>1
    <2>2. CASE y # 1
      <3>1. PICK j \in 1 .. y - 1 : \A z \in 1 .. y - 1 : at(j) <= at(z)
        BY <1>1, <2>2
      <3>2. /\ j \in 1 .. y /\ y \in 1 .. y /\ at(j) \in Int /\ at(y) \in Int
            /\ \A z \in 1 .. y : (z = y \/ z \in 1 .. y - 1) /\ at(z) \in Int
        BY <1>1, <3>1
      <3>3. CASE at(j) <= at(y)
        BY <2>0, <3>1, <3>2, <3>3
      <3>4. CASE at(y) <= at(j)
        <4>1. \A z \in 1 .. y : at(y) <= at(z)
          BY <3>1, <3>2, <3>4
        <4>2. Least(y)
          BY <3>2, <4>1
        <4> QED
          BY <2>0, <4>2
      <3> QED
        BY <3>2, <3>3, <3>4
    <2> QED
      BY <2>1, <2>2
  <1>3. PICK j \in 1 .. m : \A z \in 1 .. m : at(j) <= at(z)
    <2>1. 0 \in G /\ m \in 0 .. m
      BY <1>1
    <2> HIDE DEF G
    <2>2. m \in G
      BY <1>1, <1>2, <2>1, TurnInduction
    <2> QED
      BY <1>1, <2>2 DEF G, m
  <1>4. ToSet(list) = {list[z] : z \in 1 .. m}
    BY DEF ToSet, TypeOK, m
  <1> DEFINE ts == {stamp[x] : x \in ToSet(list)}
  <1>5. at(j) \in ts /\ \A x \in ToSet(list) : at(j) <= stamp[x]
    BY <1>3, <1>4 DEF at
  <1>6. OldestStamp \in ts
    BY <1>5 DEF OldestStamp
  <1> QED
    BY <1>4, <1>6 DEF m

-----------------------------------------------------------------------------
(* One action at a time.                                                   *)

(* What most steps leave alone: the objects, the queues and what was taken.*)
Steady == UNCHANGED <<stamp, queue, taken, lastId>>

LEMMA SteadyOrder ==
    ASSUME Ordered, Steady
    PROVE  Ordered'
  <1>1. \A o, n : Behind(o, n)' = Behind(o, n)
    BY DEF Steady, Behind, Older
  <1>2. Allocated' = Allocated
    BY DEF Steady, Allocated
  <1> QED
    BY <1>1, <1>2 DEF Steady, Ordered, InOrder, UpTo

LEMMA SteadyTypes ==
    ASSUME TypeOK, Steady, list' = list,
           pc' \in {"idle", "room", "match", "drop"}
    PROVE  TypeOK'
  BY DEF Steady, TypeOK, Allocated

LEMMA SteadyClear ==
    ASSUME Steady, list' = list
    PROVE  \A n, j : Cleared(n, j)' = Cleared(n, j)
  BY DEF Steady, Cleared, Older

LEMMA ValsAre ==
    ASSUME NEW s \in Seq(Val)
    PROVE  /\ Len(s) \in Nat /\ DOMAIN s = 1 .. Len(s)
           /\ \A x \in DOMAIN s : s[x] \in Val /\ s[x].id \in Int
  <1>1. Len(s) \in Nat /\ DOMAIN s = 1 .. Len(s)
    OBVIOUS
  <1>2. \A x \in DOMAIN s : s[x] \in Val
    BY <1>1, ElementOfSeq
  <1>3. \A v \in Val : v.id \in Int
    BY DEF Val
  <1> QED
    BY <1>1, <1>2, <1>3

LEMMA LaterIds ==
    ASSUME NEW s \in Seq(Val), NEW id \in Nat, UpTo(s, id)
    PROVE  UpTo(s, id + 1)
  <1>1. \A x \in DOMAIN s : s[x].id \in Int
    BY ValsAre
  <1> QED
    BY <1>1 DEF UpTo

LEMMA QueueTypes ==
    ASSUME TypeOK, NEW n \in DOMAIN queue
    PROVE  n \in Names /\ queue[n] \in Seq(Val)
  BY DEF TypeOK

LEMMA TakenTypes ==
    ASSUME TypeOK, NEW o \in Allocated
    PROVE  /\ o \in DOMAIN taken /\ taken[o] \in [Names -> Seq(Val)]
           /\ \A n \in Names : taken[o][n] \in Seq(Val)
  <1>1. /\ taken \in Seq([Names -> Seq(Val)]) /\ Len(taken) = Len(stamp)
        /\ o \in 1 .. Len(taken)
    BY DEF TypeOK, Allocated
  <1>2. taken[o] \in [Names -> Seq(Val)]
    BY <1>1, ElementOfSeq
  <1> QED
    BY <1>1, <1>2

LEMMA EmptyL ==
    ASSUME stamp' = <<>>, list' = <<>>, lastId' = 0, taken' = <<>>,
           queue' = [n \in {} |-> <<>>], pc' = "idle"
    PROVE  TypeOK' /\ Ordered'
  <1>1. /\ stamp' \in Seq(Int) /\ lastId' \in Nat
        /\ Len(stamp') = 0 /\ Allocated' = {}
    BY DEF Allocated
  <1>2. list' \in Seq(Allocated')
    BY <1>1
  <1>3. taken' \in Seq([Names -> Seq(Val)]) /\ Len(taken') = Len(stamp')
    OBVIOUS
  <1>4. DOMAIN queue' = {} /\ queue' \in [DOMAIN queue' -> Seq(Val)]
    OBVIOUS
  <1>5. TypeOK'
    BY <1>1, <1>2, <1>3, <1>4 DEF TypeOK
  <1> QED
    BY <1>1, <1>4, <1>5 DEF Ordered

LEMMA InitL == Init => LInv
  <1> SUFFICES ASSUME Init PROVE LInv
    OBVIOUS
  <1>1. /\ stamp = <<>> /\ list = <<>> /\ lastId = 0 /\ taken = <<>>
        /\ queue = [n \in {} |-> <<>>] /\ pc = "idle"
    BY DEF Init
  <1>2. /\ stamp \in Seq(Int) /\ lastId \in Nat
        /\ Len(stamp) = 0 /\ Allocated = {}
    BY <1>1 DEF Allocated
  <1>3. taken \in Seq([Names -> Seq(Val)]) /\ Len(taken) = Len(stamp)
    BY <1>1
  <1>4. DOMAIN queue = {} /\ queue \in [DOMAIN queue -> Seq(Val)]
    BY <1>1
  <1>5. list \in Seq(Allocated)
    BY <1>1
  <1>6. TypeOK
    BY <1>1, <1>2, <1>3, <1>4, <1>5 DEF TypeOK
  <1>7. Ordered
    BY <1>2, <1>4 DEF Ordered
  <1>8. Dropping
    BY DEF Init, Dropping
  <1> QED
    BY <1>1, <1>6, <1>7, <1>8 DEF LInv, InRoom, InMatch, InDrop

LEMMA EnqueueL ==
    ASSUME LInv, NEW n \in Names, NEW t \in Times, Enqueue(n, t)
    PROVE  LInv'
  <1> DEFINE nu == [id |-> lastId + 1, path |-> Path, name |-> n, ts |-> t]
             q == QueueOf(n)
  <1>1. /\ pc = "idle" /\ lastId' = lastId + 1
        /\ queue' = [x \in DOMAIN queue \cup {n} |->
                       IF x = n THEN Append(q, nu) ELSE queue[x]]
        /\ UNCHANGED <<pc, stamp, list, taken, start, loopVars>>
    BY DEF Enqueue
  <1>2. TypeOK /\ Ordered /\ lastId \in Nat
    BY <1>1 DEF LInv, TypeOK
  <1>3. nu \in Val /\ nu.id = lastId + 1
    <2>1. t \in Int
      BY LoopsAssumption
    <2>2. lastId + 1 \in Nat
      BY <1>2
    <2> QED
      BY <2>1, <2>2 DEF Val
  <1>4. q \in Seq(Val) /\ InOrder(q) /\ UpTo(q, lastId)
    <2>1. CASE n \in DOMAIN queue
      BY <1>2, <2>1, QueueTypes DEF QueueOf, Ordered
    <2>2. CASE n \notin DOMAIN queue
      BY <2>2 DEF QueueOf, InOrder, UpTo
    <2> QED
      BY <2>1, <2>2
  <1>5. \A o \in Allocated : n \in DOMAIN queue => Behind(o, n)
    BY <1>2 DEF Ordered
  <1> HIDE DEF nu
  <1>6. /\ Append(q, nu) \in Seq(Val)
        /\ DOMAIN Append(q, nu) = 1 .. Len(q) + 1 /\ Len(q) \in Nat
        /\ Append(q, nu)[Len(q) + 1] = nu
        /\ \A x \in 1 .. Len(q) : Append(q, nu)[x] = q[x] /\ x \in DOMAIN q
    BY <1>3, <1>4, AppendProperties
  <1>7. /\ DOMAIN queue' = DOMAIN queue \cup {n}
        /\ queue'[n] = Append(q, nu)
        /\ \A x \in DOMAIN queue : x # n => queue'[x] = queue[x]
    BY <1>1
  <1>8. TypeOK'
    <2>1. DOMAIN queue' \subseteq Names /\ queue' \in [DOMAIN queue' -> Seq(Val)]
      <3>1. DOMAIN queue \subseteq Names /\ queue \in [DOMAIN queue -> Seq(Val)]
        BY <1>2 DEF TypeOK
      <3> HIDE DEF q
      <3> QED
        BY <1>1, <1>6, <1>7, <3>1
    <2>2. lastId' \in Nat
      BY <1>1, <1>2
    <2>3. Allocated' = Allocated
      BY <1>1 DEF Allocated
    <2> HIDE DEF q
    <2> QED
      BY <1>1, <1>2, <2>1, <2>2, <2>3 DEF TypeOK
  <1> HIDE DEF q
  <1>9. \A x \in DOMAIN Append(q, nu) :
           x \in Nat /\ (x = Len(q) + 1 \/ x \in 1 .. Len(q))
    BY <1>6
  <1>10. \A x \in DOMAIN q : q[x].id \in Int
    BY <1>4, ValsAre
  <1>11. InOrder(Append(q, nu))
    <2> SUFFICES ASSUME NEW x \in DOMAIN Append(q, nu),
                        NEW y \in DOMAIN Append(q, nu), x < y
                 PROVE  Append(q, nu)[x].id < Append(q, nu)[y].id
      BY DEF InOrder
    <2>1. x \in 1 .. Len(q)
      BY <1>6, <1>9
    <2>2. CASE y \in 1 .. Len(q)
      BY <1>4, <1>6, <2>1, <2>2 DEF InOrder
    <2>3. CASE y = Len(q) + 1
      <3>1. /\ Append(q, nu)[x] = q[x] /\ q[x].id \in Int
            /\ q[x].id <= lastId
        BY <1>4, <1>6, <1>10, <2>1 DEF UpTo
      <3>2. Append(q, nu)[y].id = lastId + 1
        BY <1>3, <1>6, <2>3
      <3> QED
        BY <1>2, <3>1, <3>2
    <2> QED
      BY <1>9, <2>2, <2>3
  <1>12. \A s \in Seq(Val) : UpTo(s, lastId) => UpTo(s, lastId + 1)
    BY <1>2, LaterIds
  <1>13. UpTo(Append(q, nu), lastId + 1)
    <2>1. UpTo(q, lastId + 1)
      BY <1>4, <1>12
    <2> QED
      BY <1>2, <1>3, <1>4, <1>6, <1>9, <2>1 DEF UpTo
  <1>14. ASSUME NEW o \in Allocated, NEW m \in Names
         PROVE  /\ taken[o][m] \in Seq(Val)
                /\ InOrder(taken[o][m]) /\ UpTo(taken[o][m], lastId)
                /\ m \in DOMAIN queue => Behind(o, m)
    BY <1>2, TakenTypes DEF Ordered
  <1>15. ASSUME NEW o \in Allocated, NEW m \in DOMAIN queue'
         PROVE  Behind(o, m)'
    <2>1. CASE m # n
      BY <1>1, <1>2, <1>7, <1>14, <2>1 DEF Behind, Older, TypeOK
    <2>2. CASE m = n
      <3> SUFFICES ASSUME NEW x \in DOMAIN Append(q, nu),
                          NEW y \in DOMAIN taken[o][n],
                          Older(Append(q, nu)[x], stamp[o])
                   PROVE  taken[o][n][y].id < Append(q, nu)[x].id
        BY <1>1, <1>7, <2>2 DEF Behind, Older
      <3>0. taken[o][n][y].id \in Int
        BY <1>14, ValsAre
      <3>1. CASE x = Len(q) + 1
        <4>1. taken[o][n][y].id <= lastId
          BY <1>14 DEF UpTo
        <4>2. Append(q, nu)[x].id = lastId + 1
          BY <1>3, <1>6, <3>1
        <4> QED
          BY <1>2, <3>0, <4>1, <4>2
      <3>2. CASE x \in 1 .. Len(q)
        <4>1. n \in DOMAIN queue /\ q = queue[n]
          BY <1>6, <3>2 DEF q, QueueOf
        <4> QED
          BY <1>5, <1>6, <3>2, <4>1 DEF Behind
      <3> QED
        BY <1>9, <3>1, <3>2
    <2> QED
      BY <2>1, <2>2
  <1>16. Ordered'
    <2>1. \A m \in DOMAIN queue' : InOrder(queue'[m]) /\ UpTo(queue'[m], lastId')
      <3> TAKE m \in DOMAIN queue'
      <3>1. CASE m = n
        BY <1>1, <1>7, <1>11, <1>13, <3>1
      <3>2. CASE m # n
        BY <1>1, <1>2, <1>7, <1>12, <3>2 DEF Ordered, TypeOK
      <3> QED
        BY <3>1, <3>2
    <2>2. \A o \in Allocated, m \in Names :
             InOrder(taken[o][m]) /\ UpTo(taken[o][m], lastId')
      BY <1>1, <1>12, <1>14
    <2>3. Allocated' = Allocated /\ taken' = taken
      BY <1>1 DEF Allocated
    <2>4. DOMAIN queue' \subseteq Names
      BY <1>8 DEF TypeOK
    <2>5. \A m \in DOMAIN queue' : InOrder(queue[m])' /\ UpTo(queue[m], lastId)'
      BY <2>1 DEF InOrder, UpTo
    <2>6. \A o \in Allocated', m \in Names :
             /\ InOrder(taken[o][m])' /\ UpTo(taken[o][m], lastId)'
             /\ m \in DOMAIN queue' => Behind(o, m)'
      BY <1>15, <2>2, <2>3 DEF InOrder, UpTo
    <2> QED
      BY <2>5, <2>6 DEF Ordered
  <1>17. (InRoom /\ InMatch /\ InDrop /\ Dropping)'
    <2>1. pc' = "idle" /\ Dropping
      BY <1>1 DEF LInv
    <2>2. name = "" /\ values = <<>> /\ size = 0
      BY <1>1, <2>1 DEF Dropping
    <2>3. Dropping'
      BY <1>1, <2>2 DEF Dropping, loopVars
    <2> QED
      BY <2>1, <2>3 DEF InRoom, InMatch, InDrop
  <1> QED
    BY <1>8, <1>16, <1>17 DEF LInv

LEMMA BeginL ==
    ASSUME LInv, NEW t \in Stamps, Begin(t)
    PROVE  LInv'
  <1> DEFINE none == [n \in Names |-> <<>>]
  <1>1. /\ pc = "idle" /\ pc' = "room"
        /\ stamp' = Append(stamp, t) /\ taken' = Append(taken, none)
        /\ validOfs' = IF StatsDepth > 0 /\ Len(list) = StatsDepth THEN 1 ELSE 0
        /\ UNCHANGED <<list, queue, i, names, name, values, size, k, lastId>>
    BY DEF Begin
  <1>2. TypeOK /\ Ordered
    BY DEF LInv
  <1>3. t \in Int
    BY LoopsAssumption
  <1>4. /\ stamp \in Seq(Int) /\ Len(stamp) \in Nat /\ Len(taken) = Len(stamp)
        /\ taken \in Seq([Names -> Seq(Val)]) /\ list \in Seq(Allocated)
    BY <1>2 DEF TypeOK
  <1>5. none \in [Names -> Seq(Val)]
    OBVIOUS
  <1>6. /\ stamp' \in Seq(Int) /\ Len(stamp') = Len(stamp) + 1
        /\ \A o \in Allocated : stamp'[o] = stamp[o]
    BY <1>1, <1>3, <1>4, AppendProperties DEF Allocated
  <1> HIDE DEF none
  <1>7. /\ taken' \in Seq([Names -> Seq(Val)]) /\ Len(taken') = Len(taken) + 1
        /\ taken'[Len(taken) + 1] = none
        /\ \A o \in Allocated : taken'[o] = taken[o]
    BY <1>1, <1>4, <1>5, AppendProperties DEF Allocated
  <1>8. Allocated' = Allocated \cup {Len(stamp) + 1}
    BY <1>4, <1>6 DEF Allocated
  <1>9. TypeOK'
    <2>1. list' \in Seq(Allocated')
      BY <1>1, <1>4, <1>8
    <2>2. pc' \in {"idle", "room", "match", "drop"}
      BY <1>1
    <2> QED
      BY <1>1, <1>2, <1>4, <1>6, <1>7, <2>1, <2>2 DEF TypeOK
  <1>10. ASSUME NEW o \in Allocated', NEW n \in Names
         PROVE  /\ InOrder(taken[o][n])' /\ UpTo(taken[o][n], lastId)'
                /\ n \in DOMAIN queue' => Behind(o, n)'
    <2>1. CASE o \in Allocated
      <3>1. /\ InOrder(taken[o][n]) /\ UpTo(taken[o][n], lastId)
            /\ n \in DOMAIN queue => Behind(o, n)
        BY <1>2, <2>1 DEF Ordered
      <3>2. /\ taken'[o] = taken[o] /\ stamp'[o] = stamp[o]
            /\ queue' = queue /\ lastId' = lastId
        BY <1>1, <1>6, <1>7, <2>1
      <3> QED
        BY <3>1, <3>2 DEF InOrder, UpTo, Behind, Older
    <2>2. CASE o = Len(stamp) + 1
      <3>1. taken'[o][n] = <<>> /\ DOMAIN taken'[o][n] = {}
        BY <1>4, <1>7, <2>2 DEF none
      <3> QED
        BY <3>1 DEF InOrder, UpTo, Behind
    <2> QED
      BY <1>8, <2>1, <2>2
  <1>11. Ordered'
    <2>1. \A n \in DOMAIN queue' : InOrder(queue[n])' /\ UpTo(queue[n], lastId)'
      BY <1>1, <1>2 DEF Ordered, InOrder, UpTo
    <2> QED
      BY <1>10, <2>1 DEF Ordered
  <1>12. InRoom'
    <2>1. /\ list' = list /\ Len(list) \in Nat /\ Len(stamp') # 0
          /\ (StatsDepth > 0 /\ Len(list) = StatsDepth => 1 \in 0 .. Len(list))
          /\ 0 \in 0 .. Len(list)
      BY <1>1, <1>4, <1>6
    <2> QED
      BY <1>1, <2>1 DEF InRoom
  <1>13. Dropping'
    <2>1. name = "" /\ values = <<>> /\ size = 0
      BY <1>1 DEF LInv, Dropping
    <2> QED
      BY <1>1, <2>1 DEF Dropping
  <1>14. InMatch' /\ InDrop'
    BY <1>1 DEF InMatch, InDrop
  <1> QED
    BY <1>9, <1>11, <1>12, <1>13, <1>14 DEF LInv

(* A step that ends no name and starts none.                               *)
LEMMA NotDropping ==
    ASSUME Dropping, pc # "drop", UNCHANGED <<name, values, size>>
    PROVE  Dropping'
  <1>1. name = "" /\ values = <<>> /\ size = 0
    BY DEF Dropping
  <1> QED
    BY <1>1 DEF Dropping

LEMMA SkipExpiredL ==
    ASSUME LInv, SkipExpired
    PROVE  LInv'
  <1>1. /\ pc = "room" /\ pc' = "room" /\ ~InSpan /\ validOfs' = validOfs + 1
        /\ list' = list /\ Steady /\ UNCHANGED <<name, values, size>>
    BY DEF SkipExpired, Steady
  <1>2. TypeOK /\ Ordered /\ InRoom /\ Dropping
    BY DEF LInv
  <1>3. TypeOK' /\ Ordered'
    <2>1. pc' \in {"idle", "room", "match", "drop"}
      BY <1>1
    <2> QED
      BY <1>1, <1>2, <2>1, SteadyTypes, SteadyOrder
  <1>4. InRoom'
    <2>1. validOfs < Len(list)
      BY <1>1 DEF InSpan
    <2>2. /\ validOfs \in 0 .. Len(list) /\ Len(stamp) # 0
          /\ Len(list) \in Nat /\ stamp' = stamp
      BY <1>1, <1>2 DEF InRoom, TypeOK, Steady
    <2>3. validOfs' \in 0 .. Len(list')
      BY <1>1, <2>1, <2>2
    <2> QED
      BY <2>2, <2>3 DEF InRoom
  <1>5. Dropping'
    BY <1>1, <1>2, NotDropping
  <1>6. InMatch' /\ InDrop'
    BY <1>1 DEF InMatch, InDrop
  <1> QED
    BY <1>3, <1>4, <1>5, <1>6 DEF LInv

LEMMA MakeRoomL ==
    ASSUME LInv, MakeRoom
    PROVE  LInv'
  <1> DEFINE kept == CopyDown(list, validOfs)
  <1>1. /\ pc = "room" /\ pc' = "match" /\ list' = Append(kept, Nu)
        /\ i' = 1 /\ names' = DOMAIN queue
        /\ Steady /\ UNCHANGED <<name, values, size>>
    BY DEF MakeRoom, Steady
  <1>2. TypeOK /\ Ordered /\ InRoom /\ Dropping
    BY DEF LInv
  <1>3. /\ list \in Seq(Allocated) /\ Len(list) \in Nat
        /\ validOfs \in 0 .. Len(list) /\ Len(stamp) \in Nat /\ Len(stamp) # 0
    BY <1>1, <1>2 DEF TypeOK, InRoom
  <1>4. \A a, b \in Nat : a >= 1 /\ b <= Len(list)
                            => SubSeq(list, a, b) \in Seq(Allocated)
    <2> TAKE a, b \in Nat
    <2> HAVE a >= 1 /\ b <= Len(list)
    <2>1. \A x \in a .. b : list[x] \in Allocated
      <3>1. \A x \in a .. b : x \in 1 .. Len(list)
        BY <1>3
      <3> QED
        BY <1>3, <3>1, ElementOfSeq
    <2> QED
      BY <1>3, <2>1, SubSeqProperties
  <1>5. kept \in Seq(Allocated)
    <2>1. /\ validOfs + 1 \in Nat /\ validOfs + 1 >= 1
          /\ Len(list) - validOfs + 1 \in Nat /\ Len(list) - validOfs + 1 >= 1
          /\ Len(list) <= Len(list)
      BY <1>3
    <2>2. /\ SubSeq(list, validOfs + 1, Len(list)) \in Seq(Allocated)
          /\ SubSeq(list, Len(list) - validOfs + 1, Len(list)) \in Seq(Allocated)
      BY <1>3, <1>4, <2>1
    <2> QED
      BY <2>2, ConcatProperties DEF CopyDown
  <1> HIDE DEF kept
  <1>6. Allocated' = Allocated /\ Nu \in Allocated
    BY <1>1, <1>3 DEF Steady, Allocated, Nu
  <1>7. list' \in Seq(Allocated') /\ Len(list') \in Nat /\ Len(list') >= 1
    BY <1>1, <1>5, <1>6, AppendProperties
  <1>8. TypeOK' /\ Ordered'
    <2>1. pc' \in {"idle", "room", "match", "drop"}
      BY <1>1
    <2> QED
      BY <1>1, <1>2, <1>7, <2>1, SteadyOrder DEF TypeOK, Steady
  <1>9. InMatch'
    <2>1. i' \in 1 .. Len(list') /\ names' = DOMAIN queue'
      BY <1>1, <1>7 DEF Steady
    <2>2. \A n \in DOMAIN queue', j \in 1 .. Len(list') :
             ~(j < i' \/ (j = i' /\ n \notin names'))
      BY <1>1, <1>7, <2>1
    <2> QED
      BY <2>1, <2>2 DEF InMatch
  <1>10. Dropping'
    BY <1>1, <1>2, NotDropping
  <1>11. InRoom' /\ InDrop'
    BY <1>1 DEF InRoom, InDrop
  <1> QED
    BY <1>8, <1>9, <1>10, <1>11 DEF LInv

LEMMA MatchNameL ==
    ASSUME LInv, NEW n \in Names, MatchName(n)
    PROVE  LInv'
  <1> DEFINE ref == stamp[list[i]]
             left == Filtered(queue[n], ref)
             moved == Moved(queue[n], ref)
             obj == list[i]
             had == taken[obj][n]
  <1>1. /\ pc = "match" /\ pc' = "match" /\ n \in names /\ names' = names \ {n}
        /\ queue' = [queue EXCEPT ![n] = left]
        /\ taken' = [taken EXCEPT ![obj][n] = had \o moved]
        /\ UNCHANGED <<stamp, list, i, name, values, size, lastId>>
    BY DEF MatchName
  <1>2. TypeOK /\ Ordered /\ InMatch /\ Dropping
    BY DEF LInv
  <1>3. /\ i \in 1 .. Len(list) /\ names \subseteq DOMAIN queue
        /\ n \in DOMAIN queue
        /\ \A m \in DOMAIN queue, j \in 1 .. Len(list) :
              j < i \/ (j = i /\ m \notin names) => Cleared(m, j)
    BY <1>1, <1>2 DEF InMatch
  <1>4. /\ obj \in Allocated /\ queue[n] \in Seq(Val) /\ had \in Seq(Val)
        /\ taken[obj] \in [Names -> Seq(Val)] /\ obj \in DOMAIN taken
    <2>1. obj \in Allocated
      BY <1>2, <1>3, ElementOfSeq DEF TypeOK
    <2> QED
      BY <1>2, <1>3, <2>1, QueueTypes, TakenTypes
  <1>5. /\ InOrder(queue[n]) /\ UpTo(queue[n], lastId)
        /\ InOrder(had) /\ UpTo(had, lastId) /\ Behind(obj, n)
    BY <1>2, <1>3, <1>4 DEF Ordered
  <1>6. /\ left \in Seq(Val) /\ InOrder(left) /\ UpTo(left, lastId)
        /\ \A x \in DOMAIN left : /\ ~Older(left[x], ref)
                                  /\ \E y \in DOMAIN queue[n] : left[x] = queue[n][y]
    <2> DEFINE C == {v \in ToSet(queue[n]) : ~Older(v, ref)}
    <2>1. left = Sifted(queue[n], C) /\ \A v \in C : ~Older(v, ref)
      BY DEF Filtered
    <2> HIDE DEF C, left, obj, had, ref
    <2>2. /\ left \in Seq(Val) /\ InOrder(left) /\ UpTo(left, lastId)
          /\ \A x \in DOMAIN left :
                left[x] \in C /\ \E y \in DOMAIN queue[n] : left[x] = queue[n][y]
      BY <1>4, <1>5, <2>1, SiftedOrder
    <2> QED
      BY <2>1, <2>2
  <1>7. /\ moved \in Seq(Val) /\ InOrder(moved) /\ UpTo(moved, lastId)
        /\ \A x \in DOMAIN moved : /\ Older(moved[x], ref)
                                   /\ \E y \in DOMAIN queue[n] : moved[x] = queue[n][y]
    <2> DEFINE C == {v \in ToSet(queue[n]) : Older(v, ref)}
    <2>1. moved = Sifted(queue[n], C) /\ \A v \in C : Older(v, ref)
      BY DEF Moved
    <2> HIDE DEF C, moved, obj, had, ref
    <2>2. /\ moved \in Seq(Val) /\ InOrder(moved) /\ UpTo(moved, lastId)
          /\ \A x \in DOMAIN moved :
                moved[x] \in C /\ \E y \in DOMAIN queue[n] : moved[x] = queue[n][y]
      BY <1>4, <1>5, <2>1, SiftedOrder
    <2> QED
      BY <2>1, <2>2
  <1>8. \A y \in DOMAIN had, x \in DOMAIN moved : had[y].id < moved[x].id
    BY <1>5, <1>7 DEF Behind
  <1> HIDE DEF left, moved, obj, had, ref
  <1>9. /\ InOrder(had \o moved) /\ UpTo(had \o moved, lastId)
        /\ had \o moved \in Seq(Val)
    BY <1>4, <1>5, <1>7, <1>8, OrderConcat
  <1>10. /\ DOMAIN queue' = DOMAIN queue /\ queue'[n] = left
         /\ \A m \in DOMAIN queue : m # n => queue'[m] = queue[m]
    BY <1>1, <1>3
  <1>11. /\ DOMAIN taken' = DOMAIN taken
         /\ taken'[obj] = [taken[obj] EXCEPT ![n] = had \o moved]
         /\ \A o \in DOMAIN taken : o # obj => taken'[o] = taken[o]
    BY <1>1, <1>4
  <1>12. /\ taken'[obj] \in [Names -> Seq(Val)] /\ taken'[obj][n] = had \o moved
         /\ \A m \in Names : m # n => taken'[obj][m] = taken[obj][m]
    BY <1>4, <1>9, <1>11
  <1>13. TypeOK'
    <2>1. taken' \in Seq([Names -> Seq(Val)]) /\ Len(taken') = Len(taken)
      <3> DEFINE F == [Names -> Seq(Val)]
                 h == [taken[obj] EXCEPT ![n] = had \o moved]
      <3>1. taken \in Seq(F) /\ obj \in 1 .. Len(taken)
        BY <1>2, <1>4 DEF TypeOK, Allocated
      <3>2. taken' = [taken EXCEPT ![obj] = h] /\ h \in F
        BY <1>1, <1>11, <1>12
      <3> HIDE DEF h, F
      <3>3. /\ [taken EXCEPT ![obj] = h] \in Seq(F)
            /\ Len([taken EXCEPT ![obj] = h]) = Len(taken)
        BY <3>1, <3>2, ExceptSeq
      <3>4. taken' \in Seq(F) /\ Len(taken') = Len(taken)
        BY <3>2, <3>3
      <3> QED
        BY <3>4 DEF F
    <2>2. DOMAIN queue' \subseteq Names /\ queue' \in [DOMAIN queue' -> Seq(Val)]
      BY <1>1, <1>2, <1>6, <1>10 DEF TypeOK
    <2>3. pc' \in {"idle", "room", "match", "drop"} /\ Allocated' = Allocated
      BY <1>1 DEF Allocated
    <2> QED
      BY <1>1, <1>2, <2>1, <2>2, <2>3 DEF TypeOK
  <1>14. ASSUME NEW o \in Allocated, NEW m \in Names
         PROVE  InOrder(taken'[o][m]) /\ UpTo(taken'[o][m], lastId)
    <2>1. InOrder(taken[o][m]) /\ UpTo(taken[o][m], lastId) /\ o \in DOMAIN taken
      BY <1>2, TakenTypes DEF Ordered
    <2>2. CASE o = obj /\ m = n
      BY <1>9, <1>12, <2>2
    <2>3. CASE ~(o = obj /\ m = n)
      <3>1. taken'[o][m] = taken[o][m]
        BY <1>11, <1>12, <2>1, <2>3
      <3> QED
        BY <2>1, <3>1
    <2> QED
      BY <2>2, <2>3
  <1>15. ASSUME NEW o \in Allocated, NEW m \in DOMAIN queue
         PROVE  Behind(o, m)'
    <2>1. Behind(o, m) /\ o \in DOMAIN taken /\ m \in Names
      BY <1>2, QueueTypes, TakenTypes DEF Ordered
    <2>2. CASE o = obj /\ m = n
      BY <1>1, <1>6, <1>10, <2>2 DEF Behind, Older, ref, obj
    <2>3. CASE ~(o = obj /\ m = n)
      <3>1. taken'[o][m] = taken[o][m]
        BY <1>11, <1>12, <2>1, <2>3
      <3>2. \A x \in DOMAIN queue'[m] :
               \E y \in DOMAIN queue[m] : queue'[m][x] = queue[m][y]
        <4>1. CASE m = n
          BY <1>6, <1>10, <4>1
        <4>2. CASE m # n
          BY <1>10, <4>2
        <4> QED
          BY <4>1, <4>2
      <3> QED
        BY <1>1, <2>1, <3>1, <3>2 DEF Behind, Older
    <2> QED
      BY <2>2, <2>3
  <1>16. Ordered'
    <2>1. \A m \in DOMAIN queue' : InOrder(queue'[m]) /\ UpTo(queue'[m], lastId)
      <3> TAKE m \in DOMAIN queue'
      <3>1. CASE m = n
        BY <1>6, <1>10, <3>1
      <3>2. CASE m # n
        BY <1>2, <1>10, <3>2 DEF Ordered
      <3> QED
        BY <3>1, <3>2
    <2>2. \A m \in DOMAIN queue' : InOrder(queue[m])' /\ UpTo(queue[m], lastId)'
      BY <1>1, <2>1 DEF InOrder, UpTo
    <2>3. Allocated' = Allocated
      BY <1>1 DEF Allocated
    <2>4. \A o \in Allocated', m \in Names :
             /\ InOrder(taken[o][m])' /\ UpTo(taken[o][m], lastId)'
             /\ m \in DOMAIN queue' => Behind(o, m)'
      BY <1>1, <1>10, <1>14, <1>15, <2>3 DEF InOrder, UpTo
    <2> QED
      BY <2>2, <2>4 DEF Ordered
  <1>17. InMatch'
    <2>1. ASSUME NEW m \in DOMAIN queue, NEW j \in 1 .. Len(list),
                 j < i \/ (j = i /\ m \notin names')
          PROVE  Cleared(m, j)'
      <3>1. CASE m # n
        <4>1. Cleared(m, j)
          BY <1>1, <1>3, <2>1, <3>1
        <4> QED
          BY <1>1, <1>10, <3>1, <4>1 DEF Cleared, Older
      <3>2. CASE m = n /\ j = i
        BY <1>1, <1>6, <1>10, <3>2 DEF Cleared, Older, ref
      <3>3. CASE m = n /\ j < i
        <4>1. Cleared(n, j)
          BY <1>3, <3>3
        <4> QED
          BY <1>1, <1>6, <1>10, <3>3, <4>1 DEF Cleared, Older
      <3> QED
        BY <2>1, <3>1, <3>2, <3>3
    <2>2. i' \in 1 .. Len(list') /\ names' \subseteq DOMAIN queue'
      BY <1>1, <1>3, <1>10
    <2> QED
      BY <1>1, <1>10, <2>1, <2>2 DEF InMatch
  <1>18. Dropping'
    BY <1>1, <1>2, NotDropping
  <1>19. InRoom' /\ InDrop'
    BY <1>1 DEF InRoom, InDrop
  <1> QED
    BY <1>13, <1>16, <1>17, <1>18, <1>19 DEF LInv

LEMMA NextObjectL ==
    ASSUME LInv, NextObject
    PROVE  LInv'
  <1>1. /\ pc = "match" /\ pc' = "match" /\ names = {} /\ i < Len(list)
        /\ i' = i + 1 /\ names' = DOMAIN queue
        /\ list' = list /\ Steady /\ UNCHANGED <<name, values, size>>
    BY DEF NextObject, LastMatched, Steady
  <1>2. TypeOK /\ Ordered /\ InMatch /\ Dropping
    BY DEF LInv
  <1>3. TypeOK' /\ Ordered'
    <2>1. pc' \in {"idle", "room", "match", "drop"}
      BY <1>1
    <2> QED
      BY <1>1, <1>2, <2>1, SteadyTypes, SteadyOrder
  <1>4. InMatch'
    <2>1. i \in 1 .. Len(list) /\ Len(list) \in Nat /\ queue' = queue
      BY <1>1, <1>2 DEF InMatch, TypeOK, Steady
    <2>2. i' \in 1 .. Len(list') /\ names' \subseteq DOMAIN queue'
      BY <1>1, <2>1
    <2>3. ASSUME NEW m \in DOMAIN queue', NEW j \in 1 .. Len(list'),
                 j < i' \/ (j = i' /\ m \notin names')
          PROVE  Cleared(m, j)'
      <3>1. (j < i \/ j = i) /\ m \in DOMAIN queue /\ j \in 1 .. Len(list)
        BY <1>1, <2>1, <2>3
      <3>2. Cleared(m, j)
        BY <1>1, <1>2, <3>1 DEF InMatch
      <3> QED
        BY <1>1, <3>2, SteadyClear
    <2> QED
      BY <2>2, <2>3 DEF InMatch
  <1>5. Dropping'
    BY <1>1, <1>2, NotDropping
  <1>6. InRoom' /\ InDrop'
    BY <1>1 DEF InRoom, InDrop
  <1> QED
    BY <1>3, <1>4, <1>5, <1>6 DEF LInv

LEMMA MatchDoneL ==
    ASSUME LInv, MatchDone
    PROVE  LInv'
  <1>1. /\ pc = "match" /\ pc' = "drop" /\ names = {} /\ i >= Len(list)
        /\ names' = DOMAIN queue
        /\ list' = list /\ Steady /\ UNCHANGED <<name, values, size>>
    BY DEF MatchDone, LastMatched, Steady
  <1>2. TypeOK /\ Ordered /\ InMatch /\ Dropping
    BY DEF LInv
  <1>3. TypeOK' /\ Ordered'
    <2>1. pc' \in {"idle", "room", "match", "drop"}
      BY <1>1
    <2> QED
      BY <1>1, <1>2, <2>1, SteadyTypes, SteadyOrder
  <1>4. InDrop'
    <2>1. i \in 1 .. Len(list) /\ Len(list) \in Nat /\ queue' = queue
      BY <1>1, <1>2 DEF InMatch, TypeOK, Steady
    <2>2. names' \subseteq DOMAIN queue' /\ Len(list') # 0
      BY <1>1, <2>1
    <2>3. ASSUME NEW m \in DOMAIN queue', NEW j \in 1 .. Len(list')
          PROVE  Cleared(m, j)'
      <3>1. (j < i \/ j = i) /\ m \in DOMAIN queue /\ j \in 1 .. Len(list)
        BY <1>1, <2>1, <2>3
      <3>2. Cleared(m, j)
        BY <1>1, <1>2, <3>1 DEF InMatch
      <3> QED
        BY <1>1, <3>2, SteadyClear
    <2> QED
      BY <2>2, <2>3 DEF InDrop
  <1>5. Dropping'
    BY <1>1, <1>2, NotDropping
  <1>6. InRoom' /\ InMatch'
    BY <1>1 DEF InRoom, InMatch
  <1> QED
    BY <1>3, <1>4, <1>5, <1>6 DEF LInv

(* While it drops, a step keeps the rest as long as the queues stay.       *)
LEMMA DroppingOn ==
    ASSUME LInv, pc = "drop", pc' = "drop", list' = list, Steady,
           names' \subseteq names
    PROVE  TypeOK' /\ Ordered' /\ InRoom' /\ InMatch' /\ InDrop'
  <1>1. TypeOK /\ Ordered /\ InDrop
    BY DEF LInv
  <1>2. TypeOK' /\ Ordered'
    <2>1. pc' \in {"idle", "room", "match", "drop"}
      OBVIOUS
    <2> QED
      BY <1>1, <2>1, SteadyTypes, SteadyOrder
  <1>3. InDrop'
    BY <1>1, SteadyClear DEF InDrop, Steady
  <1> QED
    BY <1>2, <1>3 DEF InRoom, InMatch

LEMMA DropNameL ==
    ASSUME LInv, NEW n \in Names, DropName(n)
    PROVE  LInv'
  <1>1. /\ pc = "drop" /\ pc' = "drop" /\ n \in names
        /\ name' = n /\ names' = names \ {n}
        /\ values' = queue[n] /\ size' = Len(queue[n]) /\ k' = 1
        /\ list' = list /\ Steady
    BY DEF DropName, Steady
  <1>2. TypeOK' /\ Ordered' /\ InRoom' /\ InMatch' /\ InDrop'
    <2>1. names' \subseteq names
      BY <1>1
    <2> QED
      BY <1>1, <2>1, DroppingOn
  <1>3. Dropping'
    <2>1. n \in DOMAIN queue /\ queue' = queue
      BY <1>1 DEF LInv, InDrop, Steady
    <2>2. name' # ""
      BY <1>1, LoopsAssumption
    <2>3. k' \in Nat \ {0}
      BY <1>1
    <2>4. /\ pc' = "drop" /\ name' \in DOMAIN queue'
          /\ values' = queue'[name'] /\ size' = Len(values')
      BY <1>1, <2>1
    <2> QED
      BY <2>2, <2>3, <2>4 DEF Dropping
  <1> QED
    BY <1>2, <1>3 DEF LInv

(* The values of the queue being ranged over are those of the queue.       *)
LEMMA Ranging ==
    ASSUME LInv, name # ""
    PROVE  /\ pc = "drop" /\ name \in DOMAIN queue /\ k \in Nat \ {0}
           /\ values = queue[name] /\ size = Len(values) /\ values \in Seq(Val)
  <1>1. TypeOK /\ Dropping
    BY DEF LInv
  <1>2. /\ pc = "drop" /\ name \in DOMAIN queue /\ k \in Nat \ {0}
        /\ values = queue[name] /\ size = Len(values)
    BY <1>1 DEF Dropping
  <1>3. values \in Seq(Val)
    BY <1>1, <1>2, QueueTypes
  <1> QED
    BY <1>2, <1>3

(* Once all objects were matched no queued value is older than the oldest. *)
LEMMA NoneTooOld ==
    ASSUME LInv, pc = "drop", NEW n \in DOMAIN queue, NEW x \in DOMAIN queue[n]
    PROVE  ~Older(queue[n][x], OldestStamp)
  <1>1. /\ TypeOK /\ Len(list) # 0
        /\ \A j \in 1 .. Len(list) : Cleared(n, j)
    BY DEF LInv, InDrop
  <1>2. PICK j \in 1 .. Len(list) : OldestStamp = stamp[list[j]]
    BY <1>1, OldestIsListed
  <1> QED
    BY <1>1, <1>2 DEF Cleared

LEMMA DropValueL ==
    ASSUME LInv, DropValue
    PROVE  LInv'
  <1>1. name # ""
    BY DEF DropValue
  <1>2. /\ pc = "drop" /\ pc' = "drop" /\ k <= Len(values) /\ k' = k + 1
        /\ values' = (IF TooOld THEN Shifted ELSE values)
        /\ size' = (IF TooOld THEN size - 1 ELSE size)
        /\ name' = name /\ names' = names /\ list' = list /\ Steady
    BY DEF DropValue, Steady
  <1>3. /\ name \in DOMAIN queue /\ k \in Nat \ {0}
        /\ values = queue[name] /\ size = Len(values) /\ values \in Seq(Val)
    BY <1>1, Ranging
  <1>4. ~TooOld
    <2>1. k \in DOMAIN queue[name]
      BY <1>2, <1>3
    <2>2. ~Older(queue[name][k], OldestStamp)
      BY <1>2, <1>3, <2>1, NoneTooOld
    <2> QED
      BY <1>3, <2>2 DEF TooOld
  <1>5. Dropping'
    <2>1. name' # ""
      BY <1>1, <1>2
    <2>2. k' \in Nat \ {0}
      BY <1>2, <1>3
    <2>3. /\ pc' = "drop" /\ name' \in DOMAIN queue'
          /\ values' = queue'[name'] /\ size' = Len(values')
      BY <1>2, <1>3, <1>4 DEF Steady
    <2> QED
      BY <2>1, <2>2, <2>3 DEF Dropping
  <1>6. TypeOK' /\ Ordered' /\ InRoom' /\ InMatch' /\ InDrop'
    <2>1. names' \subseteq names
      BY <1>2
    <2> QED
      BY <1>2, <2>1, DroppingOn
  <1> QED
    BY <1>5, <1>6 DEF LInv

LEMMA DropNameDoneL ==
    ASSUME LInv, DropNameDone
    PROVE  LInv'
  <1>1. name # ""
    BY DEF DropNameDone
  <1>2. /\ pc = "drop" /\ pc' = "drop"
        /\ queue' = [queue EXCEPT ![name] = SubSeq(values, 1, size)]
        /\ UNCHANGED <<stamp, taken, lastId>> /\ names' = names /\ list' = list
    BY DEF DropNameDone
  <1>3. /\ name \in DOMAIN queue /\ values = queue[name] /\ size = Len(values)
        /\ values \in Seq(Val) /\ TypeOK
    BY <1>1, Ranging DEF LInv
  <1>4. SubSeq(values, 1, size) = values
    BY <1>3
  <1>5. queue' = queue
    <2>1. queue \in [DOMAIN queue -> Seq(Val)]
      BY <1>3 DEF TypeOK
    <2> QED
      BY <1>2, <1>3, <1>4, <2>1
  <1>6. TypeOK' /\ Ordered' /\ InRoom' /\ InMatch' /\ InDrop'
    <2>1. names' \subseteq names /\ Steady
      BY <1>2, <1>5 DEF Steady
    <2> QED
      BY <1>2, <2>1, DroppingOn
  <1>7. Dropping'
    BY DEF DropNameDone, Dropping
  <1> QED
    BY <1>6, <1>7 DEF LInv

LEMMA EndL ==
    ASSUME LInv, End
    PROVE  LInv'
  <1>1. /\ pc' = "idle" /\ list' = list /\ Steady
    BY DEF End, Steady
  <1>2. Dropping'
    BY DEF End, Dropping, LInv
  <1>3. TypeOK' /\ Ordered'
    <2>1. pc' \in {"idle", "room", "match", "drop"}
      BY <1>1
    <2> QED
      BY <1>1, <2>1, SteadyTypes, SteadyOrder DEF LInv
  <1> QED
    BY <1>1, <1>2, <1>3 DEF LInv, InRoom, InMatch, InDrop

LEMMA RestartL ==
    ASSUME LInv, Restart
    PROVE  LInv'
  <1>1. TypeOK' /\ Ordered'
    <2>1. /\ stamp' = <<>> /\ list' = <<>> /\ lastId' = 0 /\ taken' = <<>>
          /\ queue' = [n \in {} |-> <<>>] /\ pc' = "idle"
      BY DEF Restart
    <2> QED
      BY <2>1, EmptyL
  <1>2. pc # "drop" /\ pc' = "idle" /\ UNCHANGED <<name, values, size>>
    BY DEF Restart, loopVars
  <1>3. Dropping'
    BY <1>2, NotDropping DEF LInv
  <1> QED
    BY <1>1, <1>2, <1>3 DEF LInv, InRoom, InMatch, InDrop

LEMMA StutterL ==
    ASSUME LInv, UNCHANGED vars
    PROVE  LInv'
  <1>1. Steady /\ list' = list /\ pc' = pc
    BY DEF vars, Steady
  <1>2. TypeOK /\ Ordered /\ InRoom /\ InMatch /\ InDrop /\ Dropping
    BY DEF LInv
  <1>3. TypeOK' /\ Ordered'
    <2>1. pc' \in {"idle", "room", "match", "drop"}
      BY <1>1, <1>2 DEF TypeOK
    <2> QED
      BY <1>1, <1>2, <2>1, SteadyTypes, SteadyOrder
  <1>4. InRoom' /\ Dropping'
    BY <1>2 DEF vars, loopVars, InRoom, Dropping
  <1>5. InMatch' /\ InDrop'
    BY <1>1, <1>2, SteadyClear DEF vars, loopVars, InMatch, InDrop
  <1> QED
    BY <1>3, <1>4, <1>5 DEF LInv

-----------------------------------------------------------------------------
(* Every step of the loops, of the batches between the merges and of a new *)
(* load of the plugin keeps the invariant: the queues and what the objects *)
(* took are in order, and the queues are clear of all that an object passed*)
(* so far could have taken.                                                *)
THEOREM LoopsStep == LInv /\ [Next]_vars => LInv'
  <1> SUFFICES ASSUME LInv, [Next]_vars PROVE LInv'
    OBVIOUS
  <1>1. CASE SkipExpired
    BY <1>1, SkipExpiredL
  <1>2. CASE MakeRoom
    BY <1>2, MakeRoomL
  <1>3. CASE NextObject
    BY <1>3, NextObjectL
  <1>4. CASE MatchDone
    BY <1>4, MatchDoneL
  <1>5. CASE DropValue
    BY <1>5, DropValueL
  <1>6. CASE DropNameDone
    BY <1>6, DropNameDoneL
  <1>7. CASE End
    BY <1>7, EndL
  <1>8. CASE \E n \in Names : MatchName(n) \/ DropName(n)
    BY <1>8, MatchNameL, DropNameL
  <1>9. CASE \E n \in Names, t \in Times : Enqueue(n, t)
    BY <1>9, EnqueueL
  <1>10. CASE \E t \in Stamps : Begin(t)
    BY <1>10, BeginL
  <1>11. CASE Restart
    BY <1>11, RestartL
  <1>12. CASE UNCHANGED vars
    BY <1>12, StutterL
  <1> QED
    BY <1>1, <1>2, <1>3, <1>4, <1>5, <1>6, <1>7, <1>8, <1>9, <1>10, <1>11,
       <1>12 DEF Next, Loops, Outside

(* The invariant of the loops holds in every merge, however many follow    *)
(* each other.                                                             *)
THEOREM LoopsInvariant == Spec => []LInv
  <1>1. Init => LInv
    BY InitL
  <1>2. LInv /\ [Next]_vars => LInv'
    BY LoopsStep
  <1> QED
    BY <1>1, <1>2, PTL DEF Spec

(* dropTooOldPendingMetrics, which deletes from the slice it ranges over,  *)
(* never deletes: mergePendingMetrics left nothing older than an object.   *)
THEOREM DropsNothing == Spec => []NothingToDrop
  <1>1. LInv => NothingToDrop
    <2> SUFFICES ASSUME LInv, pc = "drop"
                 PROVE  /\ \A n \in names : \A x \in DOMAIN queue[n] :
                              ~Older(queue[n][x], OldestStamp)
                        /\ size = Len(values)
      BY DEF NothingToDrop
    <2>1. names \subseteq DOMAIN queue
      BY DEF LInv, InDrop
    <2>2. size = Len(values)
      <3>1. CASE name # ""
        BY <3>1, Ranging
      <3>2. CASE name = ""
        <4>1. values = <<>> /\ size = 0
          BY <3>2 DEF LInv, Dropping
        <4> QED
          BY <4>1
      <3> QED
        BY <3>1, <3>2
    <2> QED
      BY <2>1, <2>2, NoneTooOld
  <1> QED
    BY <1>1, LoopsInvariant, PTL

(* The values of a name stay in the order in which they came, in the queue *)
(* and in every object, whatever moves them and however many merges add to *)
(* the same object.                                                        *)
THEOREM OrderKept == Spec => []ArrivalOrder
  <1>1. LInv => ArrivalOrder
    <2> SUFFICES ASSUME LInv PROVE ArrivalOrder
      OBVIOUS
    <2>1. TypeOK /\ Ordered
      BY DEF LInv
    <2>2. DOMAIN taken = Allocated
      BY <2>1 DEF TypeOK, Allocated
    <2> QED
      BY <2>1, <2>2 DEF Ordered, ArrivalOrder
  <1> QED
    BY <1>1, LoopsInvariant, PTL

-----------------------------------------------------------------------------
(* The refinement.  A merge is compared with the state it began in: what is*)
(* left of each queue, what each object got, and where the list is.        *)

(* The entries of the list that the values of n have been held against.    *)
Passed(n) ==
    IF pc = "drop" THEN Len(list)
    ELSE IF pc = "match" THEN IF n \in names THEN i - 1 ELSE i
    ELSE 0

LaterAt(v, j) == Older(v, stamp[list[j]])

FirstAt(v, j) == LaterAt(v, j) /\ \A x \in 1 .. j - 1 : ~LaterAt(v, x)

(* Values of n that waited when the merge began: those no entry up to y is *)
(* later than, and those whose first later entry, up to y, is object o.    *)
Waiting(n, y) ==
    {v \in ToSet(start.queue[n]) : \A j \in 1 .. y : ~LaterAt(v, j)}

GoneTo(o, n, y) ==
    {v \in ToSet(start.queue[n]) : \E j \in 1 .. y : list[j] = o /\ FirstAt(v, j)}

Got(o, n) ==
    ToSet(start.taken[o][n]) \cup
        (IF n \in DOMAIN queue THEN GoneTo(o, n, Passed(n)) ELSE {})

Handed ==
    pc # "idle" =>
        /\ DOMAIN start.queue = DOMAIN queue /\ DOMAIN start.taken = Allocated
        /\ \A n \in DOMAIN queue : ToSet(queue[n]) = Waiting(n, Passed(n))
        /\ \A o \in Allocated, n \in Names : ToSet(taken[o][n]) = Got(o, n)

(* What makeRoomForStats wants gone of the list the merge began with.      *)
AtDepth == StatsDepth > 0 /\ Len(start.list) = StatsDepth

Leaves(j) ==
    \/ j = 1 /\ AtDepth
    \/ StatsSpan > 0 /\ stamp[Nu] - stamp[start.list[j]] > StatsSpan

RoomMade ==
    pc # "idle" =>
        /\ start.list \in Seq(Allocated) /\ Len(stamp) # 0
        /\ validOfs \in 0 .. Len(start.list)
        /\ \A j \in 1 .. validOfs : Leaves(j)
        /\ AtDepth => validOfs # 0
        /\ pc = "room" => list = start.list
        /\ pc # "room" =>
              /\ list = Append(CopyDown(start.list, validOfs), Nu)
              /\ validOfs < Len(start.list) => ~Leaves(validOfs + 1)

(* What waited when the merge began were values of this container.         *)
StartTyped ==
    pc # "idle" => \A n \in DOMAIN start.queue : ToSet(start.queue[n]) \subseteq Val

MInv == LInv /\ Handed /\ RoomMade /\ StartTyped

(* A pass over a queue, and appending, as sets of values.                  *)
LEMMA SiftedSet ==
    ASSUME NEW q \in Seq(Val), NEW C
    PROVE  ToSet(Sifted(q, C)) = ToSet(q) \cap C
  <1> DEFINE w == Sifted(q, C)
             D == Chosen(q, C, Len(q))
  <1>1. w \in Seq(Val) /\ \E f : SiftedBy(q, C, w, f)
    BY SiftedTakes
  <1> HIDE DEF w
  <1>2. PICK f : SiftedBy(q, C, w, f)
    BY <1>1
  <1>3. /\ DOMAIN w = 1 .. Len(w) /\ Len(q) \in Nat /\ DOMAIN q = 1 .. Len(q)
        /\ D = {x \in DOMAIN q : q[x] \in C}
    BY <1>1 DEF Chosen
  <1>4. \A x \in DOMAIN w : f[x] \in D /\ w[x] = q[f[x]]
    BY <1>2, <1>3 DEF SiftedBy, TakenFrom
  <1>5. \A y \in D : \E x \in DOMAIN w : f[x] = y
    BY <1>2, <1>3 DEF SiftedBy, AllTaken
  <1>6. \A v : v \in ToSet(w) <=> \E x \in DOMAIN w : v = w[x]
    BY DEF ToSet
  <1>7. \A v : v \in ToSet(q) <=> \E x \in DOMAIN q : v = q[x]
    BY DEF ToSet
  <1>8. ToSet(w) \subseteq ToSet(q) \cap C
    BY <1>3, <1>4, <1>6, <1>7
  <1>9. ASSUME NEW v \in ToSet(q) \cap C PROVE v \in ToSet(w)
    <2>1. PICK y \in DOMAIN q : v = q[y]
      BY <1>7
    <2>2. y \in D
      BY <1>3, <1>9, <2>1
    <2>3. PICK x \in DOMAIN w : f[x] = y
      BY <1>5, <2>2
    <2> QED
      BY <1>4, <1>6, <2>1, <2>3
  <1> QED
    BY <1>8, <1>9 DEF w

LEMMA ConcatSet ==
    ASSUME NEW s \in Seq(Val), NEW t \in Seq(Val)
    PROVE  ToSet(s \o t) = ToSet(s) \cup ToSet(t)
  <1> DEFINE u == s \o t
             l == Len(s)
  <1>1. /\ DOMAIN u = 1 .. l + Len(t) /\ l \in Nat /\ Len(t) \in Nat
        /\ DOMAIN s = 1 .. l /\ DOMAIN t = 1 .. Len(t)
        /\ \A x \in 1 .. l : u[x] = s[x]
        /\ \A x \in 1 .. Len(t) : u[x + l] = t[x]
    BY ConcatProperties
  <1> HIDE DEF u, l
  <1>2. \A x \in DOMAIN u : x \in DOMAIN s \/ (x - l \in DOMAIN t /\ (x - l) + l = x)
    BY <1>1
  <1>3. \A x \in DOMAIN s : x \in DOMAIN u
    BY <1>1
  <1>4. \A x \in DOMAIN t : x + l \in DOMAIN u
    BY <1>1
  <1>5. \A v : v \in ToSet(u) <=> \E x \in DOMAIN u : v = u[x]
    BY DEF ToSet
  <1>6. \A v : v \in ToSet(s) <=> \E x \in DOMAIN s : v = s[x]
    BY DEF ToSet
  <1>7. \A v : v \in ToSet(t) <=> \E x \in DOMAIN t : v = t[x]
    BY DEF ToSet
  <1>8. ToSet(u) \subseteq ToSet(s) \cup ToSet(t)
    <2> SUFFICES ASSUME NEW v \in ToSet(u) PROVE v \in ToSet(s) \cup ToSet(t)
      OBVIOUS
    <2>1. PICK x \in DOMAIN u : v = u[x]
      BY <1>5
    <2>2. CASE x \in DOMAIN s
      BY <1>1, <1>6, <2>1, <2>2
    <2>3. CASE x - l \in DOMAIN t /\ (x - l) + l = x
      BY <1>1, <1>7, <2>1, <2>3
    <2> QED
      BY <1>2, <2>2, <2>3
  <1>9. ToSet(s) \subseteq ToSet(u)
    BY <1>1, <1>3, <1>5, <1>6
  <1>10. ToSet(t) \subseteq ToSet(u)
    BY <1>1, <1>4, <1>5, <1>7
  <1> QED
    BY <1>8, <1>9, <1>10 DEF u

(* Steps that move no value and no entry of the list.                      *)
Still == UNCHANGED <<start, stamp, list, queue, taken>>

LEMMA SameWaiting ==
    ASSUME UNCHANGED <<start, stamp, list>>
    PROVE  /\ \A n, y : Waiting(n, y)' = Waiting(n, y)
           /\ \A o, n, y : GoneTo(o, n, y)' = GoneTo(o, n, y)
  <1>1. \A v, j : LaterAt(v, j)' = LaterAt(v, j)
    BY DEF LaterAt, Older
  <1>2. \A v, j : FirstAt(v, j)' = FirstAt(v, j)
    BY <1>1 DEF FirstAt
  <1>3. \A n, y : Waiting(n, y)' = Waiting(n, y)
    BY <1>1 DEF Waiting
  <1>4. \A o, n, y : GoneTo(o, n, y)' = GoneTo(o, n, y)
    BY <1>2 DEF GoneTo
  <1> QED
    BY <1>3, <1>4

LEMMA HandedStill ==
    ASSUME Handed, pc # "idle", Still,
           \A n \in DOMAIN queue : Passed(n)' = Passed(n)
    PROVE  Handed'
  <1>1. UNCHANGED <<start, stamp, list>> /\ queue' = queue /\ taken' = taken
    BY DEF Still
  <1>2. /\ DOMAIN start'.queue = DOMAIN queue'
        /\ DOMAIN start'.taken = Allocated'
    BY <1>1 DEF Handed, Allocated
  <1>3. ASSUME NEW n \in DOMAIN queue
        PROVE  ToSet(queue'[n]) = Waiting(n, Passed(n))'
    <2>1. ToSet(queue[n]) = Waiting(n, Passed(n))
      BY DEF Handed
    <2> QED
      BY <1>1, <2>1, SameWaiting
  <1>4. ASSUME NEW o \in Allocated, NEW n \in Names
        PROVE  ToSet(taken'[o][n]) = Got(o, n)'
    <2>1. ToSet(taken[o][n]) = Got(o, n)
      BY DEF Handed
    <2>2. n \in DOMAIN queue => GoneTo(o, n, Passed(n))' = GoneTo(o, n, Passed(n))
      BY <1>1, SameWaiting
    <2> QED
      BY <1>1, <2>1, <2>2 DEF Got
  <1>5. Allocated' = Allocated
    BY <1>1 DEF Allocated
  <1> QED
    BY <1>1, <1>2, <1>3, <1>4, <1>5 DEF Handed

LEMMA RoomStill ==
    ASSUME RoomMade, pc # "idle", pc # "room", pc' # "room",
           UNCHANGED <<start, stamp, list, validOfs>>
    PROVE  RoomMade'
  <1>1. Allocated' = Allocated /\ Nu' = Nu /\ AtDepth' = AtDepth
    BY DEF Allocated, Nu, AtDepth
  <1>2. \A j : Leaves(j)' = Leaves(j)
    BY <1>1 DEF Leaves
  <1> QED
    BY <1>1, <1>2 DEF RoomMade

(* Between two merges nothing is handed out.                               *)
LEMMA HandedIdle ==
    ASSUME pc' = "idle"
    PROVE  Handed' /\ RoomMade'
  BY DEF Handed, RoomMade

LEMMA NoneYet ==
    /\ \A n : Waiting(n, 0) = ToSet(start.queue[n])
    /\ \A n : Waiting(n, 0)' = ToSet(start'.queue[n])
    /\ \A o, n : GoneTo(o, n, 0) = {}
    /\ \A o, n : GoneTo(o, n, 0)' = {}
  <1>1. 1 .. 0 = {}
    OBVIOUS
  <1> QED
    BY <1>1 DEF Waiting, GoneTo

LEMMA BeginM ==
    ASSUME MInv, LInv', NEW t \in Stamps, Begin(t)
    PROVE  Handed' /\ RoomMade'
  <1>1. /\ pc = "idle" /\ pc' = "room" /\ list' = list /\ queue' = queue
        /\ start' = [list |-> list, queue |-> queue, taken |-> taken']
        /\ validOfs' = IF StatsDepth > 0 /\ Len(list) = StatsDepth THEN 1 ELSE 0
    BY DEF Begin
  <1>2. /\ start'.list = list' /\ start'.queue = queue' /\ start'.taken = taken'
    BY <1>1
  <1>3. TypeOK' /\ InRoom' /\ Len(list) \in Nat
    BY DEF MInv, LInv, TypeOK
  <1>4. \A n : Passed(n)' = 0
    BY <1>1 DEF Passed
  <1>5. DOMAIN taken' = Allocated'
    BY <1>3 DEF TypeOK, Allocated
  <1>6. \A n \in DOMAIN queue' : ToSet(queue'[n]) = Waiting(n, Passed(n))'
    BY <1>2, <1>4, NoneYet
  <1>7. \A o \in Allocated', n \in Names : ToSet(taken'[o][n]) = Got(o, n)'
    <2>1. \A o, n : GoneTo(o, n, Passed(n))' = {}
      BY <1>4, NoneYet
    <2> QED
      BY <1>2, <2>1 DEF Got
  <1>8. Handed'
    BY <1>2, <1>5, <1>6, <1>7 DEF Handed
  <1>9. RoomMade'
    <2>1. start'.list \in Seq(Allocated') /\ Len(stamp') # 0
      BY <1>1, <1>2, <1>3 DEF TypeOK, InRoom
    <2>2. validOfs' \in 0 .. Len(start'.list)
      BY <1>1, <1>2, <1>3 DEF InRoom
    <2>3. AtDepth' <=> StatsDepth > 0 /\ Len(list) = StatsDepth
      BY <1>1, <1>2 DEF AtDepth
    <2>4. AtDepth' => validOfs' # 0
      BY <1>1, <2>3
    <2>5. \A j \in 1 .. validOfs' : Leaves(j)'
      <3> TAKE j \in 1 .. validOfs'
      <3>1. AtDepth' /\ j = 1
        BY <1>1, <2>3
      <3> QED
        BY <3>1 DEF Leaves
    <2> QED
      BY <1>1, <1>2, <2>1, <2>2, <2>4, <2>5 DEF RoomMade
  <1> QED
    BY <1>8, <1>9

LEMMA SkipExpiredM ==
    ASSUME MInv, SkipExpired
    PROVE  Handed' /\ RoomMade'
  <1>1. /\ pc = "room" /\ pc' = "room" /\ ~InSpan /\ validOfs' = validOfs + 1
        /\ Still
    BY DEF SkipExpired, Still
  <1>2. Handed'
    <2>1. \A n : Passed(n)' = Passed(n)
      BY <1>1 DEF Passed
    <2>2. Handed /\ pc # "idle"
      BY <1>1 DEF MInv
    <2> QED
      BY <1>1, <2>1, <2>2, HandedStill
  <1>3. /\ start.list \in Seq(Allocated) /\ Len(stamp) # 0
        /\ validOfs \in 0 .. Len(start.list) /\ Len(start.list) \in Nat
        /\ \A j \in 1 .. validOfs : Leaves(j)
        /\ list = start.list
    BY <1>1 DEF MInv, RoomMade
  <1>4. Allocated' = Allocated /\ Nu' = Nu /\ AtDepth' = AtDepth
    BY <1>1 DEF Allocated, Nu, AtDepth, Still
  <1>5. \A j : Leaves(j)' = Leaves(j)
    BY <1>1, <1>4 DEF Leaves, Still
  <1>6. validOfs < Len(list) /\ Leaves(validOfs + 1)
    <2>1. TypeOK
      BY DEF MInv, LInv
    <2>2. /\ StatsSpan > 0 /\ validOfs < Len(list)
          /\ ~(stamp[Nu] - stamp[list[validOfs + 1]] <= StatsSpan)
      BY <1>1 DEF InSpan
    <2>3. Nu \in Allocated /\ list[validOfs + 1] \in Allocated
      <3>1. validOfs + 1 \in 1 .. Len(list)
        BY <1>3, <2>2
      <3>2. Nu \in Allocated
        BY <1>3, <2>1 DEF Nu, Allocated, TypeOK
      <3> QED
        BY <1>3, <3>1, <3>2, ElementOfSeq
    <2>4. stamp[Nu] \in Int /\ stamp[list[validOfs + 1]] \in Int /\ StatsSpan \in Int
      <3>1. StatsSpan \in Int
        BY LoopsAssumption
      <3>2. \A o \in Allocated : stamp[o] \in Int
        BY <2>1, ElementOfSeq DEF TypeOK, Allocated
      <3> QED
        BY <2>3, <3>1, <3>2
    <2>5. stamp[Nu] - stamp[list[validOfs + 1]] > StatsSpan
      BY <2>2, <2>4
    <2> QED
      BY <1>3, <2>2, <2>5 DEF Leaves
  <1>7. RoomMade'
    <2>1. \A j \in 1 .. validOfs' : j \in 1 .. validOfs \/ j = validOfs + 1
      BY <1>1, <1>3
    <2>2. \A j \in 1 .. validOfs' : Leaves(j)'
      BY <1>3, <1>5, <1>6, <2>1
    <2>3. validOfs' \in 0 .. Len(start'.list) /\ validOfs' # 0
      BY <1>1, <1>3, <1>6 DEF Still
    <2> QED
      BY <1>1, <1>3, <1>4, <2>2, <2>3 DEF RoomMade, Still
  <1> QED
    BY <1>2, <1>7

LEMMA MakeRoomM ==
    ASSUME MInv, MakeRoom
    PROVE  Handed' /\ RoomMade'
  <1>1. /\ pc = "room" /\ pc' = "match" /\ InSpan
        /\ list' = Append(CopyDown(list, validOfs), Nu)
        /\ i' = 1 /\ names' = DOMAIN queue
        /\ UNCHANGED <<stamp, queue, taken, start, validOfs>>
    BY DEF MakeRoom
  <1>2. Handed /\ RoomMade /\ TypeOK
    BY DEF MInv, LInv
  <1>3. \A n : Passed(n) = 0
    BY <1>1 DEF Passed
  <1>4. \A n \in DOMAIN queue : Passed(n)' = 0
    BY <1>1 DEF Passed
  <1>5. Allocated' = Allocated /\ Nu' = Nu /\ AtDepth' = AtDepth
    BY <1>1 DEF Allocated, Nu, AtDepth
  <1>6. Handed'
    <2>1. /\ DOMAIN start'.queue = DOMAIN queue'
          /\ DOMAIN start'.taken = Allocated'
      BY <1>1, <1>2, <1>5 DEF Handed
    <2>2. ASSUME NEW n \in DOMAIN queue'
          PROVE  ToSet(queue'[n]) = Waiting(n, Passed(n))'
      <3>1. ToSet(queue[n]) = Waiting(n, Passed(n))
        BY <1>1, <1>2, <2>2 DEF Handed
      <3>2. ToSet(queue[n]) = ToSet(start.queue[n])
        BY <1>3, <3>1, NoneYet
      <3>3. Passed(n)' = 0
        BY <1>1, <1>4, <2>2
      <3> QED
        BY <1>1, <3>2, <3>3, NoneYet
    <2>3. ASSUME NEW o \in Allocated, NEW n \in Names
          PROVE  ToSet(taken'[o][n]) = Got(o, n)'
      <3>1. ToSet(taken[o][n]) = Got(o, n)
        BY <1>1, <1>2 DEF Handed
      <3>2. ToSet(taken[o][n]) = ToSet(start.taken[o][n])
        BY <1>3, <3>1, NoneYet DEF Got
      <3>3. n \in DOMAIN queue' => GoneTo(o, n, Passed(n))' = {}
        BY <1>1, <1>4, NoneYet
      <3> QED
        BY <1>1, <3>2, <3>3 DEF Got
    <2> QED
      BY <1>5, <2>1, <2>2, <2>3 DEF Handed
  <1>7. /\ start.list \in Seq(Allocated) /\ Len(stamp) # 0
        /\ validOfs \in 0 .. Len(start.list) /\ Len(start.list) \in Nat
        /\ \A j \in 1 .. validOfs : Leaves(j)
        /\ AtDepth => validOfs # 0
        /\ list = start.list
    BY <1>1, <1>2 DEF RoomMade
  <1>8. \A j : Leaves(j)' = Leaves(j)
    BY <1>1, <1>5 DEF Leaves
  <1>9. ASSUME validOfs < Len(start.list) PROVE ~Leaves(validOfs + 1)
    <2>1. ~(validOfs + 1 = 1 /\ AtDepth)
      BY <1>7
    <2>2. /\ validOfs + 1 \in 1 .. Len(list)
          /\ StatsSpan > 0 => stamp[Nu] - stamp[list[validOfs + 1]] <= StatsSpan
      BY <1>1, <1>7, <1>9 DEF InSpan
    <2>3. stamp[Nu] \in Int /\ stamp[list[validOfs + 1]] \in Int /\ StatsSpan \in Int
      <3>1. StatsSpan \in Int
        BY LoopsAssumption
      <3>2. \A o \in Allocated : stamp[o] \in Int
        BY <1>2, ElementOfSeq DEF TypeOK, Allocated
      <3>3. Nu \in Allocated
        BY <1>2, <1>7 DEF Nu, Allocated, TypeOK
      <3>4. list[validOfs + 1] \in Allocated
        BY <1>7, <2>2, ElementOfSeq
      <3> QED
        BY <3>1, <3>2, <3>3, <3>4
    <2> QED
      BY <1>7, <2>1, <2>2, <2>3 DEF Leaves
  <1>10. RoomMade'
    BY <1>1, <1>5, <1>7, <1>8, <1>9 DEF RoomMade
  <1> QED
    BY <1>6, <1>10

(* One more entry of the list: what no earlier entry was later than is now *)
(* in the queue still, or this entry is its first.                         *)
LEMMA OneMore ==
    ASSUME NEW n, NEW j \in Nat \ {0}
    PROVE  /\ Waiting(n, j) = {v \in Waiting(n, j - 1) : ~LaterAt(v, j)}
           /\ \A o : GoneTo(o, n, j) = GoneTo(o, n, j - 1) \cup
                 (IF list[j] = o THEN {v \in Waiting(n, j - 1) : LaterAt(v, j)}
                                 ELSE {})
  <1>1. \A x : x \in 1 .. j <=> x \in 1 .. j - 1 \/ x = j
    OBVIOUS
  <1>2. \A v : FirstAt(v, j) <=>
                  LaterAt(v, j) /\ \A x \in 1 .. j - 1 : ~LaterAt(v, x)
    BY DEF FirstAt
  <1>3. \A v : v \in Waiting(n, j) <=>
                  v \in Waiting(n, j - 1) /\ ~LaterAt(v, j)
    BY <1>1 DEF Waiting
  <1>4. ASSUME NEW o, NEW v
        PROVE  v \in GoneTo(o, n, j) <=>
                  \/ v \in GoneTo(o, n, j - 1)
                  \/ list[j] = o /\ v \in Waiting(n, j - 1) /\ LaterAt(v, j)
    BY <1>1, <1>2 DEF Waiting, GoneTo
  <1> QED
    BY <1>3, <1>4

LEMMA MatchNameM ==
    ASSUME MInv, NEW n \in Names, MatchName(n)
    PROVE  Handed' /\ RoomMade'
  <1> DEFINE ref == stamp[list[i]]
             obj == list[i]
             left == Filtered(queue[n], ref)
             moved == Moved(queue[n], ref)
             had == taken[obj][n]
  <1>1. /\ pc = "match" /\ pc' = "match" /\ n \in names /\ names' = names \ {n}
        /\ queue' = [queue EXCEPT ![n] = left]
        /\ taken' = [taken EXCEPT ![obj][n] = had \o moved]
        /\ UNCHANGED <<stamp, list, start, validOfs, i>>
    BY DEF MatchName
  <1>2. Handed /\ RoomMade /\ TypeOK /\ InMatch
    BY DEF MInv, LInv
  <1>3. /\ i \in 1 .. Len(list) /\ n \in DOMAIN queue /\ i \in Nat \ {0}
        /\ Len(list) \in Nat
    BY <1>1, <1>2 DEF InMatch, TypeOK
  <1>4. /\ obj \in Allocated /\ queue[n] \in Seq(Val) /\ had \in Seq(Val)
        /\ taken[obj] \in [Names -> Seq(Val)] /\ obj \in DOMAIN taken
    <2>1. obj \in Allocated
      BY <1>2, <1>3, ElementOfSeq DEF TypeOK
    <2> QED
      BY <1>2, <1>3, <2>1, QueueTypes, TakenTypes
  <1>5. /\ \A v : LaterAt(v, i) <=> Older(v, ref)
        /\ Passed(n) = i - 1 /\ Passed(n)' = i
    BY <1>1 DEF LaterAt, Passed
  <1>6. ToSet(queue[n]) = Waiting(n, i - 1)
    BY <1>1, <1>2, <1>3, <1>5 DEF Handed
  <1>7. ToSet(left) = {v \in Waiting(n, i - 1) : ~LaterAt(v, i)}
    <2> DEFINE C == {v \in ToSet(queue[n]) : ~Older(v, ref)}
    <2>1. ToSet(Sifted(queue[n], C)) = ToSet(queue[n]) \cap C
      BY <1>4, SiftedSet
    <2>2. left = Sifted(queue[n], C)
      BY DEF Filtered
    <2> HIDE DEF left
    <2> QED
      BY <1>5, <1>6, <2>1, <2>2
  <1>8. ToSet(moved) = {v \in Waiting(n, i - 1) : LaterAt(v, i)}
    <2> DEFINE C == {v \in ToSet(queue[n]) : Older(v, ref)}
    <2>1. ToSet(Sifted(queue[n], C)) = ToSet(queue[n]) \cap C
      BY <1>4, SiftedSet
    <2>2. moved = Sifted(queue[n], C)
      BY DEF Moved
    <2> HIDE DEF moved
    <2> QED
      BY <1>5, <1>6, <2>1, <2>2
  <1>9. moved \in Seq(Val)
    BY <1>4, SiftedTakes DEF Moved
  <1> HIDE DEF left, moved, obj, had, ref
  <1>10. ToSet(had \o moved) = ToSet(had) \cup ToSet(moved)
    BY <1>4, <1>9, ConcatSet
  <1>11. /\ DOMAIN queue' = DOMAIN queue /\ queue'[n] = left
         /\ \A m \in DOMAIN queue : m # n => queue'[m] = queue[m]
    BY <1>1, <1>3
  <1>12. /\ taken'[obj] = [taken[obj] EXCEPT ![n] = had \o moved]
         /\ \A o \in DOMAIN taken : o # obj => taken'[o] = taken[o]
    BY <1>1, <1>4
  <1>13. /\ taken'[obj][n] = had \o moved
         /\ \A m \in Names : m # n => taken'[obj][m] = taken[obj][m]
    BY <1>4, <1>12
  <1>14. \A m : m # n => Passed(m)' = Passed(m)
    BY <1>1 DEF Passed
  <1>15. /\ \A m, y : Waiting(m, y)' = Waiting(m, y)
         /\ \A o, m, y : GoneTo(o, m, y)' = GoneTo(o, m, y)
    BY <1>1, SameWaiting
  <1>16. ASSUME NEW m \in DOMAIN queue
         PROVE  ToSet(queue'[m]) = Waiting(m, Passed(m))'
    <2>1. CASE m = n
      <3>1. Waiting(n, i) = {v \in Waiting(n, i - 1) : ~LaterAt(v, i)}
        BY <1>3, OneMore
      <3>2. Waiting(n, Passed(n))' = Waiting(n, i)
        BY <1>5, <1>15
      <3> QED
        BY <1>7, <1>11, <2>1, <3>1, <3>2
    <2>2. CASE m # n
      <3>1. ToSet(queue[m]) = Waiting(m, Passed(m))
        BY <1>1, <1>2 DEF Handed
      <3> QED
        BY <1>11, <1>14, <1>15, <2>2, <3>1
    <2> QED
      BY <2>1, <2>2
  <1>17. ASSUME NEW o \in Allocated, NEW m \in Names
         PROVE  ToSet(taken'[o][m]) = Got(o, m)'
    <2>1. ToSet(taken[o][m]) = Got(o, m) /\ o \in DOMAIN taken
      BY <1>1, <1>2, TakenTypes DEF Handed
    <2>2. CASE m # n
      <3>1. taken'[o][m] = taken[o][m]
        BY <1>12, <1>13, <2>1, <2>2
      <3>2. GoneTo(o, m, Passed(m))' = GoneTo(o, m, Passed(m))
        BY <1>14, <1>15, <2>2
      <3> QED
        BY <1>1, <1>11, <2>1, <3>1, <3>2 DEF Got
    <2>3. CASE m = n
      <3>1. GoneTo(o, n, Passed(n))' = GoneTo(o, n, i)
        BY <1>5, <1>15
      <3>2. GoneTo(o, n, i) = GoneTo(o, n, i - 1) \cup
               (IF list[i] = o THEN {v \in Waiting(n, i - 1) : LaterAt(v, i)}
                               ELSE {})
        BY <1>3, OneMore
      <3>3. ToSet(taken[o][n]) = ToSet(start.taken[o][n]) \cup GoneTo(o, n, i - 1)
        BY <1>3, <1>5, <2>1, <2>3 DEF Got
      <3>4. Got(o, n)' = ToSet(start.taken[o][n]) \cup GoneTo(o, n, i)
        BY <1>1, <1>3, <1>11, <3>1 DEF Got
      <3>5. CASE o = obj
        <4>1. ToSet(taken'[o][n]) = ToSet(taken[o][n]) \cup ToSet(moved)
          BY <1>10, <1>13, <3>5 DEF had
        <4>2. GoneTo(o, n, i) = GoneTo(o, n, i - 1) \cup ToSet(moved)
          BY <1>8, <3>2, <3>5 DEF obj
        <4> QED
          BY <2>3, <3>3, <3>4, <4>1, <4>2
      <3>6. CASE o # obj
        <4>1. taken'[o][n] = taken[o][n] /\ GoneTo(o, n, i) = GoneTo(o, n, i - 1)
          BY <1>12, <2>1, <3>2, <3>6 DEF obj
        <4> QED
          BY <2>3, <3>3, <3>4, <4>1
      <3> QED
        BY <3>5, <3>6
    <2> QED
      BY <2>2, <2>3
  <1>18. Handed'
    <2>1. Allocated' = Allocated
      BY <1>1 DEF Allocated
    <2>2. /\ DOMAIN start'.queue = DOMAIN queue'
          /\ DOMAIN start'.taken = Allocated'
      BY <1>1, <1>2, <1>11, <2>1 DEF Handed
    <2> QED
      BY <1>11, <1>16, <1>17, <2>1, <2>2 DEF Handed
  <1>19. RoomMade'
    BY <1>1, <1>2, RoomStill
  <1> QED
    BY <1>18, <1>19

LEMMA TurnM ==
    ASSUME MInv, NextObject \/ MatchDone
    PROVE  Handed' /\ RoomMade'
  <1>1. /\ pc = "match" /\ pc' \in {"match", "drop"} /\ names = {}
        /\ names' = DOMAIN queue /\ Still /\ validOfs' = validOfs
    BY DEF NextObject, MatchDone, Still
  <1>2. Handed /\ RoomMade /\ InMatch /\ Len(list) \in Nat
    BY DEF MInv, LInv, TypeOK
  <1>3. i \in 1 .. Len(list)
    BY <1>1, <1>2 DEF InMatch
  <1>4. \A n \in DOMAIN queue : Passed(n)' = Passed(n)
    <2>1. \A n : Passed(n) = i
      BY <1>1 DEF Passed
    <2>2. CASE NextObject
      <3>1. i' = i + 1 /\ pc' = "match"
        BY <2>2 DEF NextObject
      <3> QED
        BY <1>1, <1>3, <2>1, <3>1 DEF Passed
    <2>3. CASE MatchDone
      <3>1. i >= Len(list) /\ pc' = "drop" /\ list' = list
        BY <2>3 DEF MatchDone, LastMatched
      <3>2. i = Len(list)
        BY <1>2, <1>3, <3>1
      <3> QED
        BY <2>1, <3>1, <3>2 DEF Passed
    <2> QED
      BY <2>2, <2>3
  <1>5. Handed'
    BY <1>1, <1>2, <1>4, HandedStill
  <1>6. RoomMade'
    BY <1>1, <1>2, RoomStill DEF Still
  <1> QED
    BY <1>5, <1>6

(* The dropping changes nothing, as the queue it puts back is the same.    *)
LEMMA DropStill ==
    ASSUME MInv, DropValue \/ DropNameDone \/ \E n \in Names : DropName(n)
    PROVE  pc = "drop" /\ pc' = "drop" /\ Still /\ validOfs' = validOfs
  <1>1. CASE DropValue
    BY <1>1 DEF DropValue, Still
  <1>2. CASE \E n \in Names : DropName(n)
    BY <1>2 DEF DropName, Still
  <1>3. CASE DropNameDone
    <2>1. name # ""
      BY <1>3 DEF DropNameDone
    <2>2. /\ pc = "drop" /\ pc' = "drop"
          /\ queue' = [queue EXCEPT ![name] = SubSeq(values, 1, size)]
          /\ UNCHANGED <<stamp, taken, list, start, validOfs>>
      BY <1>3 DEF DropNameDone
    <2>3. /\ name \in DOMAIN queue /\ values = queue[name] /\ size = Len(values)
          /\ values \in Seq(Val) /\ TypeOK
      BY <2>1, Ranging DEF MInv, LInv
    <2>4. SubSeq(values, 1, size) = values
      BY <2>3
    <2>5. queue \in [DOMAIN queue -> Seq(Val)]
      BY <2>3 DEF TypeOK
    <2>6. queue' = queue
      BY <2>2, <2>3, <2>4, <2>5
    <2> QED
      BY <2>2, <2>6 DEF Still
  <1> QED
    BY <1>1, <1>2, <1>3

LEMMA DropM ==
    ASSUME MInv, DropValue \/ DropNameDone \/ \E n \in Names : DropName(n)
    PROVE  Handed' /\ RoomMade'
  <1>1. pc = "drop" /\ pc' = "drop" /\ Still /\ validOfs' = validOfs
    BY DropStill
  <1>2. \A n \in DOMAIN queue : Passed(n)' = Passed(n)
    BY <1>1 DEF Passed, Still
  <1>3. Handed /\ RoomMade
    BY DEF MInv
  <1>4. Handed'
    BY <1>1, <1>2, <1>3, HandedStill
  <1>5. RoomMade'
    BY <1>1, <1>3, RoomStill DEF Still
  <1> QED
    BY <1>4, <1>5

LEMMA StutterM ==
    ASSUME MInv, UNCHANGED vars
    PROVE  Handed' /\ RoomMade'
  <1>1. /\ pc' = pc /\ Still
        /\ UNCHANGED <<start, stamp, list, validOfs, i, names>>
    BY DEF vars, loopVars, Still
  <1>2. Handed /\ RoomMade
    BY DEF MInv
  <1>3. CASE pc = "idle"
    BY <1>1, <1>3, HandedIdle
  <1>4. CASE pc # "idle"
    <2>1. \A n \in DOMAIN queue : Passed(n)' = Passed(n)
      BY <1>1 DEF Passed
    <2>2. Handed'
      BY <1>1, <1>2, <1>4, <2>1, HandedStill
    <2>3. Allocated' = Allocated /\ Nu' = Nu /\ AtDepth' = AtDepth
      BY <1>1 DEF Allocated, Nu, AtDepth
    <2>4. \A j : Leaves(j)' = Leaves(j)
      BY <1>1, <2>3 DEF Leaves
    <2>5. RoomMade'
      BY <1>1, <1>2, <2>3, <2>4 DEF RoomMade
    <2> QED
      BY <2>2, <2>5
  <1> QED
    BY <1>3, <1>4

LEMMA TypedM ==
    ASSUME MInv, LInv', [Next]_vars
    PROVE  StartTyped'
  <1>1. CASE pc' = "idle"
    BY <1>1 DEF StartTyped
  <1>2. CASE pc # "idle" /\ start' = start
    BY <1>2 DEF MInv, StartTyped
  <1>3. CASE \E t \in Stamps : Begin(t)
    <2>1. start'.queue = queue'
      BY <1>3 DEF Begin
    <2>2. \A n \in DOMAIN queue' : queue'[n] \in Seq(Val)
      BY DEF LInv, TypeOK
    <2>3. ASSUME NEW n \in DOMAIN queue' PROVE ToSet(queue'[n]) \subseteq Val
      <3>1. \A x \in DOMAIN queue'[n] : queue'[n][x] \in Val
        BY <2>2, ValsAre
      <3> QED
        BY <3>1 DEF ToSet
    <2> QED
      BY <2>1, <2>3 DEF StartTyped
  <1>4. CASE Loops /\ ~End
    BY <1>2, <1>4 DEF Loops, SkipExpired, MakeRoom, MatchName, NextObject,
          MatchDone, DropName, DropValue, DropNameDone
  <1>5. CASE End \/ Restart \/ \E n \in Names, t \in Times : Enqueue(n, t)
    BY <1>1, <1>5 DEF End, Restart, Enqueue
  <1>6. CASE UNCHANGED vars
    BY <1>1, <1>2, <1>6 DEF vars
  <1> QED
    BY <1>3, <1>4, <1>5, <1>6 DEF Next, Outside

(* Every turn of the loops keeps, with the order of the values, what each  *)
(* queue and each object holds in terms of what there was when the merge   *)
(* began, and how far makeRoomForStats and the copy have come.             *)
THEOREM MergeStep == MInv /\ [Next]_vars => MInv'
  <1> SUFFICES ASSUME MInv, [Next]_vars PROVE MInv'
    OBVIOUS
  <1>1. LInv' /\ StartTyped'
    BY LoopsStep, TypedM DEF MInv
  <1>2. CASE SkipExpired
    BY <1>1, <1>2, SkipExpiredM DEF MInv
  <1>3. CASE MakeRoom
    BY <1>1, <1>3, MakeRoomM DEF MInv
  <1>4. CASE NextObject \/ MatchDone
    BY <1>1, <1>4, TurnM DEF MInv
  <1>5. CASE DropValue \/ DropNameDone \/ \E n \in Names : DropName(n)
    BY <1>1, <1>5, DropM DEF MInv
  <1>6. CASE \E n \in Names : MatchName(n)
    BY <1>1, <1>6, MatchNameM DEF MInv
  <1>7. CASE \E t \in Stamps : Begin(t)
    BY <1>1, <1>7, BeginM DEF MInv
  <1>8. CASE End \/ Restart \/ \E n \in Names, t \in Times : Enqueue(n, t)
    <2>1. pc' = "idle"
      BY <1>8 DEF End, Restart, Enqueue
    <2> QED
      BY <1>1, <2>1, HandedIdle DEF MInv
  <1>9. CASE UNCHANGED vars
    BY <1>1, <1>9, StutterM DEF MInv
  <1> QED
    BY <1>2, <1>3, <1>4, <1>5, <1>6, <1>7, <1>8, <1>9
       DEF Next, Loops, Outside

(* The invariant that relates each state of a merge to its beginning.      *)
THEOREM MergeInvariant == Spec => []MInv
  <1>1. Init => MInv
    BY InitL DEF Init, MInv, Handed, RoomMade, StartTyped
  <1>2. MInv /\ [Next]_vars => MInv'
    BY MergeStep
  <1> QED
    BY <1>1, <1>2, PTL DEF Spec

-----------------------------------------------------------------------------
(* A merge of the loops is a merge of Publisher.                           *)

(* copy, in place: what the caller's list holds after it.                  *)
LEMMA CopyIs ==
    ASSUME NEW S, NEW s \in Seq(S), NEW ofs \in 0 .. Len(s)
    PROVE  CopyDown(s, ofs) =
             [x \in DOMAIN s |-> IF x + ofs \in DOMAIN s THEN s[x + ofs] ELSE s[x]]
  <1> DEFINE n == Len(s)
             a == SubSeq(s, ofs + 1, n)
             b == SubSeq(s, n - ofs + 1, n)
             c == [x \in DOMAIN s |-> IF x + ofs \in DOMAIN s THEN s[x + ofs] ELSE s[x]]
  <1>1. n \in Nat /\ ofs \in Nat /\ ofs <= n /\ DOMAIN s = 1 .. n
    OBVIOUS
  <1>2. \A x \in 1 .. n : s[x] \in S
    BY ElementOfSeq
  <1>3. /\ a \in Seq(S) /\ Len(a) = n - ofs
        /\ \A x \in 1 .. n - ofs : a[x] = s[x + ofs]
    <2> DEFINE m == ofs + 1
    <2>1. m \in Int /\ n \in Int /\ \A x \in m .. n : s[x] \in S
      BY <1>1, <1>2
    <2>2. a = SubSeq(s, m, n)
      OBVIOUS
    <2> HIDE DEF a, n
    <2>3. n - m + 1 = n - ofs /\ (n < m => n - ofs = 0)
      BY <1>1
    <2> HIDE DEF m
    <2>4. /\ a \in Seq(S) /\ Len(a) = IF m <= n THEN n - m + 1 ELSE 0
          /\ \A x \in 1 .. n - m + 1 : a[x] = s[m + x - 1]
      BY <2>1, <2>2, SubSeqProperties
    <2>5. Len(a) = n - ofs
      BY <1>1, <2>1, <2>3, <2>4
    <2>6. \A x \in 1 .. n - ofs : m + x - 1 = x + ofs
      BY <1>1 DEF m
    <2> QED
      BY <2>3, <2>4, <2>5, <2>6
  <1>4. /\ b \in Seq(S) /\ Len(b) = ofs
        /\ \A x \in 1 .. ofs : b[x] = s[x + (n - ofs)]
    <2>1. \A x \in n - ofs + 1 .. n : s[x] \in S
      BY <1>1, <1>2
    <2> QED
      BY <1>1, <2>1, SubSeqProperties
  <1> HIDE DEF a, b
  <1>5. /\ a \o b \in Seq(S) /\ Len(a \o b) = n
        /\ \A x \in 1 .. n : (a \o b)[x] = IF x <= n - ofs THEN a[x] ELSE b[x - (n - ofs)]
    <2>1. Len(a) + Len(b) = n
      BY <1>1, <1>3, <1>4
    <2>2. /\ a \o b \in Seq(S) /\ Len(a \o b) = Len(a) + Len(b)
          /\ \A x \in 1 .. Len(a) + Len(b) :
                (a \o b)[x] = IF x <= Len(a) THEN a[x] ELSE b[x - Len(a)]
      BY <1>3, <1>4, ConcatProperties
    <2> HIDE DEF n
    <2> QED
      BY <1>3, <2>1, <2>2
  <1>6. c \in Seq(S) /\ Len(c) = n
    <2>1. c \in [1 .. n -> S]
      BY <1>1, <1>2
    <2> QED
      BY <1>1, <2>1
  <1>7. ASSUME NEW x \in 1 .. n PROVE (a \o b)[x] = c[x]
    <2>1. CASE x <= n - ofs
      <3>1. x \in 1 .. n - ofs /\ x + ofs \in DOMAIN s
        BY <1>1, <2>1
      <3> QED
        BY <1>1, <1>3, <1>5, <2>1, <3>1
    <2>2. CASE ~(x <= n - ofs)
      <3>1. /\ x - (n - ofs) \in 1 .. ofs /\ x + ofs \notin DOMAIN s
            /\ (x - (n - ofs)) + (n - ofs) = x
        BY <1>1, <2>2
      <3> QED
        BY <1>1, <1>4, <1>5, <2>2, <3>1
    <2> QED
      BY <2>1, <2>2
  <1> HIDE DEF c
  <1>8. a \o b = c
    BY <1>5, <1>6, <1>7, SeqEqual
  <1> QED
    BY <1>8 DEF CopyDown, a, b, c

(* Publisher's comparisons of a stats object are those of its stamp.       *)
LEMMA SameStamps ==
    /\ \A v, o : o \in DOMAIN stamp => (P!Before(v, o) <=> Older(v, stamp[o]))
    /\ \A o, nu : o \in DOMAIN stamp =>
          (P!Expired(o, nu) <=> StatsSpan > 0 /\ nu - stamp[o] > StatsSpan)
  BY DEF P!Before, P!Expired, Older

LEMMA SameOfs ==
    ASSUME MInv, pc = "drop"
    PROVE  P!ValidOfs(start.list, stamp[Nu]) = validOfs
  <1> DEFINE s == start.list
             n == Len(s)
             D == {x \in DOMAIN s : \A j \in 1 .. x :
                      (j = 1 /\ P!AtDepth(s)) \/ P!Expired(s[j], stamp[Nu])}
  <1>1. /\ s \in Seq(Allocated) /\ validOfs \in 0 .. n
        /\ \A j \in 1 .. validOfs : Leaves(j)
        /\ validOfs < n => ~Leaves(validOfs + 1)
    BY DEF MInv, RoomMade
  <1>2. n \in Nat /\ validOfs \in Nat /\ validOfs <= n /\ DOMAIN s = 1 .. n
    BY <1>1
  <1>3. DOMAIN stamp = Allocated
    BY DEF MInv, LInv, TypeOK, Allocated
  <1>4. \A j \in 1 .. n :
           ((j = 1 /\ P!AtDepth(s)) \/ P!Expired(s[j], stamp[Nu])) <=> Leaves(j)
    <2> TAKE j \in 1 .. n
    <2>1. s[j] \in DOMAIN stamp
      BY <1>1, <1>3, ElementOfSeq
    <2>2. P!AtDepth(s) <=> AtDepth
      BY DEF P!AtDepth, AtDepth
    <2> QED
      BY <2>1, <2>2, SameStamps DEF Leaves
  <1>5. P!ValidOfs(s, stamp[Nu]) = Cardinality(D)
    <2>1. P!Cardinality(D) = Cardinality(D)
      BY DEF P!Cardinality, Cardinality
    <2>2. P!ValidOfs(s, stamp[Nu]) = P!Cardinality(D)
      BY DEF P!ValidOfs
    <2> QED
      BY <2>1, <2>2
  <1> HIDE DEF s, n
  <1>6. D = 1 .. validOfs
    <2>1. ASSUME NEW x \in D PROVE x \in 1 .. validOfs
      <3>1. x \in 1 .. n /\ \A j \in 1 .. x : j \in 1 .. n /\ Leaves(j)
        BY <1>2, <1>4, <2>1
      <3>2. ASSUME x > validOfs PROVE FALSE
        <4>1. validOfs + 1 \in 1 .. x /\ validOfs < n
          BY <1>2, <3>1, <3>2
        <4> QED
          BY <1>1, <3>1, <4>1
      <3> QED
        BY <1>2, <3>1, <3>2
    <2>2. ASSUME NEW x \in 1 .. validOfs PROVE x \in D
      <3>1. x \in 1 .. n /\ \A j \in 1 .. x : j \in 1 .. n /\ j \in 1 .. validOfs
        BY <1>2, <2>2
      <3> QED
        BY <1>1, <1>2, <1>4, <3>1
    <2> QED
      BY <2>1, <2>2
  <1>7. Cardinality(1 .. validOfs) = validOfs
    <2>1. 1 \in Int /\ validOfs \in Int /\ validOfs \in Nat
      BY <1>2
    <2>2. Cardinality(1 .. validOfs) =
             IF 1 > validOfs THEN 0 ELSE validOfs - 1 + 1
      BY ONLY <2>1, FS_Interval
    <2> QED
      BY <2>1, <2>2
  <1> QED
    BY <1>5, <1>6, <1>7 DEF s

(* A value and the entry it is held against first, in both modules.        *)
LEMMA SameFirst ==
    ASSUME MInv, NEW v, NEW j \in DOMAIN list
    PROVE  /\ P!Before(v, list[j]) <=> LaterAt(v, j)
           /\ P!FirstLater(v, list, j) <=> FirstAt(v, j)
  <1>1. /\ list \in Seq(Allocated) /\ DOMAIN stamp = Allocated
        /\ Len(list) \in Nat /\ DOMAIN list = 1 .. Len(list)
    BY DEF MInv, LInv, TypeOK, Allocated
  <1>2. \A x \in DOMAIN list : list[x] \in DOMAIN stamp
    BY <1>1, ElementOfSeq
  <1>3. \A x \in DOMAIN list : P!Before(v, list[x]) <=> LaterAt(v, x)
    BY <1>2, SameStamps DEF LaterAt
  <1>4. \A x \in 1 .. j - 1 : x \in DOMAIN list
    BY <1>1
  <1> QED
    BY <1>3, <1>4 DEF P!FirstLater, FirstAt

(* What the three loops have done to the list, the queues and the objects. *)
LEMMA SameList ==
    ASSUME MInv, pc = "drop"
    PROVE  list = Append(P!MakeRoomForStats(start.list, stamp[Nu]), Nu)
  <1> DEFINE s == start.list
             room == [x \in DOMAIN s |-> IF x + validOfs \in DOMAIN s
                                         THEN s[x + validOfs] ELSE s[x]]
  <1>1. /\ s \in Seq(Allocated) /\ validOfs \in 0 .. Len(s)
        /\ list = Append(CopyDown(s, validOfs), Nu)
    BY DEF MInv, RoomMade
  <1>2. CopyDown(s, validOfs) = room
    BY <1>1, CopyIs
  <1>3. P!MakeRoomForStats(s, stamp[Nu]) = room
    <2>1. P!ValidOfs(s, stamp[Nu]) = validOfs
      BY SameOfs
    <2> QED
      BY <2>1 DEF P!MakeRoomForStats
  <1> QED
    BY <1>1, <1>2, <1>3

LEMMA SamePending ==
    ASSUME MInv, pc = "drop"
    PROVE  QueuedIn(queue) =
             {v \in P!StillPending(Path, list) : ~P!TooOld(v, Path, list)}
  <1> DEFINE Q == QueuedIn(start.queue)
  <1>1. /\ DOMAIN start.queue = DOMAIN queue
        /\ \A n \in DOMAIN queue : /\ ToSet(queue[n]) = Waiting(n, Len(list))
                                   /\ ToSet(start.queue[n]) \subseteq Val
    BY DEF MInv, Handed, StartTyped, Passed
  <1>2. Len(list) \in Nat /\ DOMAIN list = 1 .. Len(list) /\ Len(list) # 0
    BY DEF MInv, LInv, TypeOK, InDrop
  <1>3. \A v, j : j \in DOMAIN list => (P!Before(v, list[j]) <=> LaterAt(v, j))
    BY SameFirst
  <1>4. \A v : v \in Q <=> \E n \in DOMAIN queue : v \in ToSet(start.queue[n])
    BY <1>1 DEF QueuedIn
  <1>5. \A v \in Q : v.path = Path
    <2>1. \A v \in Val : v.path = Path
      BY DEF Val
    <2> QED
      BY <1>1, <1>4, <2>1
  <1>6. \A v : v \in QueuedIn(queue) <=>
                  v \in Q /\ \A j \in DOMAIN list : ~LaterAt(v, j)
    BY <1>1, <1>2, <1>4 DEF QueuedIn, Waiting
  <1>7. Visible.queue = start.queue
    BY DEF Visible
  <1> HIDE DEF Q
  <1>8. \A v : v \in P!StillPending(Path, list) <=>
                  v \in Q /\ \A j \in DOMAIN list : ~LaterAt(v, j)
    <2>1. P!StillPending(Path, list) =
             {v \in Q : v.path = Path => \A j \in DOMAIN list : ~P!Before(v, list[j])}
      BY <1>7 DEF P!StillPending, Q
    <2> QED
      BY <1>3, <1>5, <2>1
  <1>9. \A v : (\A j \in DOMAIN list : ~LaterAt(v, j)) => ~P!TooOld(v, Path, list)
    <2>1. 1 \in DOMAIN list
      BY <1>2
    <2> QED
      BY <1>3, <2>1 DEF P!TooOld
  <1> QED
    BY <1>6, <1>8, <1>9

LEMMA SameAttached ==
    ASSUME MInv, pc = "drop"
    PROVE  AttachedIn(taken) = AttachedIn(start.taken) \cup P!AttachedBy(Path, list)
  <1> DEFINE A == P!AttachedBy(Path, list)
             Has(t, o, v) == \E n \in Names : v \in ToSet(t[o][n])
  <1>1. /\ DOMAIN start.queue = DOMAIN queue /\ DOMAIN start.taken = Allocated
        /\ DOMAIN queue \subseteq Names
        /\ \A n \in DOMAIN queue : ToSet(start.queue[n]) \subseteq Val
        /\ \A o \in Allocated, n \in Names :
              ToSet(taken[o][n]) = ToSet(start.taken[o][n]) \cup
                 (IF n \in DOMAIN queue THEN GoneTo(o, n, Len(list)) ELSE {})
    BY DEF MInv, LInv, TypeOK, Handed, StartTyped, Passed, Got
  <1>2. /\ DOMAIN taken = Allocated /\ DOMAIN list = 1 .. Len(list)
        /\ \A j \in DOMAIN list : list[j] \in Allocated
    <2>1. /\ DOMAIN taken = Allocated /\ list \in Seq(Allocated)
          /\ DOMAIN list = 1 .. Len(list)
      BY DEF MInv, LInv, TypeOK, Allocated
    <2> QED
      BY <2>1, ElementOfSeq
  <1>3. \A t, e : e \in AttachedIn(t) <=>
                     \E o \in DOMAIN t : \E v : Has(t, o, v) /\ e = <<o, v>>
    <2> SUFFICES ASSUME NEW t, NEW e
                 PROVE  e \in AttachedIn(t) <=>
                           \E o \in DOMAIN t : \E v : Has(t, o, v) /\ e = <<o, v>>
      OBVIOUS
    <2>1. \A o, v : v \in UNION {ToSet(t[o][n]) : n \in Names} <=> Has(t, o, v)
      OBVIOUS
    <2>2. e \in AttachedIn(t) <=>
             \E o \in DOMAIN t :
                e \in {<<o, v>> : v \in UNION {ToSet(t[o][n]) : n \in Names}}
      BY DEF AttachedIn
    <2> QED
      BY <2>1, <2>2
  <1>4. \A e : e \in A <=> \E n \in DOMAIN queue, j \in DOMAIN list :
                  \E v \in ToSet(start.queue[n]) :
                     FirstAt(v, j) /\ e = <<list[j], v>>
    <2> DEFINE Q == QueuedIn(start.queue)
    <2>1. Visible.queue = start.queue
      BY DEF Visible
    <2>2. \A v : v \in Q <=> \E n \in DOMAIN queue : v \in ToSet(start.queue[n])
      BY <1>1 DEF QueuedIn
    <2>3. \A v \in Q : v.path = Path
      <3>1. \A v \in Val : v.path = Path
        BY DEF Val
      <3> QED
        BY <1>1, <2>2, <3>1
    <2>4. P!PendingOf(Path) = {v \in Q : v.path = Path}
      BY <2>1 DEF P!PendingOf
    <2> HIDE DEF Q
    <2>5. P!PendingOf(Path) = Q
      BY <2>3, <2>4
    <2>6. A = {<<list[x[2]], x[1]>> : x \in {y \in Q \X DOMAIN list :
                                          P!FirstLater(y[1], list, y[2])}}
      BY <2>5 DEF P!AttachedBy
    <2>7. \A v, j : j \in DOMAIN list => (P!FirstLater(v, list, j) <=> FirstAt(v, j))
      BY SameFirst
    <2> HIDE DEF A
    <2>9. ASSUME NEW e \in A
          PROVE  \E v \in Q, j \in DOMAIN list : FirstAt(v, j) /\ e = <<list[j], v>>
      <3>1. PICK x \in {y \in Q \X DOMAIN list : P!FirstLater(y[1], list, y[2])} :
                    e = <<list[x[2]], x[1]>>
        BY <2>6
      <3>2. x[1] \in Q /\ x[2] \in DOMAIN list /\ P!FirstLater(x[1], list, x[2])
        BY <3>1
      <3>3. FirstAt(x[1], x[2])
        BY <2>7, <3>2
      <3> QED
        BY <3>1, <3>2, <3>3
    <2>10. ASSUME NEW v \in Q, NEW j \in DOMAIN list, FirstAt(v, j)
           PROVE  <<list[j], v>> \in A
      <3> DEFINE x == <<v, j>>
      <3>1. x \in Q \X DOMAIN list /\ x[1] = v /\ x[2] = j
        OBVIOUS
      <3> HIDE DEF x
      <3>2. P!FirstLater(x[1], list, x[2])
        BY <2>7, <2>10, <3>1
      <3>3. x \in {y \in Q \X DOMAIN list : P!FirstLater(y[1], list, y[2])}
        BY <3>1, <3>2
      <3>4. <<list[x[2]], x[1]>> \in A
        BY <2>6, <3>3
      <3> QED
        BY <3>1, <3>4
    <2>11. ASSUME NEW e
           PROVE  e \in A <=> \E v \in Q, j \in DOMAIN list :
                                 FirstAt(v, j) /\ e = <<list[j], v>>
      BY <2>9, <2>10
    <2> QED
      BY <2>2, <2>11
  <1> HIDE DEF A
  <1>5. ASSUME NEW o \in Allocated, NEW v
        PROVE  Has(taken, o, v) <=> Has(start.taken, o, v) \/ <<o, v>> \in A
    <2>1. \A n \in DOMAIN queue :
             v \in GoneTo(o, n, Len(list)) <=>
                v \in ToSet(start.queue[n]) /\ \E j \in DOMAIN list :
                                                  list[j] = o /\ FirstAt(v, j)
      BY <1>2 DEF GoneTo
    <2>2. <<o, v>> \in A <=> \E n \in DOMAIN queue : v \in GoneTo(o, n, Len(list))
      <3>1. <<o, v>> \in A <=> \E n \in DOMAIN queue, j \in DOMAIN list :
               v \in ToSet(start.queue[n]) /\ FirstAt(v, j) /\ o = list[j]
        BY <1>4
      <3> QED
        BY <2>1, <3>1
    <2>3. \A n \in Names : v \in ToSet(taken[o][n]) <=>
             \/ v \in ToSet(start.taken[o][n])
             \/ n \in DOMAIN queue /\ v \in GoneTo(o, n, Len(list))
      BY <1>1
    <2> QED
      BY <1>1, <2>2, <2>3
  <1>6. \A e \in A : \E o \in Allocated : \E v : e = <<o, v>>
    BY <1>2, <1>4
  <1> HIDE DEF Has
  <1>7. ASSUME NEW e
        PROVE  e \in AttachedIn(taken) <=> e \in AttachedIn(start.taken) \cup A
    <2>1. e \in AttachedIn(taken) <=>
             \E o \in Allocated : \E v : Has(taken, o, v) /\ e = <<o, v>>
      BY <1>2, <1>3
    <2>2. e \in AttachedIn(start.taken) <=>
             \E o \in Allocated : \E v : Has(start.taken, o, v) /\ e = <<o, v>>
      BY <1>1, <1>3
    <2> QED
      BY <1>5, <1>6, <2>1, <2>2
  <1> QED
    BY <1>7 DEF A

(* What the rest of the publisher sees stays while the loops run.          *)
LEMMA Hidden ==
    ASSUME pc # "idle", pc' # "idle", UNCHANGED <<stamp, start, lastId>>
    PROVE  UNCHANGED P!vars
  <1>1. Visible' = Visible /\ Nu' = Nu
    BY DEF Visible, Nu
  <1>2. UNCHANGED P!batchVars
    BY <1>1 DEF P!batchVars
  <1>3. UNCHANGED P!customVars
    BY <1>1 DEF P!customVars
  <1> QED
    BY <1>1, <1>2, <1>3 DEF P!vars

(* What closing does to an object.                                         *)
LEMMA Closing ==
    ASSUME NEW x, NEW y, NEW z, NEW t, NEW u
    PROVE  [[path |-> x, stamp |-> y, fields |-> z, closed |-> t] EXCEPT !.closed = u]
           = [path |-> x, stamp |-> y, fields |-> z, closed |-> u]
  OBVIOUS

(* The object of this batch is the one the merge closes, and the last.     *)
LEMMA ClosesNu ==
    ASSUME NEW N \in Nat, N # 0
    PROVE  [o \in 1 .. N |-> [path |-> Path, stamp |-> stamp[o], fields |-> {},
                              closed |-> TRUE]]
           = [[o \in 1 .. N |-> [path |-> Path, stamp |-> stamp[o], fields |-> {},
                                 closed |-> o < N]] EXCEPT ![N].closed = TRUE]
  <1> DEFINE a == [o \in 1 .. N |-> [path |-> Path, stamp |-> stamp[o],
                                     fields |-> {}, closed |-> o < N]]
             b == [a EXCEPT ![N].closed = TRUE]
             c == [o \in 1 .. N |-> [path |-> Path, stamp |-> stamp[o],
                                     fields |-> {}, closed |-> TRUE]]
  <1>1. b = [o \in 1 .. N |-> IF o = N THEN [a[o] EXCEPT !.closed = TRUE] ELSE a[o]]
    OBVIOUS
  <1>2. ASSUME NEW o \in 1 .. N
        PROVE  (IF o = N THEN [a[o] EXCEPT !.closed = TRUE] ELSE a[o]) = c[o]
    <2>1. CASE o = N
      <3>1. PICK t : t = (N < N)
        OBVIOUS
      <3>2. PICK u : u = TRUE
        OBVIOUS
      <3> HIDE DEF a
      <3>3. [a[N] EXCEPT !.closed = TRUE] = c[N]
        <4>1. a[N] = [path |-> Path, stamp |-> stamp[N], fields |-> {},
                      closed |-> t]
          BY <3>1 DEF a
        <4>2. [a[N] EXCEPT !.closed = u] = [path |-> Path, stamp |-> stamp[N],
                                            fields |-> {}, closed |-> u]
          BY <4>1, Closing
        <4> QED
          BY <3>2, <4>2
      <3> QED
        BY <2>1, <3>3
    <2>2. CASE o # N
      <3>1. (o < N) = TRUE
        BY <2>2
      <3> QED
        BY <2>2, <3>1
    <2> QED
      BY <2>1, <2>2
  <1> QED
    BY <1>1, <1>2

(* The end of the loops is the merge.                                      *)
LEMMA EndMerges ==
    ASSUME MInv, End
    PROVE  P!MergeStatsForDocker(Path)
  <1> DEFINE objects == [o \in DOMAIN stamp |->
                           [path |-> Path, stamp |-> stamp[o], fields |-> {},
                            closed |-> pc = "idle" \/ o < Nu]]
             shown == [p \in {Path} |-> Visible.list]
             tmp == [p \in {Path} |-> Nu]
  <1>1. /\ pc = "drop" /\ pc' = "idle" /\ Nu' = Nu
        /\ UNCHANGED <<stamp, list, queue, taken, start, lastId>>
    BY DEF End, Nu
  <1>2. DOMAIN stamp = 1 .. Nu /\ Nu \in Nat /\ Nu # 0
    BY <1>1 DEF MInv, LInv, TypeOK, RoomMade, Nu
  <1>3. /\ Visible = start
        /\ Visible' = [list |-> list, queue |-> queue, taken |-> taken]
    BY <1>1 DEF Visible
  <1>4. objects' = [objects EXCEPT ![Nu].closed = TRUE]
    <2>1. objects = [o \in 1 .. Nu |-> [path |-> Path, stamp |-> stamp[o],
                                        fields |-> {}, closed |-> o < Nu]]
      BY <1>1, <1>2
    <2>2. objects' = [o \in 1 .. Nu |-> [path |-> Path, stamp |-> stamp[o],
                                         fields |-> {}, closed |-> TRUE]]
      BY <1>1, <1>2
    <2> HIDE DEF objects
    <2> QED
      BY <1>2, <2>1, <2>2, ClosesNu
  <1>5. /\ list = Append(P!MakeRoomForStats(start.list, stamp[Nu]), Nu)
        /\ shown[Path] = start.list /\ objects[tmp[Path]].stamp = stamp[Nu]
    BY <1>1, <1>2, <1>3, SameList
  <1>6. shown' = [shown EXCEPT ![Path] = list]
    BY <1>1, <1>3
  <1>7. QueuedIn(Visible.queue)' =
          {v \in P!StillPending(Path, list) : ~P!TooOld(v, Path, list)}
    BY <1>1, <1>3, SamePending DEF QueuedIn
  <1>8. AttachedIn(Visible.taken)' =
          AttachedIn(Visible.taken) \cup P!AttachedBy(Path, list)
    BY <1>1, <1>3, SameAttached DEF AttachedIn
  <1>9. (IF pc = "idle" THEN {} ELSE {Path})' =
          (IF pc = "idle" THEN {} ELSE {Path}) \ {Path}
    BY <1>1
  <1>10. tmp[Path] = Nu /\ tmp' = tmp
    BY <1>1
  <1>11. list = Append(P!MakeRoomForStats(shown[Path], objects[tmp[Path]].stamp),
                       tmp[Path])
    BY <1>5, <1>10
  <1> QED
    BY <1>1, <1>2, <1>4, <1>6, <1>7, <1>8, <1>9, <1>10, <1>11
    DEF P!MergeStatsForDocker

(* mergeStatsForDocker, loop by loop and in whatever order its maps are    *)
(* ranged over, does to the list, the queues and the objects of a          *)
(* container what Publisher says of it in one step.                        *)
THEOREM LoopsImplementMerge == Spec => ImplementsMerge
  <1> DEFINE Step == pc # "idle" => P!MergeStatsForDocker(Path) \/ UNCHANGED P!vars
  <1>1. ASSUME MInv, [Next]_vars PROVE [Step]_vars
    <2> SUFFICES ASSUME pc # "idle", Next
                 PROVE  P!MergeStatsForDocker(Path) \/ UNCHANGED P!vars
      BY <1>1
    <2>1. CASE End
      BY <1>1, <2>1, EndMerges
    <2>2. CASE \/ SkipExpired \/ MakeRoom \/ NextObject \/ MatchDone
               \/ DropValue \/ DropNameDone
               \/ \E n \in Names : MatchName(n) \/ DropName(n)
      <3>1. pc' # "idle" /\ UNCHANGED <<stamp, start, lastId>>
        BY <2>2 DEF SkipExpired, MakeRoom, NextObject, MatchDone, DropValue,
                    DropNameDone, MatchName, DropName
      <3> QED
        BY <3>1, Hidden
    <2>3. ~Outside
      BY DEF Outside, Enqueue, Begin, Restart
    <2> QED
      BY <2>1, <2>2, <2>3 DEF Next, Loops
  <1> HIDE DEF Step
  <1>2. Spec => [][Step]_vars
    BY <1>1, MergeInvariant, PTL DEF Spec
  <1> QED
    BY <1>2 DEF ImplementsMerge, Step
=============================================================================

---------------------------- MODULE PluginProofs ----------------------------
(***************************************************************************)
(* Theorems of Plugin for every value of its constants: what a response    *)
(* holds although batches go on while it is encoded.                       *)
(***************************************************************************)
EXTENDS Plugin, PublisherProofs, FunctionTheorems

-----------------------------------------------------------------------------
(* The inductive invariant.  A step that throws ends a batch in the middle,*)
(* so that what Consistent says of a running batch is lost, but the store  *)
(* and the values stay as they were.                                       *)
Store ==
    /\ TypeOK /\ ListedIsFinished
    /\ AccountedOnce /\ AttachedToLater /\ SpecForEveryValue
    /\ pc # "crashed" => IInv

(* The lock: it is the batch that holds it.                                *)
LockHeld ==
    /\ holding \subseteq Handlers /\ blocked \subseteq Handlers
    /\ writer \in {"free", "waiting", "held"}
    /\ pc \in {"metrics", "merge"} => writer = "held"
    /\ writer = "held" => holding = {}
    /\ writer = "free" => blocked = {}

States == {"idle", "received", "locking", "built", "encoding"}

HandlersType ==
    /\ hstate \in [Handlers -> States]
    /\ req \in [Handlers -> Requests \cup {Malformed}]
    /\ next \in [Handlers -> Nat \ {0}]
    /\ inside \subseteq Handlers
    /\ resp = [h \in Handlers |-> resp[h]]
    /\ reading = [h \in Handlers |-> reading[h]]
    /\ reported = [h \in Handlers |-> reported[h]]
    /\ specsSent = [h \in Handlers |-> specsSent[h]]
    /\ atBuild = [h \in Handlers |-> atBuild[h]]

(* A request that asked for the lock is not forgotten, and it builds its   *)
(* response under it.                                                      *)
Asked(h) ==
    /\ hstate[h] = "built" => h \in holding
    /\ hstate[h] = "locking" => h \in holding \cup blocked

HasRequest(h) == hstate[h] \notin {"idle", "received"} => req[h] \in Requests

(* A response names containers that are known and, for each, objects of    *)
(* its own that are finished, even if they have left the lists.            *)
Finished(p, s) == s \in Objects /\ objs[s].path = p /\ objs[s].closed

ResponseOf(f) ==
    /\ DOMAIN f \subseteq known
    /\ \A p \in DOMAIN f :
          /\ f[p] \in Seq(Nat \ {0})
          /\ \A j \in DOMAIN f[p] : Finished(p, f[p][j])

(* What an entry has to report, of the values there were at the build.     *)
DueSpecs(at, e) == {<<e.path, c[2].name>> : c \in {d \in at : d[2].path = e.path}}

DueValues(at, e) == {c \in at : c[1] = e.obj}

Due(at, e, names, values) ==
    IF IsSpec(e) THEN DueSpecs(at, e) \subseteq names
                 ELSE DueValues(at, e) \subseteq values

(* Before it is encoded a response reported nothing.                       *)
NotEncoding(h) ==
    hstate[h] # "encoding" =>
        next[h] = 1 /\ h \notin inside /\ reported[h] = {} /\ specsSent[h] = {}

(* Values only come: what was there when a response was built, and what it *)
(* reported, is still there, and was reported for an object of it.         *)
OnlyHeld(h) ==
    /\ atBuild[h] \subseteq custom /\ reported[h] \subseteq custom
    /\ \A c \in reported[h] : c[1] \in SentObjects(h)

(* The entries behind the encoder have been reported in full.              *)
Reported(h) ==
    \A i \in 1 .. Len(Entries(resp[h])) :
        i < next[h] =>
            Due(atBuild[h], Entries(resp[h])[i], specsSent[h], reported[h])

(* What the entry it is at had to report when it came there, it has read.  *)
InsideEntry(h) ==
    h \in inside =>
        /\ next[h] <= Len(Entries(resp[h]))
        /\ Due(atBuild[h], Current(h), reading[h], reading[h])
        /\ ~IsSpec(Current(h)) =>
              \A c \in reading[h] : c \in custom /\ c[1] = Current(h).obj

Encoding(h) ==
    /\ HasRequest(h) /\ NotEncoding(h)
    /\ HasResponse(h) => ResponseOf(resp[h]) /\ OnlyHeld(h)
    /\ hstate[h] = "encoding" => Reported(h) /\ InsideEntry(h)

Windowed(h) ==
    hstate[h] = "built" =>
        /\ DOMAIN resp[h] = known
        /\ \A p \in known : WindowOf(resp[h][p], stats[p], req[h])

PInv ==
    /\ Store /\ LockHeld /\ HandlersType
    /\ \A h \in Handlers : Asked(h) /\ Encoding(h) /\ Windowed(h)

-----------------------------------------------------------------------------
(* The window of a list (buildStatsResponse).                              *)

(* The loop of Window, as the function of its turns.                       *)
Turns(list, r, taken) ==
    /\ taken[0] = <<>>
    /\ \A i \in 1 .. Len(list) :
          taken[i] = IF InRange(list[i], r) /\ ~Full(taken[i - 1], r)
                     THEN Append(taken[i - 1], list[i]) ELSE taken[i - 1]

LEMMA WindowTurns ==
    ASSUME NEW S, NEW list \in Seq(S), NEW r
    PROVE  \E taken \in [0 .. Len(list) -> Seq(S)] :
              Turns(list, r, taken) /\ Window(list, r) = taken[Len(list)]
  <1> DEFINE n == Len(list)
             T == Seq(S)
             none == <<>>
             Turn(i, x) == IF InRange(list[i], r) /\ ~Full(x, r)
                           THEN Append(x, list[i]) ELSE x
             step == [y \in (1 .. n) \X T |-> Turn(y[1], y[2])]
             Rec(f) == [i \in 0 .. n |-> IF i = 0 THEN <<>>
                          ELSE IF InRange(list[i], r) /\ ~Full(f[i - 1], r)
                               THEN Append(f[i - 1], list[i]) ELSE f[i - 1]]
             g == CHOOSE h : h = Rec(h)
  <1>1. n \in Nat /\ none \in T
    OBVIOUS
  <1>2. \A i \in 1 .. n, x \in T : Turn(i, x) \in T
    <2> TAKE i \in 1 .. n, x \in T
    <2>1. list[i] \in S
      BY ElementOfSeq
    <2>2. Append(x, list[i]) \in Seq(S)
      BY <2>1, AppendProperties
    <2> QED
      BY <2>2
  <1>3. \A f : Rec(f) = [i \in 0 .. n |-> IF i = 0 THEN none ELSE Turn(i, f[i - 1])]
    OBVIOUS
  <1>4. Window(list, r) = g[n]
    BY DEF Window
  <1> HIDE DEF n, T, none, Turn, Rec
  <1>5. step \in [(1 .. n) \X T -> T]
    BY <1>2
  <1> HIDE DEF step, g
  <1>6. PICK f : Runs(n, T, none, step, f)
    BY <1>1, <1>5, LoopRuns
  <1>7. ASSUME NEW i \in 1 .. n PROVE f[i] = Turn(i, f[i - 1])
    <2>1. i - 1 \in 0 .. n /\ f[i - 1] \in T
      BY <1>1, <1>6 DEF Runs
    <2> QED
      BY <1>6, <2>1 DEF step, Runs
  <1>8. f = Rec(f)
    <2>1. \A i \in 0 .. n : i # 0 => i \in 1 .. n
      BY <1>1
    <2>2. \A i \in 0 .. n : f[i] = IF i = 0 THEN none ELSE Turn(i, f[i - 1])
      BY <1>6, <1>7, <2>1 DEF Runs
    <2> QED
      BY <1>3, <1>6, <2>2 DEF Runs
  <1>9. g = Rec(g)
    BY <1>8 DEF g
  <1>10. g = [i \in 0 .. n |-> IF i = 0 THEN none ELSE Turn(i, g[i - 1])]
    BY <1>3, <1>9
  <1>11. /\ g[0] = none
         /\ \A i \in 1 .. n : g[i] = Turn(i, g[i - 1])
    BY <1>1, <1>10
  <1> DEFINE C == {i \in 0 .. n : g[i] \in T}
  <1>12. \A i \in 0 .. n : i \in C
    <2>1. 0 \in C
      BY <1>1, <1>11
    <2>2. \A i \in 1 .. n : i - 1 \in C => i \in C
      BY <1>1, <1>2, <1>11
    <2> HIDE DEF C
    <2> QED
      BY <1>1, <2>1, <2>2, TurnInduction
  <1>13. g \in [0 .. n -> T]
    BY <1>10, <1>12
  <1>14. Turns(list, r, g)
    BY <1>11 DEF Turns, n, none, Turn
  <1> QED
    BY <1>4, <1>13, <1>14 DEF n, T

(* The positions of the first i entries that the range admits.             *)
Admits(list, r, i) == {k \in 1 .. i : InRange(list[k], r)}

Capped(num, n) == IF 0 < num /\ num < n THEN num ELSE n

LEMMA AdmitsFinite ==
    ASSUME NEW list, NEW r, NEW i \in Nat
    PROVE  /\ IsFiniteSet(Admits(list, r, i))
           /\ Cardinality(Admits(list, r, i)) \in Nat
  <1>1. IsFiniteSet(1 .. i)
    BY FS_Interval
  <1>2. Admits(list, r, i) \subseteq 1 .. i
    BY DEF Admits
  <1> QED
    BY <1>1, <1>2, FS_Subset, FS_CardinalityType

LEMMA AdmitsNext ==
    ASSUME NEW list, NEW r, NEW i \in Nat \ {0}
    PROVE  /\ ~InRange(list[i], r) => Admits(list, r, i) = Admits(list, r, i - 1)
           /\ InRange(list[i], r) =>
                /\ Admits(list, r, i) = Admits(list, r, i - 1) \cup {i}
                /\ Cardinality(Admits(list, r, i)) =
                      Cardinality(Admits(list, r, i - 1)) + 1
  <1>1. 1 .. i = (1 .. i - 1) \cup {i} /\ i \notin 1 .. i - 1 /\ i - 1 \in Nat
    OBVIOUS
  <1>2. i \notin Admits(list, r, i - 1)
    BY <1>1 DEF Admits
  <1>3. ~InRange(list[i], r) => Admits(list, r, i) = Admits(list, r, i - 1)
    BY <1>1 DEF Admits
  <1>4. InRange(list[i], r) => Admits(list, r, i) = Admits(list, r, i - 1) \cup {i}
    BY <1>1 DEF Admits
  <1> QED
    BY <1>1, <1>2, <1>3, <1>4, AdmitsFinite, FS_AddElement

(* What the loop leaves: as many of the admitted entries as the limit      *)
(* allows, the first ones, in their order.                                 *)
LEMMA WindowTakes ==
    ASSUME NEW S, NEW list \in Seq(S), NEW r, r.num \in Int
    PROVE  /\ Window(list, r) \in Seq(S)
           /\ Len(Window(list, r)) =
                Capped(r.num, Cardinality(Admits(list, r, Len(list))))
           /\ \E f : TakenFrom(list, Admits(list, r, Len(list)), Window(list, r), f)
  <1> DEFINE n == Len(list)
             C(i) == Admits(list, r, i)
             num == r.num
  <1>1. PICK t \in [0 .. n -> Seq(S)] :
           Turns(list, r, t) /\ Window(list, r) = t[n]
    BY WindowTurns
  <1>2. n \in Nat /\ num \in Int
    OBVIOUS
  <1> DEFINE Good(i) ==
               /\ Len(t[i]) = Capped(num, Cardinality(C(i)))
               /\ \E f : /\ TakenFrom(list, C(i), t[i], f)
                         /\ ~Full(t[i], r) => AllTaken(C(i), t[i], f)
             G == {i \in 0 .. n : Good(i)}
  <1> HIDE DEF n, num
  <1>3. Good(0)
    <2> DEFINE f == [x \in 1 .. 0 |-> 0]
    <2>1. t[0] = <<>> /\ C(0) = {}
      BY <1>1 DEF Turns, Admits
    <2>2. Len(t[0]) = 0 /\ Cardinality(C(0)) = 0
      BY <2>1, FS_EmptySet
    <2>3. f \in [1 .. 0 -> {}]
      OBVIOUS
    <2>4. TakenFrom(list, C(0), t[0], f)
      <3> HIDE DEF f
      <3> QED
        BY <2>1, <2>2, <2>3 DEF TakenFrom
    <2> QED
      BY <1>2, <2>1, <2>2, <2>4 DEF Capped, AllTaken
  <1>4. ASSUME NEW i \in 1 .. n, Good(i - 1) PROVE Good(i)
    <2> DEFINE w == t[i - 1]
               v == t[i]
               c == Cardinality(C(i - 1))
    <2>1. /\ i \in Nat \ {0} /\ i - 1 \in Nat /\ i - 1 \in 0 .. n
          /\ w \in Seq(S) /\ i \in 1 .. Len(list)
      <3>1. i \in Nat \ {0} /\ i - 1 \in Nat /\ i - 1 \in 0 .. n
        BY <1>2
      <3>2. w \in Seq(S)
        BY <1>1, <3>1
      <3> QED
        BY <3>1, <3>2 DEF n
    <2>2. /\ InRange(list[i], r) /\ ~Full(w, r) => v = Append(w, list[i])
          /\ ~(InRange(list[i], r) /\ ~Full(w, r)) => v = w
      BY <1>1 DEF Turns, n
    <2>3. PICK f : /\ TakenFrom(list, C(i - 1), w, f)
                   /\ ~Full(w, r) => AllTaken(C(i - 1), w, f)
      BY <1>4
    <2>4. Len(w) = Capped(num, c) /\ c \in Nat
      BY <1>4, <2>1, AdmitsFinite
    <2>5. C(i - 1) \subseteq 1 .. i - 1
      BY DEF Admits
    <2>6. CASE ~InRange(list[i], r)
      <3>1. C(i) = C(i - 1) /\ v = w
        BY <2>1, <2>2, <2>6, AdmitsNext
      <3> HIDE DEF C, v, w
      <3> QED
        BY <2>3, <2>4, <3>1 DEF v, w
    <2>7. CASE InRange(list[i], r) /\ Full(w, r)
      <3>1. C(i) = C(i - 1) \cup {i} /\ Cardinality(C(i)) = c + 1 /\ v = w
        BY <2>1, <2>2, <2>7, AdmitsNext
      <3>2. Len(v) = Capped(num, c + 1)
        BY <1>2, <2>4, <2>7, <3>1 DEF Full, Capped, num
      <3>3. TakenFrom(list, C(i), v, f)
        <4> HIDE DEF C, v, w
        <4> QED
          BY <2>1, <2>3, <2>5, <3>1, TakenStays
      <3> QED
        BY <2>7, <3>1, <3>2, <3>3
    <2>8. CASE InRange(list[i], r) /\ ~Full(w, r)
      <3>1. /\ C(i) = C(i - 1) \cup {i} /\ Cardinality(C(i)) = c + 1
            /\ v = Append(w, list[i]) /\ Len(v) = Len(w) + 1
        BY <2>1, <2>2, <2>8, AdmitsNext, AppendProperties, ElementOfSeq
      <3>2. Len(v) = Capped(num, c + 1)
        BY <1>2, <2>1, <2>4, <2>8, <3>1 DEF Full, Capped, num
      <3>3. \E g : /\ TakenFrom(list, C(i), v, g)
                   /\ AllTaken(C(i), v, g)
        <4>1. AllTaken(C(i - 1), w, f)
          BY <2>3, <2>8
        <4> HIDE DEF C, v, w
        <4>2. \E g : /\ TakenFrom(list, C(i - 1) \cup {i}, Append(w, list[i]), g)
                     /\ AllTaken(C(i - 1) \cup {i}, Append(w, list[i]), g)
          BY <2>1, <2>3, <2>5, <4>1, TakenGrows
        <4> QED
          BY <3>1, <4>2
      <3> QED
        BY <3>1, <3>2, <3>3
    <2> QED
      BY <2>6, <2>7, <2>8
  <1>5. n \in G
    <2>1. 0 \in G /\ \A i \in 1 .. n : i - 1 \in G => i \in G
      <3> HIDE DEF Good
      <3>1. \A i \in 1 .. n : i \in 0 .. n /\ i - 1 \in 0 .. n
        BY <1>2
      <3> QED
        BY <1>2, <1>3, <1>4, <3>1
    <2>2. n \in 0 .. n
      BY <1>2
    <2> HIDE DEF G
    <2> QED
      BY <1>2, <2>1, <2>2, TurnInduction
  <1> QED
    BY <1>1, <1>2, <1>5 DEF n, num

(* The window of a list in any order sort.Sort may leave it in.            *)
LEMMA SortedWindow ==
    ASSUME NEW S, NEW src \in Seq(S), NEW r, r.num \in Int,
           NEW order \in Sortings(src),
           \A k \in DOMAIN src : objs[src[k]].stamp \in Int
    PROVE  Window(order, r) \in Seq(S) /\ WindowOf(Window(order, r), src, r)
  <1> DEFINE n == Len(src)
             w == Window(order, r)
             A == {k \in 1 .. n : InRange(src[k], r)}
             C == Admits(order, r, n)
  <1>1. n \in Nat /\ DOMAIN src = 1 .. n /\ \A k \in 1 .. n : src[k] \in S
    BY ElementOfSeq
  <1> HIDE DEF n
  <1>2. PICK g \in Bijection(1 .. n, 1 .. n) :
           /\ \A i, j \in 1 .. n : i < j => Less(src[g[i]], src[g[j]])
           /\ order = [i \in 1 .. n |-> src[g[i]]]
    BY <1>1 DEF Sortings
  <1>3. /\ g \in [1 .. n -> 1 .. n]
        /\ \A i, j \in 1 .. n : g[i] = g[j] => i = j
        /\ \A k \in 1 .. n : \E i \in 1 .. n : g[i] = k
    BY DEF Bijection, Injection, Surjection, IsInjective
  <1>4. \A i \in 1 .. n : order[i] = src[g[i]] /\ g[i] \in 1 .. n
    BY <1>2, <1>3
  <1>5. order \in Seq(S) /\ Len(order) = n
    <2>1. \A i \in 1 .. n : src[g[i]] \in S
      BY <1>1, <1>3
    <2>2. order \in [1 .. n -> S]
      BY <1>2, <2>1
    <2> QED
      BY <1>1, <2>2, LenProperties, SeqDef
  <1>6. \A i, j \in 1 .. n :
           i < j => objs[order[i]].stamp >= objs[order[j]].stamp
    BY <1>2, <1>4 DEF Less
  <1>7. /\ w \in Seq(S)
        /\ Len(w) = Capped(r.num, Cardinality(C))
        /\ \E f : TakenFrom(order, C, w, f)
    BY <1>5, WindowTakes
  <1>8. PICK f : TakenFrom(order, C, w, f)
    BY <1>7
  <1>9. Len(w) \in Nat /\ DOMAIN w = 1 .. Len(w)
    BY <1>7
  <1>10. C \subseteq 1 .. n /\ \A i \in 1 .. n : i \in C <=> g[i] \in A
    BY <1>4 DEF Admits
  <1> HIDE DEF w, A, C
  <1>11. \A x \in 1 .. Len(w) : f[x] \in C /\ f[x] \in 1 .. n
                               /\ w[x] = src[g[f[x]]] /\ w[x] = order[f[x]]
    BY <1>4, <1>8, <1>10 DEF TakenFrom
  <1>12. \A x, y \in 1 .. Len(w) :
            x < y => objs[w[x]].stamp >= objs[w[y]].stamp
    BY <1>6, <1>8, <1>11 DEF TakenFrom
  <1>13. Cardinality(A) = Cardinality(C)
    <2>1. A \subseteq 1 .. n
      BY DEF A
    <2> DEFINE b == [i \in C |-> g[i]]
    <2>2. b \in [C -> A]
      BY <1>10
    <2>3. \A i, j \in C : b[i] = b[j] => i = j
      BY <1>3, <1>10
    <2>4. \A k \in A : \E i \in C : b[i] = k
      BY <1>3, <1>10, <2>1
    <2>5. b \in Bijection(C, A)
      <3> HIDE DEF b
      <3> QED
        BY <2>2, <2>3, <2>4, Fun_IsBij
    <2>6. IsFiniteSet(C)
      BY <1>1, AdmitsFinite DEF C
    <2> QED
      BY <2>5, <2>6, FS_Bijection DEF ExistsBijection
  <1>14. \A x \in 1 .. Len(w) : \E k \in A : w[x] = src[k]
    BY <1>10, <1>11
  <1>15. ASSUME NEW x \in 1 .. Len(w), NEW k \in A
         PROVE  \/ \E y \in 1 .. Len(w) : w[y] = src[k]
                \/ objs[src[k]].stamp <= objs[w[x]].stamp
    <2>1. PICK i \in C : g[i] = k /\ i \in 1 .. n
      BY <1>3, <1>10 DEF A
    <2>2. src[k] = order[i]
      BY <1>4, <2>1
    <2>3. CASE \E y \in 1 .. Len(w) : f[y] = i
      BY <1>11, <2>2, <2>3
    <2>4. CASE f[x] < i
      <3>1. objs[order[f[x]]].stamp >= objs[order[i]].stamp
        BY <1>6, <1>11, <2>1, <2>4
      <3>2. objs[order[i]].stamp \in Int /\ objs[order[f[x]]].stamp \in Int
        BY <1>1, <1>4, <1>11, <2>1
      <3> QED
        BY <1>11, <2>2, <3>1, <3>2
    <2> QED
      BY <1>8, <2>3, <2>4 DEF TakenFrom
  <1>16. WindowOf(w, src, r)
    <2>1. {k \in DOMAIN src : InRange(src[k], r)} = A
      BY <1>1 DEF A
    <2>2. \A k \in A : (\E y \in 1 .. Len(w) : w[y] = src[k]) => src[k] \in Range(w)
      BY <1>9 DEF Range
    <2>3. Len(w) = IF 0 < r.num /\ r.num < Cardinality(A)
                   THEN r.num ELSE Cardinality(A)
      BY <1>7, <1>13 DEF Capped
    <2> QED
      BY <1>9, <1>12, <1>14, <1>15, <2>1, <2>2, <2>3 DEF WindowOf
  <1> QED
    BY <1>7, <1>16 DEF w

-----------------------------------------------------------------------------
(* The entries of a response.                                              *)

Holds(s, x) == \E i \in 1 .. Len(s) : s[i] = x

LEMMA HoldsConcat ==
    ASSUME NEW S, NEW s \in Seq(S), NEW t \in Seq(S), NEW x
    PROVE  Holds(s \o t, x) <=> Holds(s, x) \/ Holds(t, x)
  <1> DEFINE u == s \o t
             m == Len(s)
             n == Len(t)
  <1>1. /\ m \in Nat /\ n \in Nat /\ Len(u) = m + n
        /\ \A i \in 1 .. m : u[i] = s[i]
        /\ \A i \in 1 .. n : u[m + i] = t[i]
    OBVIOUS
  <1> HIDE DEF m, n, u
  <1>2. \A i \in 1 .. m + n : i \in 1 .. m \/ (i - m \in 1 .. n /\ m + (i - m) = i)
    BY <1>1
  <1>3. \A i \in 1 .. n : m + i \in 1 .. m + n
    BY <1>1
  <1>4. \A i \in 1 .. m : i \in 1 .. m + n
    BY <1>1
  <1>5. Holds(u, x) => Holds(s, x) \/ Holds(t, x)
    <2> SUFFICES ASSUME NEW i \in 1 .. m + n, u[i] = x
                 PROVE  (\E k \in 1 .. m : s[k] = x) \/ (\E k \in 1 .. n : t[k] = x)
      BY <1>1 DEF Holds, m, n
    <2> QED
      BY <1>1, <1>2
  <1>6. Holds(s, x) \/ Holds(t, x) => Holds(u, x)
    <2>1. (\E k \in 1 .. m : s[k] = x) => \E i \in 1 .. m + n : u[i] = x
      BY <1>1, <1>4
    <2>2. (\E k \in 1 .. n : t[k] = x) => \E i \in 1 .. m + n : u[i] = x
      BY <1>1, <1>3
    <2> QED
      BY <1>1, <2>1, <2>2 DEF Holds, m, n
  <1> QED
    BY <1>5, <1>6 DEF u

(* FlattenSeq holds what its parts hold.                                   *)
LEMMA FlattenHolds ==
    ASSUME NEW S, NEW ss \in Seq(Seq(S))
    PROVE  /\ FlattenSeq(ss) \in Seq(S)
           /\ \A x : Holds(FlattenSeq(ss), x)
                        <=> \E j \in 1 .. Len(ss) : Holds(ss[j], x)
  <1> DEFINE n == Len(ss)
             T == Seq(S)
             none == <<>>
             step == [y \in (1 .. n) \X T |-> y[2] \o ss[y[1]]]
             Rec(f) == [i \in 1 .. n |-> IF i = 1 THEN ss[i] ELSE f[i - 1] \o ss[i]]
             g == CHOOSE h : h = Rec(h)
  <1>1. n \in Nat /\ none \in T /\ \A j \in 1 .. n : ss[j] \in T
    BY ElementOfSeq
  <1>2. CASE n = 0
    <2>1. FlattenSeq(ss) = <<>> /\ Len(FlattenSeq(ss)) = 0
      BY <1>2 DEF FlattenSeq
    <2> QED
      BY <1>2, <2>1 DEF Holds
  <1>3. CASE n # 0
    <2>1. FlattenSeq(ss) = g[n]
      BY <1>3 DEF FlattenSeq
    <2>2. \A s, t \in T : s \o t \in T
      BY ConcatProperties
    <2>3. \A s \in T : none \o s = s
      BY ConcatEmptySeq
    <2>4. \A s, t \in T : \A x : Holds(s \o t, x) <=> Holds(s, x) \/ Holds(t, x)
      BY HoldsConcat
    <2>5. \A x : ~Holds(none, x)
      BY DEF Holds
    <2> HIDE DEF n, T, none, Rec
    <2>6. step \in [(1 .. n) \X T -> T]
      BY <1>1, <2>2
    <2> HIDE DEF step, g
    <2>7. PICK f : Runs(n, T, none, step, f)
      BY <1>1, <2>6, LoopRuns
    <2>8. ASSUME NEW i \in 1 .. n
          PROVE  /\ i - 1 \in 0 .. n /\ f[i - 1] \in T /\ f[i] \in T
                 /\ f[i] = f[i - 1] \o ss[i]
      <3>1. i - 1 \in 0 .. n /\ i \in 0 .. n
        BY <1>1
      <3>2. f[i - 1] \in T /\ f[i] \in T
        BY <2>7, <3>1 DEF Runs
      <3>3. f[i] = step[<<i, f[i - 1]>>]
        BY <2>7 DEF Runs
      <3> QED
        BY <3>1, <3>2, <3>3 DEF step
    <2> DEFINE h == [i \in 1 .. n |-> f[i]]
    <2>9. h = Rec(h)
      <3>1. ASSUME NEW i \in 1 .. n
            PROVE  f[i] = IF i = 1 THEN ss[i] ELSE h[i - 1] \o ss[i]
        <4>1. CASE i = 1
          <5>1. f[0] = none /\ f[i - 1] = f[0]
            BY <2>7, <4>1 DEF Runs
          <5>2. f[i] = none \o ss[i] /\ ss[i] \in T
            BY <1>1, <2>8, <5>1
          <5> QED
            BY <2>3, <4>1, <5>2
        <4>2. CASE i # 1
          <5>1. i - 1 \in 1 .. n
            BY <1>1, <4>2
          <5> QED
            BY <2>8, <4>2, <5>1
        <4> QED
          BY <4>1, <4>2
      <3> QED
        BY <3>1 DEF Rec
    <2>10. g = Rec(g)
      <3>1. \E k : k = Rec(k)
        BY <2>9
      <3> QED
        BY <3>1 DEF g
    <2>11. g[1] = ss[1] /\ \A i \in 1 .. n : i # 1 => g[i] = g[i - 1] \o ss[i]
      <3>1. g = [i \in 1 .. n |-> IF i = 1 THEN ss[i] ELSE g[i - 1] \o ss[i]]
        BY <2>10 DEF Rec
      <3>2. 1 \in 1 .. n
        BY <1>1, <1>3
      <3>3. \A i \in 1 .. n : g[i] = IF i = 1 THEN ss[i] ELSE g[i - 1] \o ss[i]
        BY <3>1
      <3> QED
        BY <3>2, <3>3
    <2> DEFINE G == {i \in 0 .. n : i = 0 \/
                       /\ g[i] \in T
                       /\ \A x : Holds(g[i], x) <=> \E j \in 1 .. i : Holds(ss[j], x)}
    <2>12. \A i \in 1 .. n : i - 1 \in G => i \in G
      <3> SUFFICES ASSUME NEW i \in 1 .. n, i - 1 \in G PROVE i \in G
        OBVIOUS
      <3>1. i \in 0 .. n /\ i \in Nat
        BY <1>1
      <3>2. CASE i = 1
        <4>1. \A j \in 1 .. i : j = 1
          BY <3>2
        <4>2. 1 \in 1 .. i
          BY <3>2
        <4> QED
          BY <1>1, <2>11, <3>1, <3>2, <4>1, <4>2
      <3>3. CASE i # 1
        <4>1. /\ g[i - 1] \in T
              /\ \A x : Holds(g[i - 1], x) <=> \E j \in 1 .. i - 1 : Holds(ss[j], x)
          BY <3>1, <3>3
        <4>2. g[i] = g[i - 1] \o ss[i] /\ ss[i] \in T
          BY <1>1, <2>11, <3>3
        <4>3. g[i] \in T
          BY <2>2, <4>1, <4>2
        <4>4. \A j : j \in 1 .. i <=> j \in 1 .. i - 1 \/ j = i
          BY <3>1
        <4>5. \A x : Holds(g[i], x) <=> \E j \in 1 .. i : Holds(ss[j], x)
          BY <2>4, <4>1, <4>2, <4>4
        <4> QED
          BY <3>1, <4>3, <4>5
      <3> QED
        BY <3>2, <3>3
    <2>13. n \in G
      <3>1. 0 \in G /\ n \in 0 .. n
        BY <1>1
      <3> HIDE DEF G
      <3> QED
        BY <1>1, <2>12, <3>1, TurnInduction
    <2> QED
      BY <1>3, <2>1, <2>13 DEF n, T
  <1> QED
    BY <1>2, <1>3

(* What the encoder walks: the spec map of each container of the response  *)
(* and each of its objects, and nothing else.                              *)
Shareable(f) ==
    DOMAIN f \subseteq Paths /\ \A p \in DOMAIN f : f[p] \in Seq(Nat \ {0})

SpecEntry(p) == [path |-> p, obj |-> 0]

ObjectEntry(p, s) == [path |-> p, obj |-> s]

LEMMA EntriesHold ==
    ASSUME NEW f, Shareable(f)
    PROVE  /\ Len(Entries(f)) \in Nat
           /\ \A i \in 1 .. Len(Entries(f)) :
                LET e == Entries(f)[i]
                IN  /\ e.path \in DOMAIN f
                    /\ ~IsSpec(e) => \E j \in DOMAIN f[e.path] : e.obj = f[e.path][j]
           /\ \A p \in DOMAIN f :
                /\ Holds(Entries(f), SpecEntry(p))
                /\ \A j \in DOMAIN f[p] : Holds(Entries(f), ObjectEntry(p, f[p][j]))
  <1> DEFINE S == [path : Paths, obj : Nat]
             Tail1(p) == [j \in DOMAIN f[p] |-> [path |-> p, obj |-> f[p][j]]]
             Row(p) == IF p \notin DOMAIN f THEN <<>>
                       ELSE <<[path |-> p, obj |-> 0]>> \o Tail1(p)
             ss == [i \in DOMAIN PathOrder |-> Row(PathOrder[i])]
  <1>1. /\ PathOrder \in Seq(Paths) /\ Len(PathOrder) \in Nat
        /\ DOMAIN PathOrder = 1 .. Len(PathOrder)
        /\ \A p \in Paths : \E i \in DOMAIN PathOrder : PathOrder[i] = p
        /\ \A i \in DOMAIN PathOrder : PathOrder[i] \in Paths
    BY PathOrderAssumption
  <1>2. Entries(f) = FlattenSeq(ss)
    BY DEF Entries
  <1>3. ASSUME NEW p \in DOMAIN f
        PROVE  /\ Tail1(p) \in Seq(S)
               /\ \A x : Holds(Tail1(p), x) <=>
                     \E j \in DOMAIN f[p] : x = ObjectEntry(p, f[p][j])
    <2>1. p \in Paths /\ f[p] \in Seq(Nat \ {0})
      BY DEF Shareable
    <2>2. /\ Len(f[p]) \in Nat /\ DOMAIN f[p] = 1 .. Len(f[p])
          /\ \A j \in 1 .. Len(f[p]) : f[p][j] \in Nat
      BY <2>1
    <2>3. Tail1(p) \in [1 .. Len(f[p]) -> S]
      BY <2>1, <2>2
    <2>4. Tail1(p) \in Seq(S) /\ Len(Tail1(p)) = Len(f[p])
      <3> HIDE DEF Tail1, S
      <3> QED
        BY <2>2, <2>3, SeqDef, LenProperties
    <2>5. \A j \in DOMAIN f[p] : Tail1(p)[j] = ObjectEntry(p, f[p][j])
      BY DEF ObjectEntry
    <2> HIDE DEF Tail1
    <2> QED
      BY <2>2, <2>4, <2>5 DEF Holds
  <1>4. ASSUME NEW p \in Paths
        PROVE  /\ Row(p) \in Seq(S)
               /\ \A x : Holds(Row(p), x) <=>
                     /\ p \in DOMAIN f
                     /\ \/ x = SpecEntry(p)
                        \/ \E j \in DOMAIN f[p] : x = ObjectEntry(p, f[p][j])
    <2>1. CASE p \notin DOMAIN f
      <3>1. Row(p) = <<>> /\ Len(Row(p)) = 0
        BY <2>1
      <3> QED
        BY <2>1, <3>1, EmptySeq DEF Holds
    <2>2. CASE p \in DOMAIN f
      <3> DEFINE one == <<[path |-> p, obj |-> 0]>>
      <3>1. one \in Seq(S) /\ Len(one) = 1 /\ one[1] = SpecEntry(p)
        BY DEF SpecEntry
      <3>2. Row(p) = one \o Tail1(p)
        BY <2>2
      <3>3. \A x : Holds(one, x) <=> x = SpecEntry(p)
        <4> HIDE DEF one
        <4> QED
          BY <3>1 DEF Holds
      <3> HIDE DEF one, Row, Tail1, S
      <3>4. Tail1(p) \in Seq(S)
        BY <1>3, <2>2
      <3>5. Row(p) \in Seq(S)
        BY <3>1, <3>2, <3>4, ConcatProperties
      <3>6. \A x : Holds(Row(p), x) <=> Holds(one, x) \/ Holds(Tail1(p), x)
        BY <3>1, <3>2, <3>4, HoldsConcat
      <3> QED
        BY <1>3, <2>2, <3>3, <3>5, <3>6
    <2> QED
      BY <2>1, <2>2
  <1> HIDE DEF Row, Tail1, S
  <1>5. ss \in Seq(Seq(S)) /\ Len(ss) = Len(PathOrder)
    <2>1. ss \in [1 .. Len(PathOrder) -> Seq(S)]
      BY <1>1, <1>4
    <2> HIDE DEF ss
    <2> QED
      BY <1>1, <2>1, SeqDef, LenProperties
  <1>6. \A i \in 1 .. Len(PathOrder) : ss[i] = Row(PathOrder[i])
    BY <1>1
  <1> HIDE DEF ss
  <1>7. FlattenSeq(ss) \in Seq(S)
    BY <1>5, FlattenHolds
  <1>8. \A x : Holds(Entries(f), x) <=>
                 \E i \in 1 .. Len(PathOrder) : Holds(Row(PathOrder[i]), x)
    BY <1>2, <1>5, <1>6, FlattenHolds
  <1>9. \A p \in DOMAIN f : \E i \in 1 .. Len(PathOrder) : PathOrder[i] = p
    BY <1>1 DEF Shareable
  <1>10. \A x : Holds(Entries(f), x) <=>
            \E p \in DOMAIN f :
               \/ x = SpecEntry(p)
               \/ \E j \in DOMAIN f[p] : x = ObjectEntry(p, f[p][j])
    BY <1>1, <1>4, <1>8, <1>9
  <1>11. Len(Entries(f)) \in Nat
    BY <1>2, <1>7
  <1>12. ASSUME NEW i \in 1 .. Len(Entries(f))
         PROVE  LET e == Entries(f)[i]
                IN  /\ e.path \in DOMAIN f
                    /\ ~IsSpec(e) => \E j \in DOMAIN f[e.path] : e.obj = f[e.path][j]
    <2> DEFINE e == Entries(f)[i]
    <2>1. Holds(Entries(f), e)
      BY DEF Holds
    <2>2. PICK p \in DOMAIN f :
             \/ e = SpecEntry(p)
             \/ \E j \in DOMAIN f[p] : e = ObjectEntry(p, f[p][j])
      BY <1>10, <2>1
    <2>3. CASE e = SpecEntry(p)
      BY <2>3 DEF SpecEntry, IsSpec
    <2>4. ASSUME NEW j \in DOMAIN f[p], e = ObjectEntry(p, f[p][j])
          PROVE  e.path = p /\ e.obj = f[p][j]
      BY <2>4 DEF ObjectEntry
    <2> QED
      BY <2>2, <2>3, <2>4
  <1> QED
    BY <1>10, <1>11, <1>12

-----------------------------------------------------------------------------
(* What a step of the publisher leaves of the store.                       *)
Grows ==
    /\ known \subseteq known' /\ custom \subseteq custom'
    /\ \A s \in Objects : s \in Objects' /\ objs'[s].path = objs[s].path
    /\ \A s \in Objects : objs[s].closed => objs'[s] = objs[s]

LEMMA StoreGrows ==
    ASSUME IInv, [Next]_vars, pc # "crashed"
    PROVE  Grows
  <1> USE DEF IInv
  <1>1. CASE UNCHANGED <<objs, known, custom>>
    BY <1>1 DEF Grows, Objects
  <1>2. ASSUME NEW m \in Metrics, Fetch(m), BatchHeap(m), UNCHANGED custom
        PROVE  Grows
    <2>1. known \subseteq known' /\ pc = "metrics" /\ m.path \in Paths
      BY <1>2, MetricsAssumption DEF Fetch, Take
    <2>2. Len(objs') = Len(FetchStats(m))
      BY <1>2, WriteFieldType DEF BatchHeap
    <2>3. Objects \subseteq Objects'
      BY <1>2, <2>2, FetchType
    <2>4. \A s \in Objects : objs[s].closed => s # temp[m.path]
      <3>1. temp[m.path] # 0 => ~objs[temp[m.path]].closed
        BY <2>1 DEF Consistent
      <3> QED
        BY <3>1 DEF Objects
    <2> QED
      BY <1>2, <2>1, <2>3, <2>4, BatchHeapKept DEF Grows
  <1>3. ASSUME NEW p \in Paths, MergeStatsForDocker(p) PROVE Grows
    <2>1. /\ known' = known /\ custom \subseteq custom'
          /\ objs' = [objs EXCEPT ![temp[p]].closed = TRUE]
          /\ temp[p] # 0 /\ pc = "merge" /\ p \in toMerge
      BY <1>3 DEF MergeStatsForDocker
    <2>2. temp[p] \in Objects /\ objs \in Seq(Object)
      BY <2>1 DEF TypeOK
    <2>3. ~objs[temp[p]].closed
      BY <2>1 DEF Consistent
    <2> QED
      BY <1>3, <2>1, <2>2, <2>3, MergeHeap DEF Grows, Objects
  <1>4. ASSUME NEW m \in Metrics, Process(m) PROVE Grows
    <2>1. CASE SkipForeign(m)
      BY <1>1, <2>1 DEF SkipForeign, customVars
    <2>2. CASE InsertIntoStats(m) \/ InsertIntoIface(m) \/ InsertIntoFs(m)
      BY <1>2, <2>2 DEF InsertIntoStats, InsertIntoIface, InsertIntoFs,
                        BatchHeap, Targets, WriteField, customVars
    <2>3. CASE InsertIntoCustomMetrics(m) \/ InsertOther(m) \/ Panic(m)
      BY <1>2, <2>3 DEF InsertIntoCustomMetrics, InsertOther, Panic, BatchHeap,
                        customVars
    <2> QED
      BY <1>4, <2>1, <2>2, <2>3 DEF Process
  <1>5. CASE \/ Lock \/ EndCustomOnly \/ BeginMerge \/ EndMerge \/ UNCHANGED vars
             \/ \E p \in Paths : MergeNothing(p)
    BY <1>1, <1>5 DEF Lock, EndCustomOnly, BeginMerge, EndMerge, Unlock,
                      MergeNothing, vars, customVars
  <1>6. ~Restart
    BY DEF Restart
  <1> QED
    BY <1>3, <1>4, <1>5, <1>6 DEF Next, Merge

(* A handler whose own variables stay as they are keeps what is said of it *)
(* as the store grows.                                                     *)
SameFor(h) ==
    /\ hstate'[h] = hstate[h] /\ req'[h] = req[h] /\ resp'[h] = resp[h]
    /\ next'[h] = next[h] /\ (h \in inside' <=> h \in inside)
    /\ reading'[h] = reading[h] /\ reported'[h] = reported[h]
    /\ specsSent'[h] = specsSent[h] /\ atBuild'[h] = atBuild[h]

LEMMA EncodingKept ==
    ASSUME Grows, NEW h \in Handlers, SameFor(h), Encoding(h)
    PROVE  Encoding(h)'
  <1>1. HasRequest(h)' /\ NotEncoding(h)'
    BY DEF Encoding, HasRequest, NotEncoding, SameFor
  <1>2. ASSUME HasResponse(h)' PROVE ResponseOf(resp[h])' /\ OnlyHeld(h)'
    <2>1. ResponseOf(resp[h]) /\ OnlyHeld(h)
      BY <1>2 DEF Encoding, HasResponse, SameFor
    <2>2. ResponseOf(resp[h])'
      <3> DEFINE f == resp[h]
      <3>1. ResponseOf(f) /\ resp'[h] = f
        BY <2>1 DEF SameFor
      <3> QED
        BY <3>1 DEF SameFor, ResponseOf, Finished, Grows
    <2>3. OnlyHeld(h)'
      BY <2>1 DEF OnlyHeld, SameFor, Grows, SentObjects
    <2> QED
      BY <2>2, <2>3
  <1>3. ASSUME hstate'[h] = "encoding" PROVE Reported(h)' /\ InsideEntry(h)'
    <2>1. Reported(h) /\ InsideEntry(h)
      BY <1>3 DEF Encoding, SameFor
    <2>2. Reported(h)'
      BY <2>1 DEF Reported, SameFor
    <2>3. InsideEntry(h)'
      BY <2>1 DEF InsideEntry, SameFor, Grows, Current
    <2> QED
      BY <2>2, <2>3
  <1> QED
    BY <1>1, <1>2, <1>3 DEF Encoding

LEMMA WindowKept ==
    ASSUME UNCHANGED <<objs, known, stats>>, NEW h \in Handlers,
           SameFor(h), Windowed(h)
    PROVE  Windowed(h)'
  <1> SUFFICES ASSUME hstate'[h] = "built"
               PROVE  /\ DOMAIN resp'[h] = known'
                      /\ \A p \in known' : WindowOf(resp[h][p], stats[p], req[h])'
    BY DEF Windowed
  <1>1. /\ DOMAIN resp[h] = known
        /\ \A p \in known : WindowOf(resp[h][p], stats[p], req[h])
    BY DEF Windowed, SameFor
  <1>2. resp'[h] = resp[h] /\ req'[h] = req[h]
    BY DEF SameFor
  <1>3. ASSUME NEW p \in known PROVE WindowOf(resp[h][p], stats[p], req[h])'
    <2>1. WindowOf(resp[h][p], stats[p], req[h])
      BY <1>1
    <2> QED
      BY <1>2, <2>1 DEF WindowOf, InRange
  <1> QED
    BY <1>1, <1>2, <1>3

LEMMA PluginInitInv == PluginInit => PInv
  <1> SUFFICES ASSUME PluginInit PROVE PInv
    OBVIOUS
  <1>1. Store
    BY InitInv DEF PluginInit, Store, IInv
  <1>2. LockHeld /\ HandlersType
    BY DEF PluginInit, Init, MutexInit, RestInit, LockHeld, HandlersType, States
  <1>3. \A h \in Handlers : Asked(h) /\ Encoding(h) /\ Windowed(h)
    BY DEF PluginInit, RestInit, Asked, Encoding, Windowed, HasRequest,
           NotEncoding, HasResponse
  <1> QED
    BY <1>1, <1>2, <1>3 DEF PInv

-----------------------------------------------------------------------------
(* The steps of a batch.                                                   *)

LEMMA StoreStep ==
    ASSUME Store, pc # "crashed", [Next]_vars
    PROVE  Store' /\ Grows
  <1>1. IInv
    BY DEF Store
  <1>2. IInv'
    BY <1>1, StepInv
  <1> QED
    BY <1>1, <1>2, StoreGrows DEF Store, IInv

LEMMA PublisherStep ==
    ASSUME PInv, pc # "crashed", [Next]_vars, UNCHANGED handlerVars,
           LockHeld', \A h \in Handlers : Asked(h)',
           \/ \A h \in Handlers : hstate[h] # "built"
           \/ UNCHANGED <<objs, known, stats>>
    PROVE  PInv'
  <1>1. Store' /\ Grows
    BY StoreStep DEF PInv
  <1>2. \A h \in Handlers : SameFor(h)
    BY DEF SameFor, handlerVars
  <1>3. \A h \in Handlers : Encoding(h)'
    BY <1>1, <1>2, EncodingKept DEF PInv
  <1>4. \A h \in Handlers : Windowed(h)'
    <2> TAKE h \in Handlers
    <2>1. CASE hstate[h] # "built"
      BY <1>2, <2>1 DEF Windowed, SameFor
    <2>2. CASE UNCHANGED <<objs, known, stats>>
      BY <1>2, <2>2, WindowKept DEF PInv
    <2> QED
      BY <2>1, <2>2
  <1>5. HandlersType'
    BY DEF PInv, HandlersType, handlerVars
  <1> QED
    BY <1>1, <1>3, <1>4, <1>5 DEF PInv

LEMMA InvPublishCalled == ASSUME PInv, PublishCalled PROVE PInv'
  <1>1. /\ writer' = "waiting" /\ UNCHANGED <<holding, blocked, hstate>>
        /\ pc = "idle" /\ UNCHANGED vars /\ UNCHANGED handlerVars
    BY DEF PublishCalled, LockAnnounce, handlerVars
  <1>2. UNCHANGED <<pc, objs, known, stats>>
    BY <1>1 DEF vars
  <1>3. LockHeld' /\ \A h \in Handlers : Asked(h)'
    BY <1>1, <1>2 DEF PInv, LockHeld, Asked
  <1> QED
    BY <1>1, <1>2, <1>3, PublisherStep

LEMMA InvPublishLocked == ASSUME PInv, PublishLocked PROVE PInv'
  <1>1. /\ writer' = "held" /\ holding = {} /\ UNCHANGED <<holding, blocked, hstate>>
        /\ pc = "idle" /\ pc' = "metrics" /\ Lock /\ UNCHANGED handlerVars
    BY DEF PublishLocked, LockAcquire, Lock, handlerVars
  <1>2. LockHeld' /\ \A h \in Handlers : Asked(h)'
    BY <1>1 DEF PInv, LockHeld, Asked
  <1>3. \A h \in Handlers : hstate[h] # "built"
    BY <1>1 DEF PInv, Asked
  <1> QED
    BY <1>1, <1>2, <1>3, PublisherStep DEF Next

(* While a batch runs no response is being built.                          *)
LEMMA NoneBuilt ==
    ASSUME PInv, pc \in {"metrics", "merge"}
    PROVE  /\ writer = "held" /\ holding = {}
           /\ \A h \in Handlers : hstate[h] # "built"
  BY DEF PInv, LockHeld, Asked

LEMMA InvBatch ==
    ASSUME PInv, ProcessMetric \/ StartMerge \/ MergeContainer
    PROVE  PInv'
  <1>1. Next /\ UNCHANGED mutexVars /\ UNCHANGED handlerVars
    BY DEF ProcessMetric, StartMerge, MergeContainer, Next
  <1>2. pc \in {"metrics", "merge"}
    BY DEF ProcessMetric, StartMerge, MergeContainer, BeginMerge, Merge,
           MergeStatsForDocker, MergeNothing, Process, SkipForeign,
           InsertIntoStats, InsertIntoIface, InsertIntoFs,
           InsertIntoCustomMetrics, InsertOther, Panic, Fetch, Take
  <1>3. UNCHANGED <<writer, holding, blocked, hstate>>
    BY <1>1 DEF mutexVars, handlerVars
  <1>4. LockHeld' /\ \A h \in Handlers : Asked(h)'
    BY <1>2, <1>3, NoneBuilt DEF PInv, LockHeld, Asked
  <1> QED
    BY <1>1, <1>2, <1>4, NoneBuilt, PublisherStep

LEMMA InvPublishDone == ASSUME PInv, PublishDone PROVE PInv'
  <1>1. /\ Next /\ pc \in {"metrics", "merge"} /\ pc' = "idle"
        /\ writer' = "free" /\ holding' = blocked /\ blocked' = {}
        /\ UNCHANGED handlerVars /\ hstate' = hstate
    BY DEF PublishDone, WriterUnlock, EndCustomOnly, EndMerge, Unlock, Next,
           handlerVars
  <1>2. LockHeld' /\ \A h \in Handlers : Asked(h)'
    BY <1>1, NoneBuilt DEF PInv, LockHeld, Asked
  <1> QED
    BY <1>1, <1>2, NoneBuilt, PublisherStep

LEMMA InvThrow == ASSUME PInv, Throw PROVE PInv'
  <1>1. /\ pc' = "crashed" /\ UNCHANGED handlerVars /\ UNCHANGED mutexVars
        /\ UNCHANGED <<batchVars, objs, known, stats, labelled, customVars>>
    BY DEF Throw
  <1>2. UNCHANGED <<writer, holding, blocked, hstate>>
    BY <1>1 DEF mutexVars, handlerVars
  <1>3. Store'
    BY <1>1 DEF PInv, Store, TypeOK, ListedIsFinished, AccountedOnce,
                AttachedToLater, SpecForEveryValue, batchVars, customVars,
                Listed, Objects, Attached
  <1>4. Grows /\ \A h \in Handlers : SameFor(h)
    BY <1>1 DEF Grows, SameFor, Objects, customVars, handlerVars
  <1>5. \A h \in Handlers : Encoding(h)' /\ Windowed(h)'
    BY <1>1, <1>4, EncodingKept, WindowKept DEF PInv
  <1>6. LockHeld' /\ HandlersType' /\ \A h \in Handlers : Asked(h)'
    BY <1>1, <1>2 DEF PInv, LockHeld, HandlersType, Asked, handlerVars
  <1> QED
    BY <1>3, <1>5, <1>6 DEF PInv

LEMMA InvProcessRestart == ASSUME PInv, ProcessRestart PROVE PInv'
  <1>1. Store'
    <2>1. TypeOK' /\ ListedIsFinished'
      BY StepType DEF PInv, Store, ProcessRestart, Next, Restart,
                      ListedIsFinished, Listed
    <2>2. Consistent' /\ Numbered' /\ AccountedOnce' /\ AttachedToLater'
          /\ SpecForEveryValue'
      BY DEF ProcessRestart, Restart, Consistent, NoTemp, Numbered,
             AccountedOnce, Attached, AttachedToLater, SpecForEveryValue
    <2> QED
      BY <2>1, <2>2 DEF Store, IInv
  <1>2. LockHeld' /\ HandlersType'
    BY DEF ProcessRestart, Restart, LockHeld, HandlersType, States
  <1>3. \A h \in Handlers : Asked(h)' /\ Encoding(h)' /\ Windowed(h)'
    BY DEF ProcessRestart, Asked, Encoding, Windowed, HasRequest,
           NotEncoding, HasResponse
  <1> QED
    BY <1>1, <1>2, <1>3 DEF PInv

-----------------------------------------------------------------------------
(* The steps of a request.                                                 *)

LEMMA HandlerStep ==
    ASSUME PInv, UNCHANGED vars, NEW h \in Handlers,
           \A k \in Handlers \ {h} : SameFor(k),
           HandlersType', LockHeld', \A k \in Handlers : Asked(k)',
           Encoding(h)', Windowed(h)'
    PROVE  PInv'
  <1>1. UNCHANGED <<pc, objs, known, stats, custom>>
    BY DEF vars, customVars
  <1>2. Store'
    BY DEF PInv, Store, TypeOK, Consistent, ListedIsFinished, Numbered,
           AccountedOnce, AttachedToLater, SpecForEveryValue, IInv, vars,
           batchVars, customVars, Listed, Objects, Attached
  <1>3. Grows
    BY <1>1 DEF Grows, Objects
  <1>4. \A k \in Handlers : Encoding(k)' /\ Windowed(k)'
    <2> TAKE k \in Handlers
    <2>1. CASE k = h
      BY <2>1
    <2>2. CASE k # h
      BY <1>1, <1>3, <2>2, EncodingKept, WindowKept DEF PInv
    <2> QED
      BY <2>1, <2>2
  <1> QED
    BY <1>2, <1>4 DEF PInv

(* The steps that leave the lock alone.                                    *)
LEMMA AskedKept ==
    ASSUME PInv, UNCHANGED vars, UNCHANGED mutexVars, NEW h \in Handlers,
           \A k \in Handlers \ {h} : SameFor(k),
           hstate'[h] \in {"built", "locking"} => h \in holding
    PROVE  LockHeld' /\ \A k \in Handlers : Asked(k)'
  BY DEF PInv, LockHeld, Asked, SameFor, vars, mutexVars

LEMMA InvArrive == ASSUME PInv, NEW h \in Handlers, Arrive(h) PROVE PInv'
  <1>1. /\ UNCHANGED vars /\ UNCHANGED mutexVars /\ hstate[h] = "idle"
        /\ hstate' = [hstate EXCEPT ![h] = "received"]
        /\ \E r \in Requests \cup {Malformed} : req' = [req EXCEPT ![h] = r]
        /\ UNCHANGED <<resp, next, inside, reading, reported, specsSent, atBuild>>
    BY DEF Arrive, Receive
  <1>2. HandlersType /\ Encoding(h)
    BY DEF PInv
  <1>3. HandlersType'
    BY <1>1, <1>2 DEF HandlersType, States
  <1>4. \A k \in Handlers \ {h} : SameFor(k)
    BY <1>1, <1>2 DEF SameFor, HandlersType
  <1>5. hstate'[h] = "received"
    BY <1>1, <1>2 DEF HandlersType
  <1>6. Encoding(h)' /\ Windowed(h)'
    BY <1>1, <1>2, <1>5 DEF Encoding, HasRequest, NotEncoding, HasResponse, Windowed
  <1> QED
    BY <1>1, <1>3, <1>4, <1>5, <1>6, AskedKept, HandlerStep

LEMMA InvReject ==
    ASSUME PInv, NEW h \in Handlers, Reject(h), UNCHANGED vars, UNCHANGED mutexVars
    PROVE  PInv'
  <1>1. /\ hstate[h] = "received"
        /\ hstate' = [hstate EXCEPT ![h] = "idle"]
        /\ UNCHANGED <<req, resp, next, inside, reading, reported, specsSent, atBuild>>
    BY DEF Reject
  <1>2. HandlersType /\ Encoding(h)
    BY DEF PInv
  <1>3. HandlersType'
    BY <1>1, <1>2 DEF HandlersType, States
  <1>4. \A k \in Handlers \ {h} : SameFor(k)
    BY <1>1, <1>2 DEF SameFor, HandlersType
  <1>5. hstate'[h] = "idle"
    BY <1>1, <1>2 DEF HandlersType
  <1>6. Encoding(h)' /\ Windowed(h)'
    BY <1>1, <1>2, <1>5 DEF Encoding, HasRequest, NotEncoding, HasResponse, Windowed
  <1> QED
    BY <1>3, <1>4, <1>5, <1>6, AskedKept, HandlerStep

LEMMA InvTakeRLock ==
    ASSUME PInv, NEW h \in Handlers, TakeRLock(h), UNCHANGED vars
    PROVE  PInv'
  <1>1. /\ hstate[h] = "received" /\ req[h] # Malformed
        /\ hstate' = [hstate EXCEPT ![h] = "locking"]
        /\ UNCHANGED <<req, resp, next, inside, reading, reported, specsSent, atBuild>>
    BY DEF TakeRLock, CallRLock
  <1>2. HandlersType /\ Encoding(h)
    BY DEF PInv
  <1>3. HandlersType'
    BY <1>1, <1>2 DEF HandlersType, States
  <1>4. \A k \in Handlers \ {h} : SameFor(k)
    BY <1>1, <1>2 DEF SameFor, HandlersType
  <1>5. hstate'[h] = "locking" /\ req[h] \in Requests
    BY <1>1, <1>2 DEF HandlersType
  <1>6. Encoding(h)' /\ Windowed(h)'
    BY <1>1, <1>2, <1>5 DEF Encoding, HasRequest, NotEncoding, HasResponse, Windowed
  <1>7. LockHeld' /\ \A k \in Handlers : Asked(k)'
    <2>1. /\ writer' = writer /\ pc' = pc
          /\ \/ writer = "free" /\ holding' = holding \cup {h} /\ blocked' = blocked
             \/ writer # "free" /\ blocked' = blocked \cup {h} /\ holding' = holding
      BY DEF TakeRLock, RLock, vars
    <2> QED
      BY <1>4, <1>5, <2>1 DEF PInv, LockHeld, Asked, SameFor
  <1> QED
    BY <1>3, <1>4, <1>6, <1>7, HandlerStep

LEMMA InvDropRLock ==
    ASSUME PInv, NEW h \in Handlers, DropRLock(h), UNCHANGED vars
    PROVE  PInv'
  <1>1. /\ hstate[h] = "built"
        /\ hstate' = [hstate EXCEPT ![h] = "encoding"]
        /\ UNCHANGED <<req, resp, next, inside, reading, reported, specsSent, atBuild>>
    BY DEF DropRLock, CallRUnlock
  <1>2. HandlersType /\ Encoding(h)
    BY DEF PInv
  <1>3. HandlersType'
    BY <1>1, <1>2 DEF HandlersType, States
  <1>4. \A k \in Handlers \ {h} : SameFor(k)
    BY <1>1, <1>2 DEF SameFor, HandlersType
  <1>5. hstate'[h] = "encoding"
    BY <1>1, <1>2 DEF HandlersType
  <1>6. /\ req[h] \in Requests /\ ResponseOf(resp[h]) /\ OnlyHeld(h)
        /\ next[h] = 1 /\ h \notin inside
    BY <1>1, <1>2 DEF Encoding, HasRequest, NotEncoding, HasResponse
  <1>7. ResponseOf(resp[h])' /\ OnlyHeld(h)'
    BY <1>1, <1>6 DEF ResponseOf, Finished, OnlyHeld, SentObjects, vars,
                      customVars, Objects
  <1>8. Reported(h)' /\ InsideEntry(h)'
    BY <1>1, <1>6 DEF Reported, InsideEntry
  <1>9. Encoding(h)' /\ Windowed(h)'
    BY <1>1, <1>5, <1>6, <1>7, <1>8 DEF Encoding, HasRequest, NotEncoding, Windowed
  <1>10. LockHeld' /\ \A k \in Handlers : Asked(k)'
    <2>1. writer' = writer /\ pc' = pc /\ holding' = holding \ {h} /\ blocked' = blocked
      BY DEF DropRLock, RUnlock, vars
    <2> QED
      BY <1>4, <1>5, <2>1 DEF PInv, LockHeld, Asked, SameFor
  <1> QED
    BY <1>3, <1>4, <1>9, <1>10, HandlerStep

(* The lists of a response that was just built, and what is in them.       *)
LEMMA ListBuilt ==
    ASSUME PInv, NEW p \in known, NEW r \in Requests,
           NEW order \in Sortings(stats[p])
    PROVE  /\ Window(order, r) \in Seq(Nat \ {0})
           /\ WindowOf(Window(order, r), stats[p], r)
           /\ \A j \in DOMAIN Window(order, r) : Finished(p, Window(order, r)[j])
  <1> DEFINE w == Window(order, r)
  <1>1. TypeOK /\ ListedIsFinished /\ r.num \in Int
    BY RequestsAssumption DEF PInv, Store
  <1>2. p \in Paths /\ stats[p] \in Seq(Objects) /\ objs \in Seq(Object)
    BY <1>1 DEF TypeOK
  <1>3. \A s \in Objects : s \in Nat \ {0} /\ objs[s].stamp \in Int
    <2>1. \A s \in Objects : s \in Nat \ {0} /\ objs[s] \in Object
      BY <1>2 DEF Objects
    <2> QED
      BY <2>1 DEF Object
  <1>4. \A k \in DOMAIN stats[p] :
           stats[p][k] \in Objects /\ objs[stats[p][k]].stamp \in Int
    <2>1. \A k \in DOMAIN stats[p] : stats[p][k] \in Objects
      BY <1>2
    <2> QED
      BY <1>3, <2>1
  <1>5. w \in Seq(Objects) /\ WindowOf(w, stats[p], r)
    BY <1>1, <1>2, <1>4, SortedWindow
  <1> HIDE DEF w
  <1>6. w \in Seq(Nat \ {0})
    BY <1>3, <1>5, SeqOverLarger
  <1>7. ASSUME NEW j \in DOMAIN w PROVE Finished(p, w[j])
    <2>1. PICK k \in DOMAIN stats[p] : w[j] = stats[p][k]
      BY <1>5 DEF WindowOf
    <2>2. w[j] \in Listed(p) /\ w[j] \in Objects
      BY <1>4, <2>1 DEF Listed
    <2> QED
      BY <1>1, <1>2, <2>2 DEF ListedIsFinished, Finished
  <1> QED
    BY <1>5, <1>6, <1>7 DEF w

LEMMA InvBuild ==
    ASSUME PInv, NEW h \in Handlers, Build(h), UNCHANGED vars, UNCHANGED mutexVars
    PROVE  PInv'
  <1>1. /\ hstate[h] = "locking" /\ h \in holding
        /\ hstate' = [hstate EXCEPT ![h] = "built"]
        /\ atBuild' = [atBuild EXCEPT ![h] = custom]
        /\ UNCHANGED <<req, next, inside, reading, reported, specsSent>>
    BY DEF Build
  <1>2. PICK order :
           /\ \A p \in known : order[p] \in Sortings(stats[p])
           /\ resp' = [resp EXCEPT ![h] = [p \in known |-> Window(order[p], req[h])]]
    BY DEF Build
  <1>3. HandlersType /\ Encoding(h)
    BY DEF PInv
  <1>4. HandlersType'
    BY <1>1, <1>2, <1>3 DEF HandlersType, States
  <1>5. \A k \in Handlers \ {h} : SameFor(k)
    BY <1>1, <1>2, <1>3 DEF SameFor, HandlersType
  <1>6. hstate'[h] = "built" /\ req'[h] = req[h] /\ req[h] \in Requests
    BY <1>1, <1>3 DEF HandlersType, Encoding, HasRequest
  <1>7. /\ resp'[h] = [p \in known |-> Window(order[p], req[h])]
        /\ atBuild'[h] = custom
        /\ UNCHANGED <<next, inside, reported, specsSent>>
    BY <1>1, <1>2, <1>3 DEF HandlersType
  <1>8. UNCHANGED <<objs, known, stats, custom>>
    BY DEF vars, customVars
  <1>9. ASSUME NEW p \in known
        PROVE  /\ resp'[h][p] \in Seq(Nat \ {0})
               /\ WindowOf(resp'[h][p], stats[p], req[h])
               /\ \A j \in DOMAIN resp'[h][p] : Finished(p, resp'[h][p][j])
    <2>1. order[p] \in Sortings(stats[p]) /\ resp'[h][p] = Window(order[p], req[h])
      BY <1>2, <1>7
    <2> QED
      BY <1>6, <2>1, ListBuilt
  <1>10. DOMAIN resp'[h] = known
    BY <1>7
  <1>11. ResponseOf(resp[h])'
    <2>1. ResponseOf(resp'[h])
      BY <1>9, <1>10 DEF ResponseOf
    <2> QED
      BY <1>8, <2>1 DEF ResponseOf, Finished, Objects
  <1>12. next[h] = 1 /\ h \notin inside /\ reported[h] = {} /\ specsSent[h] = {}
    BY <1>1, <1>3 DEF Encoding, NotEncoding
  <1>13. Encoding(h)'
    BY <1>6, <1>7, <1>8, <1>11, <1>12
       DEF Encoding, HasRequest, NotEncoding, OnlyHeld
  <1>14. Windowed(h)'
    <2>1. ASSUME NEW p \in known PROVE WindowOf(resp[h][p], stats[p], req[h])'
      <3>1. WindowOf(resp'[h][p], stats[p], req[h])
        BY <1>9
      <3> QED
        BY <1>6, <1>8, <3>1 DEF WindowOf, InRange
    <2> QED
      BY <1>8, <1>10, <2>1 DEF Windowed
  <1> QED
    BY <1>1, <1>4, <1>5, <1>6, <1>13, <1>14, AskedKept, HandlerStep

(* What the shared map of an entry holds covers what the entry is due.     *)
LEMMA ContentCovers ==
    ASSUME Store, NEW at, at \subseteq custom, NEW e
    PROVE  Due(at, e, Content(e), Content(e))
  <1>1. CASE IsSpec(e)
    <2>1. ASSUME NEW c \in at, c[2].path = e.path
          PROVE  <<e.path, c[2].name>> \in Content(e)
      <3>1. c[2] \in accepted
        BY DEF Store, AccountedOnce, Attached
      <3>2. c[2].name \in specs[e.path]
        BY <2>1, <3>1 DEF Store, SpecForEveryValue
      <3> QED
        BY <1>1, <3>2 DEF Content
    <2> QED
      BY <1>1, <2>1 DEF Due, DueSpecs
  <1>2. CASE ~IsSpec(e)
    BY <1>2 DEF Due, DueValues, Content
  <1> QED
    BY <1>1, <1>2

LEMMA InvBeginEntry ==
    ASSUME PInv, NEW h \in Handlers, BeginEntry(h), UNCHANGED vars,
           UNCHANGED mutexVars
    PROVE  PInv'
  <1>1. /\ hstate[h] = "encoding" /\ h \notin inside
        /\ next[h] <= Len(Entries(resp[h]))
        /\ inside' = inside \cup {h}
        /\ reading' = [reading EXCEPT ![h] = Content(Current(h))]
        /\ UNCHANGED <<hstate, req, resp, next, reported, specsSent, atBuild>>
    BY DEF BeginEntry
  <1>2. HandlersType /\ Encoding(h)
    BY DEF PInv
  <1>3. HandlersType'
    BY <1>1, <1>2 DEF HandlersType, States
  <1>4. \A k \in Handlers \ {h} : SameFor(k)
    BY <1>1, <1>2 DEF SameFor, HandlersType
  <1>5. reading'[h] = Content(Current(h)) /\ h \in inside'
    BY <1>1, <1>2 DEF HandlersType
  <1>6. ResponseOf(resp[h]) /\ OnlyHeld(h) /\ Reported(h) /\ HasRequest(h)
    BY <1>1, <1>2 DEF Encoding, HasResponse
  <1>7. ResponseOf(resp[h])' /\ OnlyHeld(h)' /\ Reported(h)' /\ HasRequest(h)'
    BY <1>1, <1>6 DEF ResponseOf, Finished, OnlyHeld, SentObjects, Reported,
                      HasRequest, vars, customVars, Objects
  <1>8. InsideEntry(h)'
    <2>1. Due(atBuild[h], Current(h), Content(Current(h)), Content(Current(h)))
      BY <1>6, ContentCovers DEF PInv, OnlyHeld
    <2>2. Due(atBuild[h], Current(h), reading[h], reading[h])'
      BY <1>1, <1>5, <2>1 DEF Current
    <2>3. ~IsSpec(Current(h)) => \A c \in Content(Current(h)) :
             c \in custom /\ c[1] = Current(h).obj
      BY DEF Content
    <2>4. Current(h)' = Current(h) /\ custom' = custom
      BY <1>1 DEF Current, vars, customVars
    <2> QED
      BY <1>1, <1>5, <2>2, <2>3, <2>4 DEF InsideEntry
  <1>9. Encoding(h)' /\ Windowed(h)'
    BY <1>1, <1>7, <1>8 DEF Encoding, NotEncoding, Windowed
  <1> QED
    BY <1>1, <1>3, <1>4, <1>9, AskedKept, HandlerStep

(* The objects of the entries are the objects of the response.             *)
LEMMA EntryObject ==
    ASSUME PInv, NEW h \in Handlers, HasResponse(h),
           NEW i \in 1 .. Len(Entries(resp[h]))
    PROVE  /\ Shareable(resp[h])
           /\ ~IsSpec(Entries(resp[h])[i]) =>
                 Entries(resp[h])[i].obj \in SentObjects(h)
  <1>1. ResponseOf(resp[h]) /\ known \subseteq Paths
    BY DEF PInv, Encoding, Store, TypeOK
  <1>2. Shareable(resp[h])
    BY <1>1 DEF ResponseOf, Shareable
  <1> DEFINE e == Entries(resp[h])[i]
  <1>3. /\ e.path \in DOMAIN resp[h]
        /\ ~IsSpec(e) => \E j \in DOMAIN resp[h][e.path] :
                            e.obj = resp[h][e.path][j]
    BY <1>2, EntriesHold
  <1> QED
    BY <1>2, <1>3 DEF SentObjects, Range

LEMMA InvEndEntry ==
    ASSUME PInv, NEW h \in Handlers, EndEntry(h), UNCHANGED vars,
           UNCHANGED mutexVars
    PROVE  PInv'
  <1> DEFINE e == Current(h)
  <1>1. /\ h \in inside
        /\ next' = [next EXCEPT ![h] = @ + 1]
        /\ inside' = inside \ {h}
        /\ reading' = [reading EXCEPT ![h] = {}]
        /\ UNCHANGED <<hstate, req, resp, atBuild>>
    BY DEF EndEntry
  <1>2. PICK late \in SUBSET (Content(e) \ reading[h]) :
           IF IsSpec(e)
           THEN /\ specsSent' = [specsSent EXCEPT ![h] = @ \cup (reading[h] \cup late)]
                /\ UNCHANGED reported
           ELSE /\ reported' = [reported EXCEPT ![h] = @ \cup (reading[h] \cup late)]
                /\ UNCHANGED specsSent
    BY DEF EndEntry
  <1>3. HandlersType /\ Encoding(h)
    BY DEF PInv
  <1>4. hstate[h] = "encoding" /\ HasResponse(h)
    BY <1>1, <1>3 DEF Encoding, NotEncoding, HasResponse
  <1>5. HandlersType'
    <2>1. /\ hstate' \in [Handlers -> States]
          /\ req' \in [Handlers -> Requests \cup {Malformed}]
          /\ next' \in [Handlers -> Nat \ {0}]
          /\ inside' \subseteq Handlers
      BY <1>1, <1>3 DEF HandlersType
    <2>2. /\ resp' = [k \in Handlers |-> resp'[k]]
          /\ reading' = [k \in Handlers |-> reading'[k]]
          /\ atBuild' = [k \in Handlers |-> atBuild'[k]]
      BY <1>1, <1>3 DEF HandlersType
    <2>3. /\ reported' = [k \in Handlers |-> reported'[k]]
          /\ specsSent' = [k \in Handlers |-> specsSent'[k]]
      BY <1>2, <1>3 DEF HandlersType
    <2> QED
      BY <2>1, <2>2, <2>3 DEF HandlersType
  <1>6. \A k \in Handlers \ {h} : SameFor(k)
    BY <1>1, <1>2, <1>3 DEF SameFor, HandlersType
  <1>7. next'[h] = next[h] + 1 /\ next[h] \in Nat /\ h \notin inside'
    BY <1>1, <1>3 DEF HandlersType
  <1>8. /\ IsSpec(e) => /\ specsSent'[h] = specsSent[h] \cup (reading[h] \cup late)
                        /\ reported'[h] = reported[h]
        /\ ~IsSpec(e) => /\ reported'[h] = reported[h] \cup (reading[h] \cup late)
                         /\ specsSent'[h] = specsSent[h]
    BY <1>2, <1>3 DEF HandlersType
  <1>9. /\ ResponseOf(resp[h]) /\ OnlyHeld(h) /\ Reported(h) /\ InsideEntry(h)
        /\ HasRequest(h)
    BY <1>3, <1>4 DEF Encoding
  <1>10. /\ next[h] \in 1 .. Len(Entries(resp[h]))
         /\ e = Entries(resp[h])[next[h]]
    <2>1. next[h] <= Len(Entries(resp[h])) /\ next[h] \in Nat \ {0}
      BY <1>1, <1>3, <1>9 DEF InsideEntry, HandlersType
    <2>2. Shareable(resp[h])
      BY <1>9 DEF PInv, Store, TypeOK, ResponseOf, Shareable
    <2>3. Len(Entries(resp[h])) \in Nat
      BY <2>2, EntriesHold
    <2> QED
      BY <2>1, <2>3 DEF Current
  <1>11. ResponseOf(resp[h])' /\ HasRequest(h)'
    BY <1>1, <1>9 DEF ResponseOf, Finished, HasRequest, vars, Objects
  <1>12. OnlyHeld(h)'
    <2>1. ~IsSpec(e) => e.obj \in SentObjects(h)
      BY <1>4, <1>10, EntryObject
    <2>2. ~IsSpec(e) => \A c \in reading[h] \cup late :
             c \in custom /\ c[1] = e.obj
      BY <1>1, <1>9 DEF InsideEntry, Content
    <2>3. \A c \in reported'[h] : c \in custom /\ c[1] \in SentObjects(h)
      BY <1>8, <1>9, <2>1, <2>2 DEF OnlyHeld
    <2>4. SentObjects(h)' = SentObjects(h) /\ custom' = custom /\ atBuild' = atBuild
      BY <1>1 DEF SentObjects, vars, customVars
    <2> QED
      BY <1>9, <2>3, <2>4 DEF OnlyHeld
  <1>13. Reported(h)'
    <2>1. Due(atBuild[h], e, reading[h], reading[h])
      BY <1>1, <1>9 DEF InsideEntry
    <2>2. specsSent[h] \subseteq specsSent'[h] /\ reported[h] \subseteq reported'[h]
      BY <1>8
    <2>3. Due(atBuild[h], e, specsSent'[h], reported'[h])
      BY <1>8, <2>1 DEF Due
    <2>4. ASSUME NEW i \in 1 .. Len(Entries(resp[h])), i < next[h] + 1
          PROVE  Due(atBuild[h], Entries(resp[h])[i], specsSent'[h], reported'[h])
      <3>1. CASE i = next[h]
        BY <1>10, <2>3, <3>1
      <3>2. CASE i # next[h]
        <4>1. i < next[h]
          BY <1>7, <2>4, <3>2
        <4> QED
          BY <1>9, <2>2, <4>1 DEF Reported, Due
      <3> QED
        BY <3>1, <3>2
    <2> QED
      BY <1>1, <1>7, <2>4 DEF Reported
  <1>14. Encoding(h)' /\ Windowed(h)'
    BY <1>1, <1>4, <1>7, <1>11, <1>12, <1>13
       DEF Encoding, NotEncoding, InsideEntry, Windowed
  <1> QED
    BY <1>1, <1>4, <1>5, <1>6, <1>14, AskedKept, HandlerStep

LEMMA InvRespond ==
    ASSUME PInv, NEW h \in Handlers, Respond(h), UNCHANGED vars, UNCHANGED mutexVars
    PROVE  PInv'
  <1>1. /\ hstate[h] = "encoding"
        /\ hstate' = [hstate EXCEPT ![h] = "idle"]
        /\ req' = [req EXCEPT ![h] = Malformed]
        /\ resp' = [resp EXCEPT ![h] = NoResponse]
        /\ next' = [next EXCEPT ![h] = 1]
        /\ reported' = [reported EXCEPT ![h] = {}]
        /\ specsSent' = [specsSent EXCEPT ![h] = {}]
        /\ atBuild' = [atBuild EXCEPT ![h] = {}]
        /\ UNCHANGED <<inside, reading>>
        /\ next[h] > Len(Entries(resp[h]))
    BY DEF Respond, Encoded
  <1>2. HandlersType /\ Encoding(h)
    BY DEF PInv
  <1>3. HandlersType'
    <2>1. /\ hstate' \in [Handlers -> States]
          /\ req' \in [Handlers -> Requests \cup {Malformed}]
          /\ next' \in [Handlers -> Nat \ {0}]
          /\ inside' \subseteq Handlers
      BY <1>1, <1>2 DEF HandlersType, States
    <2>2. /\ resp' = [k \in Handlers |-> resp'[k]]
          /\ reading' = [k \in Handlers |-> reading'[k]]
          /\ atBuild' = [k \in Handlers |-> atBuild'[k]]
      BY <1>1, <1>2 DEF HandlersType
    <2>3. /\ reported' = [k \in Handlers |-> reported'[k]]
          /\ specsSent' = [k \in Handlers |-> specsSent'[k]]
      BY <1>1, <1>2 DEF HandlersType
    <2> QED
      BY <2>1, <2>2, <2>3 DEF HandlersType
  <1>4. \A k \in Handlers \ {h} : SameFor(k)
    BY <1>1, <1>2 DEF SameFor, HandlersType
  <1>5. hstate'[h] = "idle" /\ next'[h] = 1 /\ reported'[h] = {} /\ specsSent'[h] = {}
    BY <1>1, <1>2 DEF HandlersType
  <1>6. h \notin inside
    <2>1. Shareable(resp[h])
      BY <1>1, <1>2 DEF Encoding, HasResponse, PInv, Store, TypeOK, ResponseOf,
                        Shareable
    <2>2. Len(Entries(resp[h])) \in Nat /\ next[h] \in Nat
      BY <1>2, <2>1, EntriesHold DEF HandlersType
    <2>3. h \in inside => next[h] <= Len(Entries(resp[h]))
      BY <1>1, <1>2 DEF Encoding, InsideEntry
    <2> QED
      BY <1>1, <2>2, <2>3
  <1>7. Encoding(h)' /\ Windowed(h)'
    BY <1>1, <1>5, <1>6 DEF Encoding, HasRequest, NotEncoding, HasResponse, Windowed
  <1> QED
    BY <1>3, <1>4, <1>5, <1>7, AskedKept, HandlerStep

LEMMA InvServe == ASSUME PInv, NEW h \in Handlers, Serve(h) PROVE PInv'
  <1>1. UNCHANGED vars
    BY DEF Serve
  <1>2. CASE TakeRLock(h)
    BY <1>1, <1>2, InvTakeRLock
  <1>3. CASE DropRLock(h)
    BY <1>1, <1>3, InvDropRLock
  <1>4. CASE WithoutLock(h)
    BY <1>1, <1>4, InvReject, InvBuild, InvBeginEntry, InvEndEntry, InvRespond
       DEF WithoutLock
  <1> QED
    BY <1>2, <1>3, <1>4 DEF Serve

LEMMA InvStutter == ASSUME PInv, UNCHANGED pluginVars PROVE PInv'
  <1>1. UNCHANGED vars /\ UNCHANGED mutexVars /\ UNCHANGED handlerVars
    BY DEF pluginVars
  <1>2. \A h \in Handlers : SameFor(h)
    BY <1>1 DEF SameFor, handlerVars
  <1>3. HandlersType' /\ LockHeld' /\ \A h \in Handlers : Asked(h)'
    BY <1>1 DEF PInv, HandlersType, LockHeld, Asked, vars, mutexVars, handlerVars
  <1>4. UNCHANGED <<objs, known, stats, custom>>
    BY <1>1 DEF vars, customVars
  <1>5. Grows
    BY <1>4 DEF Grows, Objects
  <1>6. Store'
    BY <1>1 DEF PInv, Store, TypeOK, Consistent, ListedIsFinished, Numbered,
                AccountedOnce, AttachedToLater, SpecForEveryValue, IInv, vars,
                batchVars, customVars, Listed, Objects, Attached
  <1>7. \A h \in Handlers : Encoding(h)' /\ Windowed(h)'
    BY <1>2, <1>4, <1>5, EncodingKept, WindowKept DEF PInv
  <1> QED
    BY <1>3, <1>6, <1>7 DEF PInv

-----------------------------------------------------------------------------
(* Every step of a batch, of a request and of the runtime keeps what is    *)
(* known of the lock, the store and the responses being encoded.           *)
THEOREM PluginStepInv == PInv /\ [PluginNext]_pluginVars => PInv'
  <1> SUFFICES ASSUME PInv, [PluginNext]_pluginVars PROVE PInv'
    OBVIOUS
  <1>1. CASE PublishCalled
    BY <1>1, InvPublishCalled
  <1>2. CASE PublishLocked
    BY <1>2, InvPublishLocked
  <1>3. CASE ProcessMetric \/ StartMerge \/ MergeContainer
    BY <1>3, InvBatch
  <1>4. CASE PublishDone
    BY <1>4, InvPublishDone
  <1>5. CASE Throw
    BY <1>5, InvThrow
  <1>6. CASE ProcessRestart
    BY <1>6, InvProcessRestart
  <1>7. CASE \E h \in Handlers : Arrive(h) \/ Serve(h)
    BY <1>7, InvArrive, InvServe
  <1>8. CASE UNCHANGED pluginVars
    BY <1>8, InvStutter
  <1> QED
    BY <1>1, <1>2, <1>3, <1>4, <1>5, <1>6, <1>7, <1>8 DEF PluginNext, Publishing

(* The inductive invariant holds while requests and batches interleave.    *)
THEOREM PluginInvariant == PluginSpec => []PInv
  <1>1. PluginInit => PInv
    BY PluginInitInv
  <1>2. PInv /\ [PluginNext]_pluginVars => PInv'
    BY PluginStepInv
  <1> QED
    BY <1>1, <1>2, PTL DEF PluginSpec

(* No response is built while a batch is processed, and no request that    *)
(* waits for the read lock is forgotten (sync.RWMutex in InnerState).      *)
THEOREM LockKept == PluginSpec => []LockDiscipline
  <1>1. PInv => LockDiscipline
    <2> SUFFICES ASSUME PInv PROVE LockDiscipline
      OBVIOUS
    <2>1. \A h \in Handlers : hstate[h] = "locking" =>
             h \in holding \/ (h \in blocked /\ writer # "free")
      BY DEF PInv, Asked, LockHeld
    <2> QED
      BY <2>1, NoneBuilt DEF LockDiscipline
  <1> QED
    BY <1>1, PluginInvariant, PTL

(* The store keeps its invariants although the runtime may end the process *)
(* in the middle of a batch.                                               *)
THEOREM StoreKept ==
    PluginSpec => [](ListedIsFinished /\ AccountedOnce /\ AttachedToLater)
  <1>1. PInv => ListedIsFinished /\ AccountedOnce /\ AttachedToLater
    BY DEF PInv, Store
  <1> QED
    BY <1>1, PluginInvariant, PTL

(* buildStatsResponse: each list of a response is what its request asked   *)
(* for, whatever order sort.Sort leaves equal stamps in.                   *)
THEOREM ResponsesMatchRequests == PluginSpec => []WindowCorrect
  <1>1. PInv => WindowCorrect
    BY DEF PInv, Windowed, WindowCorrect
  <1> QED
    BY <1>1, PluginInvariant, PTL

(* A container of the response has been walked in full by the encoder.     *)
LEMMA WalkedInFull ==
    ASSUME PInv, NEW h \in Handlers, Encoded(h), NEW p \in DOMAIN resp[h]
    PROVE  /\ DueSpecs(atBuild[h], SpecEntry(p)) \subseteq specsSent[h]
           /\ \A j \in DOMAIN resp[h][p] :
                 /\ Finished(p, resp[h][p][j])
                 /\ DueValues(atBuild[h], ObjectEntry(p, resp[h][p][j]))
                       \subseteq reported[h]
  <1>1. /\ ResponseOf(resp[h]) /\ Reported(h) /\ next[h] \in Nat
        /\ hstate[h] = "encoding" /\ next[h] > Len(Entries(resp[h]))
    BY DEF PInv, Encoding, Encoded, HasResponse, HandlersType
  <1>2. Shareable(resp[h])
    BY <1>1 DEF PInv, Store, TypeOK, ResponseOf, Shareable
  <1>3. /\ Len(Entries(resp[h])) \in Nat
        /\ Holds(Entries(resp[h]), SpecEntry(p))
        /\ \A j \in DOMAIN resp[h][p] :
              Holds(Entries(resp[h]), ObjectEntry(p, resp[h][p][j]))
    BY <1>2, EntriesHold
  <1>4. ASSUME NEW e, Holds(Entries(resp[h]), e)
        PROVE  Due(atBuild[h], e, specsSent[h], reported[h])
    BY <1>1, <1>3, <1>4 DEF Holds, Reported
  <1>5. DueSpecs(atBuild[h], SpecEntry(p)) \subseteq specsSent[h]
    <2>1. IsSpec(SpecEntry(p))
      BY DEF IsSpec, SpecEntry
    <2> QED
      BY <1>3, <1>4, <2>1 DEF Due
  <1>6. ASSUME NEW j \in DOMAIN resp[h][p]
        PROVE  /\ Finished(p, resp[h][p][j])
               /\ DueValues(atBuild[h], ObjectEntry(p, resp[h][p][j]))
                     \subseteq reported[h]
    <2>1. Finished(p, resp[h][p][j])
      BY <1>1 DEF ResponseOf
    <2>2. resp[h][p][j] # 0
      BY <2>1 DEF Finished, Objects
    <2>3. ~IsSpec(ObjectEntry(p, resp[h][p][j]))
      BY <2>2 DEF IsSpec, ObjectEntry
    <2> QED
      BY <1>3, <1>4, <2>1, <2>3 DEF Due
  <1> QED
    BY <1>5, <1>6

(* A response that was encoded without a lock reports every value its      *)
(* objects held when it was built, and no value they do not hold.          *)
THEOREM NoValueUnreported == PluginSpec => []NothingUnreported
  <1>1. PInv => NothingUnreported
    <2> SUFFICES ASSUME PInv, NEW h \in Handlers, Encoded(h)
                 PROVE  /\ {c \in atBuild[h] : c[1] \in SentObjects(h)}
                              \subseteq reported[h]
                        /\ reported[h] \subseteq custom
      BY DEF NothingUnreported
    <2>1. reported[h] \subseteq custom
      BY DEF PInv, Encoding, Encoded, HasResponse, OnlyHeld
    <2>2. ASSUME NEW c \in atBuild[h], c[1] \in SentObjects(h)
          PROVE  c \in reported[h]
      <3>1. PICK p \in DOMAIN resp[h] : \E k \in DOMAIN resp[h][p] :
               c[1] = resp[h][p][k]
        BY <2>2 DEF SentObjects, Range
      <3>2. PICK j \in DOMAIN resp[h][p] : c[1] = resp[h][p][j]
        BY <3>1
      <3>3. c \in DueValues(atBuild[h], ObjectEntry(p, resp[h][p][j]))
        BY <3>2 DEF DueValues, ObjectEntry
      <3> QED
        BY <3>3, WalkedInFull
    <2> QED
      BY <2>1, <2>2
  <1> QED
    BY <1>1, PluginInvariant, PTL

(* Such a response has the spec of every value it reports that was there   *)
(* when it was built.                                                      *)
THEOREM SpecsOfReported == PluginSpec => []SpecsReported
  <1>1. PInv => SpecsReported
    <2> SUFFICES ASSUME PInv, NEW h \in Handlers, Encoded(h),
                        NEW c \in reported[h] \cap atBuild[h]
                 PROVE  <<c[2].path, c[2].name>> \in specsSent[h]
      BY DEF SpecsReported
    <2>1. c \in custom /\ c[1] \in SentObjects(h)
      BY DEF PInv, Encoding, Encoded, HasResponse, OnlyHeld
    <2>2. PICK p \in DOMAIN resp[h] : \E j \in DOMAIN resp[h][p] :
             c[1] = resp[h][p][j]
      BY <2>1 DEF SentObjects, Range
    <2>3. objs[c[1]].path = p
      BY <2>2, WalkedInFull DEF Finished
    <2>4. c[2].path = p
      BY <2>1, <2>3 DEF PInv, Store, AttachedToLater
    <2>5. <<p, c[2].name>> \in DueSpecs(atBuild[h], SpecEntry(p))
      BY <2>4 DEF DueSpecs, SpecEntry
    <2> QED
      BY <2>4, <2>5, WalkedInFull
  <1> QED
    BY <1>1, PluginInvariant, PTL

LEMMA ResponseFrozenStep ==
    ASSUME PInv, [PluginNext]_pluginVars, NEW h \in Handlers, HasResponse(h)',
           NEW s \in SentObjects(h)
    PROVE  objs'[s] = objs[s]
  <1>1. CASE objs' = objs
    BY <1>1
  <1>2. CASE pc # "crashed" /\ Next /\ UNCHANGED handlerVars
    <2>1. Grows /\ HasResponse(h)
      BY <1>2, StoreStep DEF PInv, HasResponse, handlerVars
    <2>2. PICK p \in DOMAIN resp[h] : \E j \in DOMAIN resp[h][p] : s = resp[h][p][j]
      BY DEF SentObjects, Range
    <2>3. Finished(p, s)
      BY <2>1, <2>2 DEF PInv, Encoding, ResponseOf
    <2> QED
      BY <2>1, <2>3 DEF Grows, Finished
  <1>3. CASE ProcessRestart
    BY <1>3 DEF ProcessRestart, HasResponse
  <1>4. CASE PublishLocked \/ ProcessMetric \/ StartMerge \/ MergeContainer
             \/ PublishDone
    <2>1. pc # "crashed" /\ Next /\ UNCHANGED handlerVars
      BY <1>4 DEF PublishLocked, Lock, ProcessMetric, StartMerge, BeginMerge,
                  MergeContainer, Merge, MergeStatsForDocker, MergeNothing,
                  PublishDone, EndCustomOnly, EndMerge, Next, Process,
                  SkipForeign, InsertIntoStats, InsertIntoIface, InsertIntoFs,
                  InsertIntoCustomMetrics, InsertOther, Panic, Fetch, Take
    <2> QED
      BY <1>2, <2>1
  <1>5. CASE \/ PublishCalled \/ Throw \/ UNCHANGED pluginVars
             \/ \E k \in Handlers : Arrive(k) \/ Serve(k)
    BY <1>1, <1>5 DEF PublishCalled, Throw, Arrive, Serve, pluginVars, vars
  <1> QED
    BY <1>3, <1>4, <1>5 DEF PluginNext, Publishing

(* Batches change nothing in the objects of a response that is being       *)
(* encoded but the custom metrics.                                         *)
THEOREM ResponsesFrozen == PluginSpec => ResponseFrozen
  <1>1. PInv /\ [PluginNext]_pluginVars =>
           [\A h \in Handlers : HasResponse(h)' =>
               \A s \in SentObjects(h) : objs'[s] = objs[s]]_<<objs, handlerVars>>
    BY ResponseFrozenStep
  <1> QED
    BY <1>1, PluginInvariant, PTL DEF PluginSpec, ResponseFrozen
=============================================================================

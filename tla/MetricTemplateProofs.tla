------------------------ MODULE MetricTemplateProofs ------------------------
(***************************************************************************)
(* Theorems of the walks and of the loading of templates (MetricTemplate), *)
(* for objects of any shape and depth, whatever the caller's function      *)
(* answers, and every order of the map ranges.                             *)
(***************************************************************************)
EXTENDS MetricTemplate, LoopLemmas

-----------------------------------------------------------------------------
(* What is below a node (Below).                                           *)
Keys == Seq(STRING)

(* Paths are joined from the left or from the right.                       *)
LEMMA KeysJoin ==
    ASSUME NEW a \in Keys, NEW b \in Keys, NEW c \in Keys
    PROVE  a \o (b \o c) = (a \o b) \o c
  BY ConcatAssociative DEF Keys

Kids(h, m) == ToSet(h[m].kids)

(* Kids are nodes, with numbers above that of their parent.                *)
LEMMA KidsAre ==
    ASSUME NEW h, Tree(h), NEW m \in DOMAIN h, NEW kid \in Kids(h, m)
    PROVE  /\ kid \in [key : Keys, node : DOMAIN h]
           /\ kid.node > m /\ m \in Nat /\ kid.node \in Nat
  <1>1. /\ Len(h) \in Nat /\ DOMAIN h = 1 .. Len(h)
        /\ h[m].kids \in Seq([key : Keys, node : m + 1 .. Len(h)])
    BY DEF Tree, Keys
  <1>2. PICK i \in DOMAIN h[m].kids : kid = h[m].kids[i]
    BY DEF Kids, ToSet
  <1>3. kid \in [key : Keys, node : m + 1 .. Len(h)]
    <2>1. i \in 1 .. Len(h[m].kids)
      BY <1>1, <1>2
    <2> QED
      BY <1>1, <1>2, <2>1, ElementOfSeq
  <1> QED
    BY <1>1, <1>3

(* What the recursion gives for m, if f is what it gives for other nodes.  *)
Through(f, kid) == {<<kid.key \o x[1], x[2]>> : x \in f[kid.node]}

Around(h, f, m) == {<<<<>>, m>>} \cup UNION {Through(f, kid) : kid \in Kids(h, m)}

(* What is around a node depends on the nodes after it only.               *)
LEMMA AroundLater ==
    ASSUME NEW h, Tree(h), NEW m \in DOMAIN h, NEW f, NEW g,
           \A x \in DOMAIN h : x > m => f[x] = g[x]
    PROVE  Around(h, f, m) = Around(h, g, m)
  <1>1. \A kid \in Kids(h, m) : Through(f, kid) = Through(g, kid)
    <2> TAKE kid \in Kids(h, m)
    <2>1. kid.node \in DOMAIN h /\ kid.node > m
      BY KidsAre
    <2>2. f[kid.node] = g[kid.node]
      BY <2>1
    <2> QED
      BY <2>2 DEF Through
  <1> QED
    BY <1>1 DEF Around

(* There is such a function: it is built from the last node backwards.     *)
LEMMA BelowExists ==
    ASSUME NEW h, Tree(h)
    PROVE  \E f : f = [m \in DOMAIN h |-> Around(h, f, m)]
  <1> DEFINE N == Len(h)
             Built(t, f) == \A m \in DOMAIN h : m > N - t => f[m] = Around(h, f, m)
             S == {t \in 0 .. N : \E f : f = [m \in DOMAIN h |-> f[m]] /\ Built(t, f)}
  <1>1. N \in Nat /\ DOMAIN h = 1 .. N
    BY DEF Tree
  <1> HIDE DEF N
  <1>2. 0 \in S
    <2> DEFINE f == [m \in DOMAIN h |-> {}]
    <2>1. f = [m \in DOMAIN h |-> f[m]] /\ Built(0, f)
      BY <1>1
    <2> HIDE DEF f
    <2> QED
      BY <1>1, <2>1
  <1>3. ASSUME NEW t \in 1 .. N, t - 1 \in S PROVE t \in S
    <2>1. PICK f : f = [m \in DOMAIN h |-> f[m]] /\ Built(t - 1, f)
      BY <1>3
    <2> DEFINE n == N - t + 1
               g == [m \in DOMAIN h |-> IF m = n THEN Around(h, f, n) ELSE f[m]]
    <2>2. n \in DOMAIN h
      BY <1>1
    <2>3. \A m \in DOMAIN h : m # n => g[m] = f[m]
      OBVIOUS
    <2>4. g[n] = Around(h, f, n)
      BY <2>2
    <2>5. g = [m \in DOMAIN h |-> g[m]]
      OBVIOUS
    <2> HIDE DEF g
    <2>6. ASSUME NEW m \in DOMAIN h, m > N - t PROVE g[m] = Around(h, g, m)
      <3>1. \A x \in DOMAIN h : x > m => f[x] = g[x]
        BY <1>1, <2>3, <2>6
      <3>2. Around(h, f, m) = Around(h, g, m)
        BY <3>1, AroundLater
      <3>3. m = n \/ (m # n /\ m > N - (t - 1))
        BY <1>1, <2>6
      <3>4. g[m] = Around(h, f, m)
        BY <2>1, <2>3, <2>4, <3>3
      <3> QED
        BY <3>2, <3>4
    <2> QED
      BY <2>5, <2>6
  <1>4. N \in S
    <2> HIDE DEF S
    <2> QED
      BY <1>1, <1>2, <1>3, TurnInduction
  <1>5. PICK f : f = [m \in DOMAIN h |-> f[m]] /\ Built(N, f)
    BY <1>4
  <1>6. \A m \in DOMAIN h : f[m] = Around(h, f, m)
    BY <1>1, <1>5
  <1>7. f = [m \in DOMAIN h |-> Around(h, f, m)]
    BY <1>5, <1>6
  <1> QED
    BY <1>7

(* Below is given by one such function, whose values are typed.            *)
Along(path, S) == {<<path \o x[1], x[2]>> : x \in S}

Beneath(h, f) ==
    /\ f \in [DOMAIN h -> SUBSET (Keys \X DOMAIN h)]
    /\ \A m \in DOMAIN h : f[m] = Around(h, f, m)
    /\ \A m, path : Below(h, m, path) = Along(path, f[m])

(* There is such a function, built from the last node backwards.           *)
LEMMA BelowIs ==
    ASSUME NEW h, Tree(h)
    PROVE  \E f : Beneath(h, f)
  <1> DEFINE N == Len(h)
             Rec(f) == [m \in DOMAIN h |->
                          {<<<<>>, m>>} \cup
                          UNION {{<<kid.key \o x[1], x[2]>> : x \in f[kid.node]}
                                   : kid \in ToSet(h[m].kids)}]
             g == CHOOSE f : f = Rec(f)
             G == {t \in 0 .. N : \A m \in DOMAIN h :
                                    m > N - t => g[m] \subseteq Keys \X DOMAIN h}
  <1>1. N \in Nat /\ DOMAIN h = 1 .. N
    BY DEF Tree
  <1>2. \A m, path : Below(h, m, path) = Along(path, g[m])
    BY DEF Below, Along
  <1>3. \A f : Rec(f) = [m \in DOMAIN h |-> Around(h, f, m)]
    BY DEF Around, Through, Kids
  <1> HIDE DEF N, Rec, g
  <1>4. g = Rec(g)
    BY <1>3, BelowExists DEF g
  <1>5. g = [m \in DOMAIN h |-> Around(h, g, m)]
    BY <1>3, <1>4
  <1>6. \A m \in DOMAIN h : g[m] = Around(h, g, m)
    BY <1>5
  <1>7. 0 \in G
    BY <1>1
  <1>8. ASSUME NEW t \in 1 .. N, t - 1 \in G PROVE t \in G
    <2> SUFFICES ASSUME NEW m \in DOMAIN h, m > N - t
                 PROVE  Around(h, g, m) \subseteq Keys \X DOMAIN h
      BY <1>1, <1>6
    <2>1. <<<<>>, m>> \in Keys \X DOMAIN h
      <3>1. <<>> \in Keys
        BY EmptySeq DEF Keys
      <3> QED
        BY <3>1
    <2>2. ASSUME NEW kid \in Kids(h, m), NEW x \in g[kid.node]
          PROVE  <<kid.key \o x[1], x[2]>> \in Keys \X DOMAIN h
      <3>1. kid.key \in Keys /\ kid.node \in DOMAIN h /\ kid.node > N - (t - 1)
        BY <1>1, KidsAre
      <3>2. x \in Keys \X DOMAIN h
        BY <1>8, <3>1
      <3>3. kid.key \o x[1] \in Keys
        BY <3>1, <3>2, ConcatProperties DEF Keys
      <3> QED
        BY <3>2, <3>3
    <2>3. ASSUME NEW kid \in Kids(h, m) PROVE Through(g, kid) \subseteq Keys \X DOMAIN h
      BY <2>2 DEF Through
    <2> QED
      BY <2>1, <2>3 DEF Around
  <1>9. N \in G
    <2> HIDE DEF G
    <2> QED
      BY <1>1, <1>7, <1>8, TurnInduction
  <1>10. \A m \in DOMAIN h : g[m] \in SUBSET (Keys \X DOMAIN h)
    BY <1>1, <1>9
  <1>11. g \in [DOMAIN h -> SUBSET (Keys \X DOMAIN h)]
    <2>1. g = [m \in DOMAIN h |-> g[m]]
      BY <1>5
    <2> QED
      BY <1>10, <2>1
  <1>12. Beneath(h, g)
    BY <1>2, <1>6, <1>11 DEF Beneath
  <1> QED
    BY <1>12

(* A node is below itself, and what is below its kids is below it.         *)
LEMMA BelowUnfolds ==
    ASSUME NEW h, Tree(h), NEW m \in DOMAIN h, NEW path \in Keys
    PROVE  Below(h, m, path) =
             {<<path, m>>} \cup
             UNION {Below(h, kid.node, path \o kid.key) : kid \in Kids(h, m)}
  <1>1. PICK f : Beneath(h, f)
    BY BelowIs
  <1> DEFINE On(S) == Along(path, S)
  <1>2. On({<<<<>>, m>>}) = {<<path, m>>}
    <2> DEFINE none == <<>>
    <2>1. path \o none = path
      BY ConcatEmptySeq DEF Keys
    <2> HIDE DEF none
    <2>2. \A x \in {<<none, m>>} : x[1] = none /\ x[2] = m
      OBVIOUS
    <2>3. On({<<none, m>>}) = {<<path, m>>}
      BY <2>1, <2>2 DEF Along
    <2> QED
      BY <2>3 DEF none
  <1>3. ASSUME NEW kid \in Kids(h, m)
        PROVE  On(Through(f, kid)) = Below(h, kid.node, path \o kid.key)
    <2>1. kid.key \in Keys /\ kid.node \in DOMAIN h
      BY KidsAre
    <2>2. f[kid.node] \subseteq Keys \X DOMAIN h
      BY <1>1, <2>1 DEF Beneath
    <2>3. ASSUME NEW x \in f[kid.node]
          PROVE  path \o (kid.key \o x[1]) = (path \o kid.key) \o x[1]
      <3>1. x[1] \in Keys
        BY <2>2
      <3> QED
        BY <2>1, <3>1, KeysJoin
    <2>4. On(Through(f, kid)) = {<<path \o (kid.key \o x[1]), x[2]>> : x \in f[kid.node]}
      <3> DEFINE y(x) == <<kid.key \o x[1], x[2]>>
      <3>1. \A x : y(x)[1] = kid.key \o x[1] /\ y(x)[2] = x[2]
        OBVIOUS
      <3>2. Through(f, kid) = {y(x) : x \in f[kid.node]}
        BY DEF Through
      <3> HIDE DEF y
      <3>3. On(Through(f, kid)) = {<<path \o y(x)[1], y(x)[2]>> : x \in f[kid.node]}
        BY <3>2 DEF Along
      <3> QED
        BY <3>1, <3>3
    <2>5. Below(h, kid.node, path \o kid.key) =
            {<<(path \o kid.key) \o x[1], x[2]>> : x \in f[kid.node]}
      BY <1>1, ZenonT(60) DEF Beneath, Along
    <2> QED
      BY <2>3, <2>4, <2>5
  <1>4. On(Around(h, f, m)) =
          On({<<<<>>, m>>}) \cup UNION {On(Through(f, kid)) : kid \in Kids(h, m)}
    BY SMTT(30) DEF Around, Along
  <1>5. Below(h, m, path) = On(Around(h, f, m))
    BY <1>1 DEF Beneath
  <1> HIDE DEF On
  <1> QED
    BY <1>2, <1>3, <1>4, <1>5

-----------------------------------------------------------------------------
(* The stack of a walk.                                                    *)

(* A sequence without one of its entries.                                  *)
LEMMA RemoveAtIs ==
    ASSUME NEW S, NEW s \in Seq(S), NEW j \in DOMAIN s
    PROVE  LET w == RemoveAt(s, j) IN
           /\ w \in Seq(S) /\ Len(w) = Len(s) - 1
           /\ \A x \in 1 .. Len(w) : w[x] = IF x < j THEN s[x] ELSE s[x + 1]
           /\ ToSet(s) = ToSet(w) \cup {s[j]}
  <1> DEFINE n == Len(s)
             a == SubSeq(s, 1, j - 1)
             b == SubSeq(s, j + 1, n)
             w == a \o b
  <1>1. n \in Nat /\ DOMAIN s = 1 .. n /\ j \in 1 .. n
    OBVIOUS
  <1>2. \A x \in 1 .. n : s[x] \in S
    BY <1>1, ElementOfSeq
  <1>3. /\ a \in Seq(S) /\ Len(a) = j - 1
        /\ \A x \in 1 .. j - 1 : a[x] = s[x]
    <2>1. /\ 1 \in Int /\ j - 1 \in Int /\ \A x \in 1 .. j - 1 : s[x] \in S
          /\ (1 <= j - 1 => j - 1 - 1 + 1 = j - 1) /\ (~(1 <= j - 1) => j - 1 = 0)
          /\ j - 1 - 1 + 1 = j - 1 /\ \A x \in 1 .. j - 1 : 1 + x - 1 = x
      BY <1>1, <1>2
    <2> QED
      BY <2>1, SubSeqProperties
  <1>4. /\ b \in Seq(S) /\ Len(b) = n - j
        /\ \A x \in 1 .. n - j : b[x] = s[x + j]
    <2>1. /\ j + 1 \in Int /\ n \in Int /\ \A x \in j + 1 .. n : s[x] \in S
          /\ (j + 1 <= n => n - (j + 1) + 1 = n - j) /\ (~(j + 1 <= n) => n - j = 0)
          /\ n - (j + 1) + 1 = n - j /\ \A x \in 1 .. n - j : j + 1 + x - 1 = x + j
      BY <1>1, <1>2
    <2> QED
      BY <2>1, SubSeqProperties
  <1> HIDE DEF a, b
  <1>5. /\ w \in Seq(S) /\ Len(w) = n - 1
        /\ \A x \in 1 .. n - 1 : w[x] = IF x <= j - 1 THEN a[x] ELSE b[x - (j - 1)]
    <2>1. (j - 1) + (n - j) = n - 1
      BY <1>1
    <2> DEFINE p == j - 1
               q == n - j
    <2>2. p \in Nat /\ q \in Nat /\ Len(a) = p /\ Len(b) = q
      BY <1>1, <1>3, <1>4
    <2> HIDE DEF p, q
    <2>3. a \in Seq(S) /\ b \in Seq(S)
      BY <1>3, <1>4
    <2>4. /\ a \o b \in Seq(S) /\ Len(a \o b) = p + q
          /\ \A x \in 1 .. p + q : (a \o b)[x] = IF x <= p THEN a[x] ELSE b[x - p]
      BY ONLY <2>2, <2>3
    <2> QED
      BY <2>1, <2>4 DEF p, q
  <1> HIDE DEF w
  <1>6. ASSUME NEW x \in 1 .. n - 1 PROVE w[x] = IF x < j THEN s[x] ELSE s[x + 1]
    <2>1. CASE x < j
      <3>1. x \in 1 .. j - 1 /\ x <= j - 1
        BY <1>1, <2>1
      <3> QED
        BY <1>3, <1>5, <2>1, <3>1
    <2>2. CASE ~(x < j)
      <3>1. /\ x - (j - 1) \in 1 .. n - j /\ ~(x <= j - 1)
            /\ (x - (j - 1)) + j = x + 1
        BY <1>1, <2>2
      <3> QED
        BY <1>4, <1>5, <2>2, <3>1
    <2> QED
      BY <2>1, <2>2
  <1>7. ToSet(s) = ToSet(w) \cup {s[j]}
    <2>1. DOMAIN w = 1 .. n - 1
      BY <1>5
    <2>2. ASSUME NEW x \in 1 .. n, x # j PROVE \E y \in 1 .. n - 1 : w[y] = s[x]
      <3>1. CASE x < j
        <4>1. x \in 1 .. n - 1
          BY <1>1, <3>1
        <4> QED
          BY <1>6, <3>1, <4>1
      <3>2. CASE ~(x < j)
        <4>1. x - 1 \in 1 .. n - 1 /\ ~(x - 1 < j) /\ x - 1 + 1 = x
          BY <1>1, <2>2, <3>2
        <4>2. w[x - 1] = s[x]
          BY <1>6, <4>1
        <4> QED
          BY <4>1, <4>2
      <3> QED
        BY <3>1, <3>2
    <2>3. ASSUME NEW y \in 1 .. n - 1 PROVE \E x \in 1 .. n : w[y] = s[x]
      <3>1. y \in 1 .. n /\ y + 1 \in 1 .. n
        BY <1>1
      <3> QED
        BY <1>6, <3>1
    <2>4. ToSet(s) = {s[x] : x \in 1 .. n} /\ ToSet(w) = {w[x] : x \in 1 .. n - 1}
      BY <1>1, <2>1 DEF ToSet
    <2> HIDE DEF n
    <2> QED
      BY <1>1, <2>2, <2>3, <2>4
  <1>8. RemoveAt(s, j) = w
    BY DEF RemoveAt, w, a, b
  <1> QED
    BY <1>5, <1>6, <1>7, <1>8

(* A sequence without its last entry.                                      *)
LEMMA FrontIs ==
    ASSUME NEW S, NEW s \in Seq(S), s # <<>>
    PROVE  /\ Len(s) \in Nat \ {0} /\ Len(s) - 1 \in Nat
           /\ Front(s) \in Seq(S) /\ Len(Front(s)) = Len(s) - 1
           /\ \A i \in 1 .. Len(s) - 1 : Front(s)[i] = s[i]
  <1> DEFINE n == Len(s)
             a == SubSeq(s, 1, n - 1)
  <1>1. n \in Nat \ {0}
    BY EmptySeq
  <1>2. \A x \in 1 .. n - 1 : s[x] \in S
    <2>1. \A x \in 1 .. n - 1 : x \in 1 .. n
      BY <1>1
    <2> QED
      BY <2>1, ElementOfSeq
  <1>3. /\ a \in Seq(S) /\ Len(a) = n - 1
        /\ \A i \in 1 .. n - 1 : a[i] = s[i]
    <2>1. /\ 1 \in Int /\ n - 1 \in Int /\ \A x \in 1 .. n - 1 : s[x] \in S
          /\ (1 <= n - 1 => n - 1 - 1 + 1 = n - 1) /\ (~(1 <= n - 1) => n - 1 = 0)
          /\ n - 1 - 1 + 1 = n - 1 /\ \A x \in 1 .. n - 1 : 1 + x - 1 = x
      <3> HIDE DEF n
      <3> QED
        BY <1>1, <1>2
    <2> QED
      BY <2>1, SubSeqProperties
  <1>4. Front(s) = a /\ n - 1 \in Nat
    BY <1>1 DEF Front
  <1> HIDE DEF a
  <1> QED
    BY <1>1, <1>3, <1>4

(* Its last entry replaced by one or by two.                               *)
FrontOne(s, f) == Front(s) \o <<f>>

FrontTwo(s, f, g) == Front(s) \o <<f, g>>

(* A sequence whose last element is replaced.                              *)
LEMMA FrontOneIs ==
    ASSUME NEW S, NEW s \in Seq(S), s # <<>>, NEW f \in S
    PROVE  /\ FrontOne(s, f) \in Seq(S) /\ Len(FrontOne(s, f)) = Len(s)
           /\ FrontOne(s, f)[Len(s)] = f
           /\ \A i \in 1 .. Len(s) - 1 : FrontOne(s, f)[i] = s[i]
  <1> DEFINE a == Front(s)
             p == Len(s) - 1
  <1>1. /\ p \in Nat /\ a \in Seq(S) /\ Len(a) = p /\ Len(s) = p + 1
        /\ \A i \in 1 .. p : a[i] = s[i]
    BY FrontIs
  <1>2. FrontOne(s, f) = a \o <<f>>
    BY DEF FrontOne
  <1> HIDE DEF a
  <1>3. /\ a \o <<f>> \in Seq(S) /\ Len(a \o <<f>>) = p + 1
        /\ \A i \in 1 .. p : (a \o <<f>>)[i] = a[i]
        /\ (a \o <<f>>)[p + 1] = f
    <2> HIDE DEF p
    <2> QED
      BY ONLY <1>1, f \in S
  <1> QED
    BY <1>1, <1>2, <1>3

(* A sequence whose last element is replaced by two.                       *)
LEMMA FrontTwoIs ==
    ASSUME NEW S, NEW s \in Seq(S), s # <<>>, NEW f \in S, NEW g \in S
    PROVE  /\ FrontTwo(s, f, g) \in Seq(S)
           /\ Len(FrontTwo(s, f, g)) = Len(s) + 1
           /\ FrontTwo(s, f, g)[Len(s)] = f /\ FrontTwo(s, f, g)[Len(s) + 1] = g
           /\ \A i \in 1 .. Len(s) - 1 : FrontTwo(s, f, g)[i] = s[i]
  <1> DEFINE a == Front(s)
             p == Len(s) - 1
  <1>1. /\ p \in Nat /\ a \in Seq(S) /\ Len(a) = p
        /\ Len(s) = p + 1 /\ Len(s) + 1 = p + 2
        /\ \A i \in 1 .. p : a[i] = s[i]
    BY FrontIs
  <1>2. FrontTwo(s, f, g) = a \o <<f, g>>
    BY DEF FrontTwo
  <1> HIDE DEF a
  <1>3. /\ a \o <<f, g>> \in Seq(S) /\ Len(a \o <<f, g>>) = p + 2
        /\ \A i \in 1 .. p : (a \o <<f, g>>)[i] = a[i]
        /\ (a \o <<f, g>>)[p + 1] = f /\ (a \o <<f, g>>)[p + 2] = g
    <2> HIDE DEF p
    <2> QED
      BY ONLY <1>1, f \in S, g \in S
  <1>4. \A i \in 1 .. p : (a \o <<f, g>>)[i] = s[i]
    BY <1>1, <1>3
  <1> HIDE DEF p
  <1>5. /\ Len(FrontTwo(s, f, g)) = Len(s) + 1
        /\ FrontTwo(s, f, g)[Len(s)] = f /\ FrontTwo(s, f, g)[Len(s) + 1] = g
    BY <1>1, <1>2, <1>3
  <1> QED
    BY <1>2, <1>3, <1>4, <1>5 DEF p

(* The directories that a walk may be in.                                  *)
KidRecords(h) == [key : Keys, node : DOMAIN h]

Frames(h) == [node : {0} \cup DOMAIN h, path : Keys, rest : Seq(KidRecords(h))]

(* A sequence whose elements are all in K is a sequence over K.            *)
LEMMA Retyped ==
    ASSUME NEW S, NEW K, NEW s \in Seq(S), \A i \in 1 .. Len(s) : s[i] \in K
    PROVE  s \in Seq(K)
  <1>1. Len(s) \in Nat /\ s \in [1 .. Len(s) -> S]
    BY LenProperties
  <1>2. s \in [1 .. Len(s) -> K]
    BY <1>1
  <1> QED
    BY <1>1, <1>2, SeqDef

(* The kids of a directory are directories of the same object, each reached by a key.  *)
LEMMA KidsTyped ==
    ASSUME NEW h, Tree(h), NEW m \in DOMAIN h
    PROVE  h[m].kids \in Seq(KidRecords(h))
  <1>1. /\ Len(h) \in Nat /\ DOMAIN h = 1 .. Len(h)
        /\ h[m].kids \in Seq([key : Keys, node : m + 1 .. Len(h)])
    BY DEF Tree, Keys
  <1>2. \A i \in 1 .. Len(h[m].kids) : h[m].kids[i] \in KidRecords(h)
    <2> TAKE i \in 1 .. Len(h[m].kids)
    <2>1. h[m].kids[i] \in [key : Keys, node : m + 1 .. Len(h)]
      BY <1>1, ElementOfSeq
    <2> QED
      BY <1>1, <2>1 DEF KidRecords
  <1> QED
    BY <1>1, <1>2, Retyped

(* The top frame, and the kid whose turn it is.                            *)
LEMMA TurnIs ==
    ASSUME Tree(heap), stack \in Seq(Frames(heap)), NEW j \in Turns
    PROVE  /\ stack # <<>> /\ Top \in Frames(heap) /\ Top = stack[Len(stack)]
           /\ Len(stack) \in Nat \ {0}
           /\ j \in DOMAIN Top.rest /\ Top.rest[j] \in KidRecords(heap)
           /\ KidNode(j) \in DOMAIN heap /\ KidPath(j) \in Keys
           /\ Top.rest[j] = [key |-> Top.rest[j].key, node |-> KidNode(j)]
           /\ KidPath(j) = Top.path \o Top.rest[j].key
  <1>1. stack # <<>> /\ Top.rest # <<>>
    BY DEF Turns
  <1>2. Len(stack) \in Nat \ {0} /\ Len(stack) \in 1 .. Len(stack)
    BY <1>1, EmptySeq
  <1>3. Top = stack[Len(stack)] /\ Top \in Frames(heap)
    BY <1>2, ElementOfSeq DEF Top, Last
  <1>4. /\ Top.rest \in Seq(KidRecords(heap)) /\ Top.path \in Keys
    BY <1>3 DEF Frames
  <1>5. Len(Top.rest) \in Nat \ {0} /\ DOMAIN Top.rest = 1 .. Len(Top.rest)
    BY <1>1, <1>4, EmptySeq
  <1>6. j \in DOMAIN Top.rest
    BY <1>5 DEF Turns
  <1>7. Top.rest[j] \in KidRecords(heap)
    BY <1>4, <1>5, <1>6, ElementOfSeq
  <1>8. KidNode(j) \in DOMAIN heap /\ Top.rest[j].key \in Keys
    BY <1>7 DEF KidRecords, KidNode
  <1>9. KidPath(j) \in Keys
    BY <1>4, <1>8, ConcatProperties DEF KidPath, Keys
  <1> QED
    BY <1>1, <1>2, <1>3, <1>6, <1>7, <1>8, <1>9 DEF KidRecords, KidNode, KidPath

(* What a call leaves on the stack.                                        *)
Without(j) == [Top EXCEPT !.rest = RemoveAt(@, j)]

Over == [Top EXCEPT !.rest = <<>>]

(* The frames that a call can leave are frames.                            *)
LEMMA WithoutIs ==
    ASSUME Tree(heap), stack \in Seq(Frames(heap)), NEW j \in Turns
    PROVE  /\ Without(j) \in Frames(heap)
           /\ Without(j).node = Top.node /\ Without(j).path = Top.path
           /\ Without(j).rest = RemoveAt(Top.rest, j)
           /\ Over \in Frames(heap)
           /\ Over.node = Top.node /\ Over.path = Top.path /\ Over.rest = <<>>
           /\ Frame(KidNode(j), KidPath(j)) \in Frames(heap)
           /\ Frame(KidNode(j), KidPath(j)).node = KidNode(j)
           /\ Frame(KidNode(j), KidPath(j)).path = KidPath(j)
           /\ Frame(KidNode(j), KidPath(j)).rest = heap[KidNode(j)].kids
  <1>1. /\ Top \in Frames(heap) /\ j \in DOMAIN Top.rest
        /\ KidNode(j) \in DOMAIN heap /\ KidPath(j) \in Keys
    BY TurnIs
  <1>2. heap[KidNode(j)].kids \in Seq(KidRecords(heap))
    BY <1>1, KidsTyped
  <1>3. /\ Top.rest \in Seq(KidRecords(heap))
        /\ Top = [node |-> Top.node, path |-> Top.path, rest |-> Top.rest]
        /\ Top.node \in {0} \cup DOMAIN heap /\ Top.path \in Keys
    BY <1>1 DEF Frames
  <1>4. RemoveAt(Top.rest, j) \in Seq(KidRecords(heap))
    BY <1>1, <1>3, RemoveAtIs
  <1>5. Without(j) = [node |-> Top.node, path |-> Top.path, rest |-> RemoveAt(Top.rest, j)]
    BY <1>1, SMTT(30) DEF Without, Frames
  <1>6. Over = [node |-> Top.node, path |-> Top.path, rest |-> <<>>]
    BY <1>1 DEF Over, Frames
  <1>7. <<>> \in Seq(KidRecords(heap))
    BY EmptySeq
  <1> QED
    BY <1>1, <1>2, <1>3, <1>4, <1>5, <1>6, <1>7 DEF Frames, Frame

(* What a call leaves on the stack (walk), for each answer.                *)
LEMMA CalledIs ==
    ASSUME Tree(heap), stack \in Seq(Frames(heap)), NEW j \in Turns,
           NEW answer, Called(j, answer), NEW n, n = Len(stack)
    PROVE  /\ n \in Nat \ {0} /\ stack[n] = Top
           /\ stack' \in Seq(Frames(heap))
           /\ \A i \in 1 .. n - 1 : stack'[i] = stack[i]
           /\ IsDir(KidNode(j)) /\ answer # "skip" =>
                 /\ Len(stack') = n + 1 /\ stack'[n] = Without(j)
                 /\ stack'[n + 1] = Frame(KidNode(j), KidPath(j))
           /\ IsDir(KidNode(j)) /\ answer = "skip" =>
                 Len(stack') = n /\ stack'[n] = Without(j)
           /\ ~IsDir(KidNode(j)) =>
                 /\ Len(stack') = n
                 /\ stack'[n] = IF answer = "skip" THEN Over ELSE Without(j)
  <1>1. /\ stack # <<>> /\ n \in Nat \ {0} /\ stack[n] = Top
    BY TurnIs
  <1> DEFINE new == Frame(KidNode(j), KidPath(j))
  <1>2. Without(j) \in Frames(heap) /\ Over \in Frames(heap) /\ new \in Frames(heap)
    BY WithoutIs
  <1>3. stack' = IF IsDir(KidNode(j))
                 THEN IF answer = "skip" THEN FrontOne(stack, Without(j))
                      ELSE FrontTwo(stack, Without(j), new)
                 ELSE FrontOne(stack, IF answer = "skip" THEN Over ELSE Without(j))
    BY DEF Called, Without, Over, FrontOne, FrontTwo
  <1> HIDE DEF new
  <1>4. ASSUME NEW f \in Frames(heap), stack' = FrontOne(stack, f)
        PROVE  /\ stack' \in Seq(Frames(heap)) /\ Len(stack') = n /\ stack'[n] = f
               /\ \A i \in 1 .. n - 1 : stack'[i] = stack[i]
    <2> DEFINE m == Len(stack)
               one == FrontOne(stack, f)
    <2>1. /\ one \in Seq(Frames(heap)) /\ Len(one) = m /\ one[m] = f
          /\ \A i \in 1 .. m - 1 : one[i] = stack[i]
      BY ONLY <1>1, stack \in Seq(Frames(heap)), f \in Frames(heap), FrontOneIs
    <2>2. stack' = one /\ n = m
      BY <1>4
    <2> HIDE DEF one, m
    <2> QED
      BY <2>1, <2>2
  <1>5. ASSUME stack' = FrontTwo(stack, Without(j), new)
        PROVE  /\ stack' \in Seq(Frames(heap)) /\ Len(stack') = n + 1
               /\ stack'[n] = Without(j) /\ stack'[n + 1] = new
               /\ \A i \in 1 .. n - 1 : stack'[i] = stack[i]
    <2> DEFINE m == Len(stack)
               two == FrontTwo(stack, Without(j), new)
    <2>1. /\ two \in Seq(Frames(heap)) /\ Len(two) = m + 1
          /\ two[m] = Without(j) /\ two[m + 1] = new
          /\ \A i \in 1 .. m - 1 : two[i] = stack[i]
      BY ONLY <1>1, <1>2, stack \in Seq(Frames(heap)), FrontTwoIs
    <2>2. stack' = two /\ n = m
      BY <1>5
    <2> HIDE DEF two, m
    <2> QED
      BY <2>1, <2>2
  <1>6. CASE IsDir(KidNode(j)) /\ answer # "skip"
    BY <1>1, <1>3, <1>5, <1>6 DEF new
  <1>7. CASE IsDir(KidNode(j)) /\ answer = "skip"
    BY <1>1, <1>2, <1>3, <1>4, <1>7
  <1>8. CASE ~IsDir(KidNode(j))
    BY <1>1, <1>2, <1>3, <1>4, <1>8
  <1> QED
    BY <1>6, <1>7, <1>8

(* What the end of a range leaves on the stack (walk).                     *)
LEMMA LeaveIs ==
    ASSUME stack \in Seq(Frames(heap)), Leave, NEW n, n = Len(stack)
    PROVE  /\ n \in Nat \ {0} /\ stack[n] = Top /\ Top.rest = <<>>
           /\ stack' \in Seq(Frames(heap)) /\ Len(stack') = n - 1
           /\ \A i \in 1 .. n - 1 : stack'[i] = stack[i]
  <1>1. stack # <<>> /\ Top.rest = <<>> /\ stack' = Front(stack)
    BY DEF Leave
  <1>2. Top = stack[n]
    BY DEF Top, Last
  <1> QED
    BY <1>1, <1>2, FrontIs

-----------------------------------------------------------------------------
(* Seek: what is still ahead of it, below the kids in the rest of its      *)
(* frames.                                                                 *)
UnderKids(h, f) ==
    UNION {Below(h, kid.node, f.path \o kid.key) : kid \in ToSet(f.rest)}

Ahead(h, s) == UNION {UnderKids(h, s[i]) : i \in DOMAIN s}

Lower(h, s, n) == UNION {UnderKids(h, s[i]) : i \in 1 .. n - 1}

(* Nothing is under the kids of a frame without a rest.                    *)
LEMMA NothingUnder ==
    ASSUME NEW h, NEW f, f.rest = <<>>
    PROVE  UnderKids(h, f) = {}
  <1>1. ToSet(f.rest) = {}
    BY DEF ToSet
  <1> QED
    BY <1>1 DEF UnderKids

(* What is ahead is under the frames below the last one, and under it.     *)
LEMMA AheadLast ==
    ASSUME NEW h, NEW S, NEW s \in Seq(S), NEW n \in Nat \ {0}, Len(s) = n
    PROVE  Ahead(h, s) = Lower(h, s, n) \cup UnderKids(h, s[n])
  <1>1. DOMAIN s = (1 .. n - 1) \cup {n}
    BY LenProperties
  <1> QED
    BY <1>1 DEF Ahead, Lower

(* The kid that is called takes what is below it from its frame.           *)
LEMMA UnderTop ==
    ASSUME Tree(heap), stack \in Seq(Frames(heap)), NEW j \in Turns
    PROVE  UnderKids(heap, Top) =
             UnderKids(heap, Without(j)) \cup Below(heap, KidNode(j), KidPath(j))
  <1>1. /\ Top \in Frames(heap) /\ j \in DOMAIN Top.rest
        /\ KidNode(j) = Top.rest[j].node /\ KidPath(j) = Top.path \o Top.rest[j].key
    BY TurnIs DEF KidNode, KidPath
  <1>2. Top.rest \in Seq(KidRecords(heap))
    BY <1>1 DEF Frames
  <1>3. ToSet(Top.rest) = ToSet(Without(j).rest) \cup {Top.rest[j]}
    <2>1. ToSet(Top.rest) = ToSet(RemoveAt(Top.rest, j)) \cup {Top.rest[j]}
      BY <1>1, <1>2, RemoveAtIs
    <2>2. Without(j).rest = RemoveAt(Top.rest, j)
      BY WithoutIs
    <2> QED
      BY <2>1, <2>2
  <1>4. Without(j).path = Top.path
    BY WithoutIs
  <1> QED
    BY <1>1, <1>3, <1>4 DEF UnderKids

(* What is below a kid is the kid and what is under its own frame.         *)
LEMMA UnderKid ==
    ASSUME Tree(heap), stack \in Seq(Frames(heap)), NEW j \in Turns
    PROVE  /\ Below(heap, KidNode(j), KidPath(j)) =
                {<<KidPath(j), KidNode(j)>>} \cup
                UnderKids(heap, Frame(KidNode(j), KidPath(j)))
           /\ ~IsDir(KidNode(j)) => UnderKids(heap, Frame(KidNode(j), KidPath(j))) = {}
  <1> DEFINE m == KidNode(j)
             path == KidPath(j)
  <1>1. m \in DOMAIN heap /\ path \in Keys
    BY TurnIs
  <1>2. Frame(m, path).rest = heap[m].kids /\ Frame(m, path).path = path
    BY WithoutIs
  <1>3. ASSUME ~IsDir(m) PROVE heap[m].kids = <<>>
    BY <1>1, <1>3 DEF Tree, IsDir
  <1> HIDE DEF m, path
  <1>4. Below(heap, m, path) = {<<path, m>>} \cup UnderKids(heap, Frame(m, path))
    BY <1>1, <1>2, BelowUnfolds DEF UnderKids, Kids
  <1>5. ~IsDir(m) => UnderKids(heap, Frame(m, path)) = {}
    BY <1>2, <1>3, NothingUnder
  <1> QED
    BY <1>4, <1>5 DEF m, path

(* A call takes its node, and what is skipped, from what is ahead.         *)
LEMMA AheadCalled ==
    ASSUME Tree(heap), stack \in Seq(Frames(heap)), NEW j \in Turns,
           NEW answer, Called(j, answer)
    PROVE  /\ Ahead(heap, stack') \subseteq Ahead(heap, stack)
           /\ <<KidPath(j), KidNode(j)>> \in Ahead(heap, stack)
           /\ answer # "skip" =>
                 Ahead(heap, stack) \subseteq
                   Ahead(heap, stack') \cup {<<KidPath(j), KidNode(j)>>}
  <1> DEFINE n == Len(stack)
             new == Frame(KidNode(j), KidPath(j))
             one == <<KidPath(j), KidNode(j)>>
  <1>1. /\ n \in Nat \ {0} /\ stack[n] = Top /\ stack' \in Seq(Frames(heap))
        /\ \A i \in 1 .. n - 1 : stack'[i] = stack[i]
    BY CalledIs
  <1>2. /\ UnderKids(heap, Top) =
             UnderKids(heap, Without(j)) \cup {one} \cup UnderKids(heap, new)
        /\ ~IsDir(KidNode(j)) => UnderKids(heap, new) = {}
    BY UnderTop, UnderKid
  <1>3. UnderKids(heap, Over) = {}
    BY WithoutIs, NothingUnder
  <1>4. Ahead(heap, stack) = Lower(heap, stack, n) \cup UnderKids(heap, Top)
    BY <1>1, AheadLast
  <1>5. Lower(heap, stack', n) = Lower(heap, stack, n)
    BY <1>1 DEF Lower
  <1> SUFFICES /\ Ahead(heap, stack') \subseteq Ahead(heap, stack)
               /\ one \in Ahead(heap, stack)
               /\ answer # "skip" =>
                     Ahead(heap, stack) \subseteq Ahead(heap, stack') \cup {one}
    OBVIOUS
  <1>6. CASE IsDir(KidNode(j)) /\ answer # "skip"
    <2>1. Len(stack') = n + 1 /\ stack'[n] = Without(j) /\ stack'[n + 1] = new
      BY <1>6, CalledIs
    <2>2. /\ Ahead(heap, stack') = Lower(heap, stack', n + 1) \cup UnderKids(heap, new)
          /\ n + 1 \in Nat \ {0}
      BY <1>1, <2>1, AheadLast
    <2>3. 1 .. n + 1 - 1 = (1 .. n - 1) \cup {n}
      BY <1>1
    <2>4. Lower(heap, stack', n + 1) = Lower(heap, stack', n) \cup UnderKids(heap, Without(j))
      BY <2>1, <2>3 DEF Lower
    <2> HIDE DEF n, new, one
    <2> QED
      BY <1>2, <1>4, <1>5, <2>2, <2>4
  <1>7. CASE ~(IsDir(KidNode(j)) /\ answer # "skip")
    <2>1. /\ Len(stack') = n
          /\ stack'[n] = IF ~IsDir(KidNode(j)) /\ answer = "skip" THEN Over ELSE Without(j)
      BY <1>7, CalledIs
    <2>2. Ahead(heap, stack') = Lower(heap, stack', n) \cup UnderKids(heap, stack'[n])
      BY <1>1, <2>1, AheadLast
    <2> HIDE DEF n, new, one
    <2>3. CASE ~IsDir(KidNode(j)) /\ answer = "skip"
      BY <1>2, <1>3, <1>4, <1>5, <2>1, <2>2, <2>3
    <2>4. CASE ~(~IsDir(KidNode(j)) /\ answer = "skip")
      BY <1>2, <1>4, <1>5, <1>7, <2>1, <2>2, <2>4
    <2> QED
      BY <2>3, <2>4
  <1> QED
    BY <1>6, <1>7

(* The end of a range takes nothing from what is ahead.                    *)
LEMMA AheadLeave ==
    ASSUME stack \in Seq(Frames(heap)), Leave
    PROVE  stack' \in Seq(Frames(heap)) /\ Ahead(heap, stack') = Ahead(heap, stack)
  <1> DEFINE n == Len(stack)
  <1>1. /\ n \in Nat \ {0} /\ stack[n] = Top /\ Top.rest = <<>>
        /\ stack' \in Seq(Frames(heap)) /\ Len(stack') = n - 1
        /\ \A i \in 1 .. n - 1 : stack'[i] = stack[i]
    BY LeaveIs
  <1>2. Ahead(heap, stack) = Lower(heap, stack, n)
    <2>1. UnderKids(heap, Top) = {}
      BY <1>1, NothingUnder
    <2>2. Ahead(heap, stack) = Lower(heap, stack, n) \cup UnderKids(heap, Top)
      BY <1>1, AheadLast
    <2> QED
      BY <2>1, <2>2
  <1>3. DOMAIN stack' = 1 .. n - 1
    BY <1>1, LenProperties
  <1> QED
    BY <1>1, <1>2, <1>3 DEF Ahead, Lower

(* Where a walk begins, all that is below its root is ahead.               *)
LEMMA AheadEntry ==
    ASSUME NEW h, Tree(h), NEW m \in DOMAIN h, NEW path \in Keys
    PROVE  /\ Entry(m, path) \in Seq(Frames(h))
           /\ Ahead(h, Entry(m, path)) = Below(h, m, path)
  <1> DEFINE none == <<>>
             kid == [key |-> none, node |-> m]
             rest == <<kid>>
             f == [node |-> 0, path |-> path, rest |-> rest]
             s == <<f>>
  <1>1. none \in Keys /\ path \o none = path
    BY EmptySeq, ConcatEmptySeq DEF Keys
  <1>2. kid \in KidRecords(h)
    BY <1>1 DEF KidRecords
  <1>3. kid.key = none /\ kid.node = m
    OBVIOUS
  <1> HIDE DEF none, kid
  <1>4. rest \in Seq(KidRecords(h)) /\ ToSet(rest) = {kid}
    BY <1>2 DEF ToSet
  <1>5. f.path = path /\ f.rest = rest
    OBVIOUS
  <1> HIDE DEF rest
  <1>6. f \in Frames(h)
    BY <1>4 DEF Frames
  <1> HIDE DEF f
  <1>7. s \in Seq(Frames(h)) /\ Ahead(h, s) = UnderKids(h, f)
    BY <1>6 DEF Ahead
  <1>8. UnderKids(h, f) = Below(h, m, path)
    BY <1>1, <1>3, <1>4, <1>5 DEF UnderKids
  <1>9. Entry(m, path) = s
    BY DEF Entry, s, f, rest, kid, none
  <1> QED
    BY <1>7, <1>8, <1>9

(* What is below a node, and at a path, is typed.                          *)
LEMMA BelowTyped ==
    ASSUME NEW h, Tree(h), NEW m \in DOMAIN h, NEW path \in Keys
    PROVE  Below(h, m, path) \subseteq Keys \X DOMAIN h
  <1>1. PICK f : Beneath(h, f)
    BY BelowIs
  <1>2. f[m] \subseteq Keys \X DOMAIN h
    BY <1>1 DEF Beneath
  <1>3. ASSUME NEW y \in Below(h, m, path) PROVE y \in Keys \X DOMAIN h
    <2>1. PICK x \in f[m] : y = <<path \o x[1], x[2]>>
      <3>1. y \in Along(path, f[m])
        BY <1>1, <1>3 DEF Beneath
      <3> QED
        BY <3>1 DEF Along
    <2>2. x[1] \in Keys /\ x[2] \in DOMAIN h
      BY <1>2
    <2>3. path \o x[1] \in Keys
      BY <2>2, ConcatProperties DEF Keys
    <2> QED
      BY <2>1, <2>2, <2>3
  <1> QED
    BY <1>3

(* What is below the root has paths and nodes.                             *)
LEMMA RootIs ==
    ASSUME Tree(heap)
    PROVE  /\ 1 \in DOMAIN heap /\ <<>> \in Keys
           /\ Below(heap, 1, <<>>) \subseteq Keys \X DOMAIN heap
  <1>1. 1 \in DOMAIN heap /\ <<>> \in Keys
    BY EmptySeq DEF Tree, Keys
  <1> QED
    BY <1>1, BelowTyped

(* The nodes at a path are those below the root that have it.              *)
LEMMA AtIs ==
    ASSUME Tree(heap), NEW path, NEW n
    PROVE  n \in At(1, path) <=> <<path, n>> \in Below(heap, 1, <<>>)
  <1>2. Below(heap, 1, <<>>) \subseteq Keys \X DOMAIN heap
    BY RootIs
  <1> DEFINE B == Below(heap, 1, <<>>)
  <1> HIDE DEF B
  <1>3. \A y \in B : y = <<y[1], y[2]>>
    BY <1>2 DEF B
  <1>4. At(1, path) = {x[2] : x \in {y \in B : y[1] = path}}
    BY DEF At, B
  <1>5. n \in At(1, path) <=> <<path, n>> \in B
    BY <1>3, <1>4
  <1> QED
    BY <1>5 DEF B

-----------------------------------------------------------------------------
(* While it seeks, what is ahead is in the object, the nodes at the goal   *)
(* are all ahead until one is found, and what was found is one of them.    *)
Seeking ==
    /\ Ahead(heap, stack) \subseteq Below(heap, 1, <<>>)
    /\ result = 0 =>
          \A n \in DOMAIN heap :
             <<goal, n>> \in Below(heap, 1, <<>>) => <<goal, n>> \in Ahead(heap, stack)
    /\ result # 0 => <<goal, result>> \in Below(heap, 1, <<>>)

SeekInv ==
    /\ phase = "idle" => heap \in Objects
    /\ phase # "idle" => mode = "idle"
    /\ mode \in {"seek", "walk"} => stack \in Seq(Frames(heap))
    /\ mode = "seek" => Seeking
    /\ SeekCorrect

(* A walk for its own sake and the loading of a template exclude each      *)
(* other.                                                                  *)
LEMMA LoadingPhase ==
    ASSUME Loading
    PROVE  phase # "idle" /\ phase' # "idle"
  BY DEF Loading, Split, Panic, Divide, Extract, ExtractPanics, PassBy, ExtractLeave,
         ExtractDone, ApplyDefault, DefaultPanics, DefaultsDone, Insert, partVars

(* SeekInv holds before the first walk.                                    *)
LEMMA SeekInit == Init => SeekInv
  BY DEF Init, WalkerInit, SeekInv, SeekCorrect

(* SeekInv holds when a seek begins (Walk).                                *)
LEMMA SeekBegins ==
    ASSUME SeekInv, BeginWalk
    PROVE  SeekInv'
  <1>1. /\ phase = "idle" /\ phase' = phase /\ heap' = heap /\ mode' = "seek"
        /\ stack' = Entry(1, <<>>) /\ result' = 0
    BY DEF BeginWalk, Walk
  <1>2. heap \in Objects /\ Tree(heap)
    BY <1>1, ObjectsAssumption DEF SeekInv
  <1>3. 1 \in DOMAIN heap /\ <<>> \in Keys
    BY <1>2, EmptySeq DEF Tree, Keys
  <1>4. /\ stack' \in Seq(Frames(heap))
        /\ Ahead(heap, stack') = Below(heap, 1, <<>>)
    BY <1>1, <1>2, <1>3, AheadEntry
  <1>5. Seeking'
    BY <1>1, <1>4 DEF Seeking
  <1>6. SeekCorrect'
    BY <1>1 DEF SeekCorrect
  <1> QED
    BY <1>1, <1>2, <1>4, <1>5, <1>6 DEF SeekInv

(* SeekInv is kept by each call of the function of seek.                   *)
LEMMA SeekCalls ==
    ASSUME SeekInv, phase = "idle", phase' = "idle", NEW j \in Turns, SeekCall(j)
    PROVE  SeekInv'
  <1>1. /\ mode = "seek" /\ mode' = "seek" /\ heap' = heap /\ goal' = goal
        /\ Called(j, SeekAnswer(j))
        /\ result' = IF (result = 0 \/ heap[result].kind = "null") /\ KidPath(j) = goal
                     THEN KidNode(j) ELSE result
    BY DEF SeekCall
  <1>2. /\ heap \in Objects /\ Tree(heap) /\ stack \in Seq(Frames(heap)) /\ Seeking
    BY <1>1, ObjectsAssumption DEF SeekInv
  <1>3. stack' \in Seq(Frames(heap)) /\ KidNode(j) \in DOMAIN heap /\ KidNode(j) # 0
    <2>1. KidNode(j) \in DOMAIN heap
      BY <1>2, TurnIs
    <2>2. 0 \notin DOMAIN heap
      BY <1>2 DEF Tree
    <2>3. stack' \in Seq(Frames(heap))
      BY <1>1, <1>2, CalledIs
    <2> QED
      BY <2>1, <2>2, <2>3
  <1> DEFINE one == <<KidPath(j), KidNode(j)>>
             old == Ahead(heap, stack)
             new == Ahead(heap, stack')
             all == Below(heap, 1, <<>>)
  <1>4. /\ new \subseteq old /\ one \in old
        /\ SeekAnswer(j) # "skip" => old \subseteq new \cup {one}
    BY <1>1, <1>2, AheadCalled
  <1>5. /\ old \subseteq all
        /\ result = 0 => \A n \in DOMAIN heap : <<goal, n>> \in all => <<goal, n>> \in old
        /\ result # 0 => <<goal, result>> \in all
    BY <1>2 DEF Seeking
  <1>6. /\ new \subseteq all
        /\ result' = 0 => \A n \in DOMAIN heap : <<goal, n>> \in all => <<goal, n>> \in new
        /\ result' # 0 => <<goal, result'>> \in all
    <2> HIDE DEF old, new, all
    <2>1. CASE result' = result
      <3>1. ASSUME result = 0 PROVE KidPath(j) # goal /\ SeekAnswer(j) # "skip"
        BY <1>1, <1>3, <2>1, <3>1 DEF SeekAnswer
      <3>2. ASSUME result = 0, NEW n \in DOMAIN heap, <<goal, n>> \in all
            PROVE  <<goal, n>> \in new
        BY <1>4, <1>5, <3>1, <3>2
      <3> QED
        BY <1>4, <1>5, <2>1, <3>2
    <2>2. CASE result' # result
      <3>1. result' = KidNode(j) /\ KidPath(j) = goal
        BY <1>1, <2>2
      <3> QED
        BY <1>3, <1>4, <1>5, <3>1
    <2> QED
      BY <2>1, <2>2
  <1>7. Seeking'
    BY <1>1, <1>6 DEF Seeking
  <1>8. SeekCorrect'
    BY <1>1 DEF SeekCorrect
  <1> QED
    BY <1>1, <1>2, <1>3, <1>7, <1>8 DEF SeekInv

(* SeekInv is kept by the end of a range.                                  *)
LEMMA SeekLeaves ==
    ASSUME SeekInv, phase = "idle", phase' = "idle", SeekLeave
    PROVE  SeekInv'
  <1>1. /\ mode = "seek" /\ mode' = "seek" /\ heap' = heap /\ goal' = goal
        /\ Leave /\ result' = result
    BY DEF SeekLeave
  <1>2. /\ heap \in Objects /\ stack \in Seq(Frames(heap)) /\ Seeking
    BY <1>1 DEF SeekInv
  <1>3. stack' \in Seq(Frames(heap)) /\ Ahead(heap, stack') = Ahead(heap, stack)
    BY <1>1, <1>2, AheadLeave
  <1>4. Seeking' /\ SeekCorrect'
    BY <1>1, <1>2, <1>3 DEF Seeking, SeekCorrect
  <1> QED
    BY <1>1, <1>2, <1>3, <1>4 DEF SeekInv

(* The seek is over: nothing is ahead.                                     *)
LEMMA SeekEnds ==
    ASSUME SeekInv, phase = "idle", phase' = "idle", SeekDone
    PROVE  SeekInv'
  <1>1. /\ mode = "seek" /\ heap' = heap /\ goal' = goal /\ result' = result
        /\ stack = <<>>
        /\ IF result = 0 THEN mode' = "notFound"
           ELSE mode' = "walk" /\ stack' = Entry(result, goal)
    BY DEF SeekDone
  <1>2. /\ heap \in Objects /\ Tree(heap) /\ Seeking
    BY <1>1, ObjectsAssumption DEF SeekInv
  <1>3. At(1, goal)' = At(1, goal)
    BY <1>1 DEF At
  <1>4. CASE result = 0
    <2>1. Ahead(heap, stack) = {}
      BY <1>1 DEF Ahead
    <2>2. \A n \in DOMAIN heap : <<goal, n>> \notin Below(heap, 1, <<>>)
      BY <1>2, <1>4, <2>1 DEF Seeking
    <2>3. Below(heap, 1, <<>>) \subseteq Keys \X DOMAIN heap
      BY <1>2, RootIs
    <2>4. \A n : <<goal, n>> \notin Below(heap, 1, <<>>)
      BY <2>2, <2>3
    <2>5. At(1, goal) = {}
      BY <1>2, <2>4, AtIs
    <2>6. SeekCorrect'
      BY <1>1, <1>3, <1>4, <2>5 DEF SeekCorrect
    <2> QED
      BY <1>1, <1>2, <1>4, <2>6 DEF SeekInv
  <1>5. CASE result # 0
    <2>1. <<goal, result>> \in Below(heap, 1, <<>>)
      BY <1>2, <1>5 DEF Seeking
    <2>2. Below(heap, 1, <<>>) \subseteq Keys \X DOMAIN heap
      BY <1>2, RootIs
    <2>3. goal \in Keys /\ result \in DOMAIN heap
      BY <2>1, <2>2
    <2>4. stack' \in Seq(Frames(heap))
      BY <1>1, <1>2, <1>5, <2>3, AheadEntry
    <2>5. result \in At(1, goal)
      BY <1>2, <2>1, AtIs
    <2>6. SeekCorrect'
      BY <1>1, <1>3, <1>5, <2>5 DEF SeekCorrect
    <2> QED
      BY <1>1, <1>2, <1>5, <2>4, <2>6 DEF SeekInv
  <1> QED
    BY <1>4, <1>5

(* The walk proper keeps what the seek has found.                          *)
LEMMA WalkKeepsFound ==
    ASSUME SeekInv, phase = "idle", phase' = "idle",
           (\E j \in Turns : WalkCall(j)) \/ WalkLeave \/ WalkDone
    PROVE  SeekInv'
  <1>1. /\ mode = "walk" /\ mode' \in {"walk", "over"}
        /\ heap' = heap /\ goal' = goal /\ result' = result
    BY DEF WalkCall, WalkLeave, WalkDone
  <1>2. /\ heap \in Objects /\ Tree(heap) /\ stack \in Seq(Frames(heap))
        /\ result \in At(1, goal)
    BY <1>1, ObjectsAssumption DEF SeekInv, SeekCorrect
  <1>3. At(1, goal)' = At(1, goal)
    BY <1>1 DEF At
  <1>4. SeekCorrect'
    BY <1>1, <1>2, <1>3 DEF SeekCorrect
  <1>5. mode' = "walk" => stack' \in Seq(Frames(heap))
    <2>1. ASSUME NEW j \in Turns, WalkCall(j) PROVE stack' \in Seq(Frames(heap))
      <3>1. PICK answer \in {"nil", "skip", "error"} : Called(j, answer)
        BY <2>1 DEF WalkCall
      <3> QED
        BY <1>2, <3>1, CalledIs
    <2>2. ASSUME WalkLeave PROVE stack' \in Seq(Frames(heap))
      BY <1>2, <2>2, AheadLeave DEF WalkLeave
    <2>3. ASSUME WalkDone PROVE mode' = "over"
      BY <2>3 DEF WalkDone
    <2> QED
      BY <2>1, <2>2, <2>3
  <1> QED
    BY <1>1, <1>2, <1>4, <1>5 DEF SeekInv

(* SeekInv is kept by every step.                                          *)
LEMMA SeekNext == SeekInv /\ [Next]_vars => SeekInv'
  <1> SUFFICES ASSUME SeekInv, [Next]_vars PROVE SeekInv'
    OBVIOUS
  <1>1. CASE BeginWalk
    BY <1>1, SeekBegins
  <1>2. CASE WalkOn
    <2>1. mode \in {"seek", "walk"} /\ phase' = phase
      BY <1>2 DEF WalkOn, Step, SeekCall, SeekLeave, SeekDone, WalkCall, WalkLeave, WalkDone
    <2>2. phase = "idle" /\ phase' = "idle"
      BY <2>1 DEF SeekInv
    <2> QED
      BY <1>2, <2>2, SeekCalls, SeekLeaves, SeekEnds, WalkKeepsFound DEF WalkOn, Step
  <1>3. CASE LoadTemplateSource
    BY <1>3 DEF LoadTemplateSource, SeekInv, SeekCorrect
  <1>4. CASE Loading /\ UNCHANGED seekVars
    BY <1>4, LoadingPhase DEF SeekInv, SeekCorrect, seekVars
  <1>5. CASE UNCHANGED vars
    <2>1. UNCHANGED <<heap, stack, phase, mode, goal, result>>
      BY <1>5 DEF vars, seekVars
    <2> QED
      BY <2>1 DEF SeekInv, SeekCorrect, Seeking, At
  <1> QED
    BY <1>1, <1>2, <1>3, <1>4, <1>5 DEF Next

(* Seek is correct for every object that can be decoded: it finds a node   *)
(* exactly when there is one at the path asked for, and one that is there, *)
(* in whatever order maps are ranged over, although SkipDir from a leaf    *)
(* ends the range of its parent (JsonWalker.Seek, walk).                   *)
THEOREM SeekIsCorrect == Spec => []SeekCorrect
  <1>1. SeekInv => SeekCorrect
    BY DEF SeekInv
  <1> QED
    BY <1>1, SeekInit, SeekNext, PTL DEF Spec

-----------------------------------------------------------------------------
(* Induction over a tree, from the kids to their parent.                   *)
LEMMA KidsFirst ==
    ASSUME NEW h, Tree(h), NEW S,
           \A n \in DOMAIN h : (\A kid \in Kids(h, n) : kid.node \in S) => n \in S
    PROVE  DOMAIN h \subseteq S
  <1> DEFINE N == Len(h)
             T == {t \in 0 .. N : \A n \in DOMAIN h : n > N - t => n \in S}
  <1>1. N \in Nat /\ DOMAIN h = 1 .. N
    BY DEF Tree
  <1> HIDE DEF N
  <1>2. 0 \in T
    BY <1>1
  <1>3. ASSUME NEW t \in 1 .. N, t - 1 \in T PROVE t \in T
    <2> SUFFICES ASSUME NEW n \in DOMAIN h, n > N - t PROVE n \in S
      BY <1>1
    <2>1. ASSUME NEW kid \in Kids(h, n) PROVE kid.node \in S
      <3>1. kid.node \in DOMAIN h /\ kid.node > n /\ kid.node \in Nat /\ n \in Nat
        BY KidsAre
      <3>2. kid.node > N - (t - 1)
        BY <1>1, <3>1
      <3> QED
        BY <1>3, <3>1, <3>2
    <2> QED
      BY <2>1
  <1>4. N \in T
    <2> HIDE DEF T
    <2> QED
      BY <1>1, <1>2, <1>3, TurnInduction
  <1>5. \A n \in DOMAIN h : n > N - N
    BY <1>1
  <1> QED
    BY <1>4, <1>5

(* What is below a node has a smaller one above it, or is the node itself: *)
(* a set that holds it and is closed under kids holds all of it.           *)
LEMMA BelowLeast ==
    ASSUME NEW h, Tree(h), NEW n \in DOMAIN h, NEW path \in Keys, NEW R,
           <<path, n>> \in R,
           \A q \in Keys, y \in DOMAIN h : \A kid \in Kids(h, y) :
              <<q, y>> \in R => <<q \o kid.key, kid.node>> \in R
    PROVE  Below(h, n, path) \subseteq R
  <1> DEFINE S == {m \in DOMAIN h : \A q \in Keys : <<q, m>> \in R => Below(h, m, q) \subseteq R}
  <1>1. ASSUME NEW m \in DOMAIN h, \A kid \in Kids(h, m) : kid.node \in S
        PROVE  m \in S
    <2> SUFFICES ASSUME NEW q \in Keys, <<q, m>> \in R PROVE Below(h, m, q) \subseteq R
      OBVIOUS
    <2>1. ASSUME NEW kid \in Kids(h, m) PROVE Below(h, kid.node, q \o kid.key) \subseteq R
      <3>1. <<q \o kid.key, kid.node>> \in R
        OBVIOUS
      <3>2. q \o kid.key \in Keys
        <4>1. kid.key \in Keys
          BY KidsAre
        <4> QED
          BY <4>1, ConcatProperties DEF Keys
      <3> QED
        BY <1>1, <3>1, <3>2
    <2> QED
      BY <2>1, BelowUnfolds
  <1>2. DOMAIN h \subseteq S
    <2> HIDE DEF S
    <2> QED
      BY <1>1, KidsFirst
  <1> QED
    BY <1>2

(* A node is below itself.                                                 *)
LEMMA BelowHas ==
    ASSUME NEW h, Tree(h), NEW m \in DOMAIN h, NEW path \in Keys
    PROVE  <<path, m>> \in Below(h, m, path)
  BY BelowUnfolds

(* The kids of what is below a node are below it.                          *)
LEMMA BelowCloses ==
    ASSUME NEW h, Tree(h), NEW n \in DOMAIN h, NEW path \in Keys,
           NEW q, NEW y, <<q, y>> \in Below(h, n, path), NEW kid \in Kids(h, y)
    PROVE  <<q \o kid.key, kid.node>> \in Below(h, n, path)
  <1> DEFINE Closed(m, p) == \A x \in Below(h, m, p) : \A k \in Kids(h, x[2]) :
                                <<x[1] \o k.key, k.node>> \in Below(h, m, p)
             S == {m \in DOMAIN h : \A p \in Keys : Closed(m, p)}
  <1>1. ASSUME NEW m \in DOMAIN h, \A k \in Kids(h, m) : k.node \in S
        PROVE  m \in S
    <2> SUFFICES ASSUME NEW p \in Keys, NEW x \in Below(h, m, p), NEW k \in Kids(h, x[2])
                 PROVE  <<x[1] \o k.key, k.node>> \in Below(h, m, p)
      OBVIOUS
    <2>0. \A l \in Kids(h, m) : l.key \in Keys /\ l.node \in DOMAIN h /\ p \o l.key \in Keys
      <3> TAKE l \in Kids(h, m)
      <3>1. l.key \in Keys /\ l.node \in DOMAIN h
        BY KidsAre
      <3> QED
        BY <3>1, ConcatProperties DEF Keys
    <2>1. CASE x = <<p, m>>
      <3>1. k \in Kids(h, m) /\ x[1] = p
        BY <2>1
      <3>2. k.node \in DOMAIN h /\ p \o k.key \in Keys
        BY <2>0, <3>1
      <3>3. <<p \o k.key, k.node>> \in Below(h, k.node, p \o k.key)
        BY <3>2, BelowHas
      <3> QED
        BY <3>1, <3>3, BelowUnfolds
    <2>2. CASE \E l \in Kids(h, m) : x \in Below(h, l.node, p \o l.key)
      <3>1. PICK l \in Kids(h, m) : x \in Below(h, l.node, p \o l.key)
        BY <2>2
      <3>2. <<x[1] \o k.key, k.node>> \in Below(h, l.node, p \o l.key)
        BY <1>1, <2>0, <3>1
      <3> QED
        BY <3>2, BelowUnfolds
    <2> QED
      BY <2>1, <2>2, BelowUnfolds
  <1>2. DOMAIN h \subseteq S
    <2> HIDE DEF S
    <2> QED
      BY <1>1, KidsFirst
  <1>3. Closed(n, path)
    BY <1>2
  <1>4. <<q, y>>[1] = q /\ <<q, y>>[2] = y
    OBVIOUS
  <1> QED
    BY <1>3, <1>4

(* Everything below a node but the node itself is a kid of something below *)
(* it.                                                                     *)
LEMMA BelowParent ==
    ASSUME NEW h, Tree(h), NEW n \in DOMAIN h, NEW path \in Keys,
           NEW x \in Below(h, n, path)
    PROVE  \/ x = <<path, n>>
           \/ \E y \in Below(h, n, path) : \E kid \in Kids(h, y[2]) :
                 x = <<y[1] \o kid.key, kid.node>>
  <1> DEFINE B == Below(h, n, path)
             R == {z \in B : \/ z = <<path, n>>
                             \/ \E y \in B : \E kid \in Kids(h, y[2]) :
                                   z = <<y[1] \o kid.key, kid.node>>}
  <1>1. <<path, n>> \in R
    BY BelowHas
  <1>2. ASSUME NEW q \in Keys, NEW y \in DOMAIN h, NEW kid \in Kids(h, y), <<q, y>> \in R
        PROVE  <<q \o kid.key, kid.node>> \in R
    <2> DEFINE v == <<q, y>>
               z == <<q \o kid.key, kid.node>>
    <2>1. v \in B /\ z \in B /\ v[1] = q /\ v[2] = y
      BY <1>2, BelowCloses
    <2>2. \E u \in B : \E k \in Kids(h, u[2]) : z = <<u[1] \o k.key, k.node>>
      BY <2>1
    <2> HIDE DEF z, B
    <2>3. z \in R
      BY <2>1, <2>2
    <2> HIDE DEF R
    <2> QED
      BY <2>3 DEF z
  <1>3. B \subseteq R
    <2> HIDE DEF R, B
    <2>1. Below(h, n, path) \subseteq R
      BY <1>1, <1>2, BelowLeast
    <2> QED
      BY <2>1 DEF B
  <1> QED
    BY <1>3

(* The nodes below a node.                                                 *)
Desc(h, n) == {x[2] : x \in Below(h, n, <<>>)}

(* They are the nodes of any path, and closed under kids.                  *)
LEMMA DescIs ==
    ASSUME NEW h, Tree(h), NEW n \in DOMAIN h
    PROVE  /\ n \in Desc(h, n) /\ Desc(h, n) \subseteq DOMAIN h
           /\ \A path \in Keys : \A x \in Below(h, n, path) : x[2] \in Desc(h, n)
           /\ \A m \in Desc(h, n) : \E q \in Keys : <<q, m>> \in Below(h, n, <<>>)
           /\ \A y \in Desc(h, n) : \A kid \in Kids(h, y) : kid.node \in Desc(h, n)
           /\ \A m \in Desc(h, n) : m # n =>
                 \E y \in Desc(h, n) : \E kid \in Kids(h, y) : kid.node = m
  <1> DEFINE e == <<>>
             B == Below(h, n, e)
  <1>0. e \in Keys
    BY EmptySeq DEF Keys
  <1>D. Desc(h, n) = {x[2] : x \in B}
    BY DEF Desc
  <1> HIDE DEF e
  <1>1. B \subseteq Keys \X DOMAIN h
    BY <1>0, BelowTyped
  <1>2. <<e, n>> \in B
    BY <1>0, BelowHas
  <1>3. \A m \in Desc(h, n) : \E q \in Keys : <<q, m>> \in B
    BY <1>1, <1>D
  <1>4. \A q, m : <<q, m>> \in B => m \in Desc(h, n)
    BY <1>D
  <1>5. ASSUME NEW y \in Desc(h, n), NEW kid \in Kids(h, y) PROVE kid.node \in Desc(h, n)
    <2>1. PICK q \in Keys : <<q, y>> \in B
      BY <1>3
    <2>2. <<q \o kid.key, kid.node>> \in B
      BY <1>0, <2>1, BelowCloses
    <2> QED
      BY <1>4, <2>2
  <1>6. ASSUME NEW path \in Keys, NEW x \in Below(h, n, path) PROVE x[2] \in Desc(h, n)
    <2> DEFINE R == Keys \X Desc(h, n)
    <2>1. <<path, n>> \in R
      BY <1>2, <1>4
    <2>2. ASSUME NEW q \in Keys, NEW y \in DOMAIN h, NEW kid \in Kids(h, y), <<q, y>> \in R
          PROVE  <<q \o kid.key, kid.node>> \in R
      <3>1. kid.key \in Keys
        BY KidsAre
      <3>2. q \o kid.key \in Keys
        BY <3>1, ConcatProperties DEF Keys
      <3> QED
        BY <1>5, <2>2, <3>2
    <2>3. Below(h, n, path) \subseteq R
      <3> HIDE DEF R
      <3> QED
        BY <2>1, <2>2, BelowLeast
    <2> QED
      BY <2>3
  <1>7. ASSUME NEW m \in Desc(h, n), m # n
        PROVE  \E y \in Desc(h, n) : \E kid \in Kids(h, y) : kid.node = m
    <2>1. PICK q \in Keys : <<q, m>> \in B
      BY <1>3
    <2>2. <<q, m>> # <<e, n>>
      BY <1>7
    <2>3. PICK v \in B : \E kid \in Kids(h, v[2]) : <<q, m>> = <<v[1] \o kid.key, kid.node>>
      BY <1>0, <2>1, <2>2, BelowParent, ZenonT(60)
    <2>4. v[2] \in Desc(h, n)
      BY <1>D
    <2> QED
      BY <2>3, <2>4
  <1> QED
    BY <1>1, <1>2, <1>3, <1>4, <1>5, <1>6, <1>7, <1>D DEF e

(* Nodes below a node have numbers that are not smaller.                   *)
LEMMA DescAbove ==
    ASSUME NEW h, Tree(h), NEW n \in DOMAIN h, NEW m \in Desc(h, n)
    PROVE  m \in Nat /\ n \in Nat /\ m >= n
  <1> DEFINE e == <<>>
             R == Keys \X {y \in DOMAIN h : y >= n}
  <1>0. e \in Keys
    BY EmptySeq DEF Keys
  <1> HIDE DEF e
  <1>1. DOMAIN h \subseteq Nat
    BY DEF Tree
  <1>2. <<e, n>> \in R
    BY <1>0, <1>1
  <1>3. ASSUME NEW q \in Keys, NEW y \in DOMAIN h, NEW kid \in Kids(h, y), <<q, y>> \in R
        PROVE  <<q \o kid.key, kid.node>> \in R
    <2>1. kid.key \in Keys /\ kid.node \in DOMAIN h /\ kid.node > y
      BY KidsAre
    <2>2. q \o kid.key \in Keys
      BY <2>1, ConcatProperties DEF Keys
    <2>3. y >= n /\ y \in Nat /\ n \in Nat /\ kid.node \in Nat
      BY <1>1, <1>3, <2>1
    <2>4. kid.node >= n
      BY <2>1, <2>3
    <2> QED
      BY <2>1, <2>2, <2>4
  <1>4. Below(h, n, e) \subseteq R
    <2> HIDE DEF R
    <2> QED
      BY <1>0, <1>2, <1>3, BelowLeast
  <1>5. \A x \in R : x[2] \in DOMAIN h /\ x[2] >= n
    OBVIOUS
  <1>6. PICK x \in Below(h, n, e) : m = x[2]
    BY DEF Desc, e
  <1> HIDE DEF R
  <1> QED
    BY <1>1, <1>4, <1>5, <1>6

(* A set of nodes that holds a node and the kids of what it holds.         *)
LEMMA DescLeast ==
    ASSUME NEW h, Tree(h), NEW n \in DOMAIN h, NEW S, n \in S,
           \A y \in S \cap DOMAIN h : \A kid \in Kids(h, y) : kid.node \in S
    PROVE  Desc(h, n) \subseteq S
  <1> DEFINE e == <<>>
             R == Keys \X S
  <1>0. e \in Keys
    BY EmptySeq DEF Keys
  <1> HIDE DEF e
  <1>2. <<e, n>> \in R
    BY <1>0
  <1>3. ASSUME NEW q \in Keys, NEW y \in DOMAIN h, NEW kid \in Kids(h, y), <<q, y>> \in R
        PROVE  <<q \o kid.key, kid.node>> \in R
    <2>1. kid.key \in Keys
      BY KidsAre
    <2>2. q \o kid.key \in Keys
      BY <2>1, ConcatProperties DEF Keys
    <2>3. y \in S \cap DOMAIN h
      BY <1>3
    <2> QED
      BY <2>2, <2>3
  <1>4. Below(h, n, e) \subseteq R
    <2> HIDE DEF R
    <2> QED
      BY <1>0, <1>2, <1>3, BelowLeast
  <1>5. \A x \in R : x[2] \in S
    OBVIOUS
  <1> HIDE DEF R
  <1> QED
    BY <1>4, <1>5 DEF Desc, e

(* What is below a node below is below.                                    *)
LEMMA DescDesc ==
    ASSUME NEW h, Tree(h), NEW n \in DOMAIN h, NEW m \in Desc(h, n)
    PROVE  m \in DOMAIN h /\ Desc(h, m) \subseteq Desc(h, n)
  <1>1. m \in DOMAIN h
    BY DescIs
  <1>2. \A y \in Desc(h, n) : \A kid \in Kids(h, y) : kid.node \in Desc(h, n)
    BY DescIs
  <1> QED
    BY <1>1, <1>2, DescLeast

(* A node is the kid of one node and in one place.                         *)
LEMMA OneParent ==
    ASSUME NEW h, Tree(h), NEW n \in DOMAIN h, NEW m \in DOMAIN h,
           NEW kid \in Kids(h, n), NEW other \in Kids(h, m), kid.node = other.node
    PROVE  n = m /\ kid = other
  <1>1. PICK i \in DOMAIN h[n].kids : kid = h[n].kids[i]
    BY DEF Kids, ToSet
  <1>2. PICK j \in DOMAIN h[m].kids : other = h[m].kids[j]
    BY DEF Kids, ToSet
  <1>3. n = m /\ i = j
    BY <1>1, <1>2 DEF Tree
  <1> QED
    BY <1>1, <1>2, <1>3

(* Of two nodes that have a node below them one is below the other.        *)
LEMMA DescMeet ==
    ASSUME NEW h, Tree(h), NEW n \in DOMAIN h, NEW m \in DOMAIN h,
           Desc(h, n) \cap Desc(h, m) # {}
    PROVE  n \in Desc(h, m) \/ m \in Desc(h, n)
  <1> DEFINE C == Desc(h, n) \cap Desc(h, m)
  <1>1. C \subseteq Nat /\ C # {} /\ C \subseteq DOMAIN h
    <2>1. C \subseteq DOMAIN h
      BY DescIs
    <2>2. DOMAIN h \subseteq Nat
      BY DEF Tree
    <2> QED
      BY <2>1, <2>2
  <1>2. PICK x \in C : \A y \in C : x <= y
    <2> HIDE DEF C
    <2> QED
      BY <1>1, LeastElement
  <1>3. CASE x = n \/ x = m
    BY <1>3
  <1>4. CASE x # n /\ x # m
    <2>1. PICK y \in Desc(h, n) : \E kid \in Kids(h, y) : kid.node = x
      BY <1>4, DescIs
    <2>2. PICK z \in Desc(h, m) : \E kid \in Kids(h, z) : kid.node = x
      BY <1>4, DescIs
    <2>3. y \in DOMAIN h /\ z \in DOMAIN h
      BY DescIs
    <2>4. y = z
      BY <2>1, <2>2, <2>3, OneParent
    <2>5. y \in C /\ x > y /\ x \in Nat /\ y \in Nat
      BY <2>1, <2>3, <2>4, KidsAre
    <2>6. x <= y
      BY <1>2, <2>5
    <2> QED
      BY <2>5, <2>6
  <1> QED
    BY <1>3, <1>4

(* What is below two kids of a node is apart.                              *)
LEMMA KidsApart ==
    ASSUME NEW h, Tree(h), NEW n \in DOMAIN h,
           NEW kid \in Kids(h, n), NEW other \in Kids(h, n), kid # other
    PROVE  Desc(h, kid.node) \cap Desc(h, other.node) = {}
  <1>1. kid.node \in DOMAIN h /\ other.node \in DOMAIN h
    BY KidsAre
  <1>2. ASSUME NEW a \in Kids(h, n), NEW b \in Kids(h, n), a # b, a.node \in Desc(h, b.node)
        PROVE  FALSE
    <2>1. a.node # b.node
      BY <1>2, OneParent
    <2>2. b.node \in DOMAIN h /\ b.node > n /\ n \in Nat /\ b.node \in Nat
      BY KidsAre
    <2>3. PICK y \in Desc(h, b.node) : \E k \in Kids(h, y) : k.node = a.node
      BY <1>2, <2>1, <2>2, DescIs
    <2>4. y \in DOMAIN h
      BY <2>2, DescIs
    <2>5. y = n
      BY <2>3, <2>4, OneParent
    <2>6. n >= b.node
      BY <2>2, <2>3, <2>5, DescAbove
    <2> QED
      BY <2>2, <2>6
  <1> QED
    BY <1>1, <1>2, DescMeet

(* Heaps that agree on the kids of all that is below a node.               *)
LEMMA BelowSame ==
    ASSUME NEW h, Tree(h), NEW g, Tree(g), NEW n \in DOMAIN h, n \in DOMAIN g,
           \A y \in Desc(h, n) : y \in DOMAIN g /\ g[y].kids = h[y].kids,
           NEW path \in Keys
    PROVE  Below(g, n, path) = Below(h, n, path)
  <1> DEFINE A == Below(h, n, path)
             B == Below(g, n, path)
             R == A \cap B
  <1>0. \A y \in Desc(h, n) : Kids(g, y) = Kids(h, y)
    BY DEF Kids
  <1>1. <<path, n>> \in R
    BY BelowHas
  <1>2. ASSUME NEW q, NEW y, NEW kid, <<q, y>> \in R, kid \in Kids(h, y) \cup Kids(g, y)
        PROVE  <<q \o kid.key, kid.node>> \in R
    <2>1. y \in Desc(h, n)
      <3> DEFINE v == <<q, y>>
      <3>1. v \in A /\ v[2] = y
        BY <1>2
      <3>2. v[2] \in Desc(h, n)
        BY <3>1, DescIs
      <3> QED
        BY <3>1, <3>2
    <2>2. kid \in Kids(h, y) /\ kid \in Kids(g, y)
      BY <1>0, <1>2, <2>1
    <2> QED
      BY <1>2, <2>2, BelowCloses
  <1> HIDE DEF R
  <1>3. A \subseteq R
    BY <1>1, <1>2, BelowLeast
  <1>4. B \subseteq R
    BY <1>1, <1>2, BelowLeast
  <1> QED
    BY <1>3, <1>4 DEF R

-----------------------------------------------------------------------------
(* The walk proper.                                                        *)
Answers == {"nil", "skip", "error"}

(* The nodes walkFunc was called for, and those it was not told to skip.   *)
Seen == {c.node : c \in Calls}

Entered == {c.node : c \in {d \in Calls : d.answer # "skip"}}

(* A list is ranged over in order: its last kids are the ones to come.     *)
EndOf(rest, kids) ==
    \E p \in 0 .. Len(kids) :
        /\ Len(rest) = Len(kids) - p
        /\ \A x \in 1 .. Len(rest) : rest[x] = kids[x + p]

(* A frame stands for a directory that was entered; kids of it that have   *)
(* not been called, each once, are still to come.                          *)
Ranging(f) ==
    /\ f.node \in Entered /\ IsDir(f.node)
    /\ \A x \in DOMAIN f.rest : f.rest[x].node \in KidsOf(f.node) \ Seen
    /\ \A x, y \in DOMAIN f.rest : f.rest[x].node = f.rest[y].node => x = y
    /\ heap[f.node].kind = "list" => EndOf(f.rest, heap[f.node].kids)

(* The kid was left out for a leaf beside it.                              *)
Excused(n, kid) ==
    \E d \in Calls : /\ ~IsDir(d.node) /\ d.answer = "skip"
                     /\ d.node \in KidsOf(n) /\ kid \in SkippedBy(n, d.node)

(* The kid is to come.                                                     *)
ToCome(n, kid) ==
    \E i \in 2 .. Len(stack) :
        /\ stack[i].node = n
        /\ \E x \in DOMAIN stack[i].rest : stack[i].rest[x].node = kid

Once == \A x, y \in DOMAIN visited : visited[x].node = visited[y].node => x = y

(* The bottom frame is the call from outside.                              *)
Started ==
    /\ stack # <<>> => stack[1].node = 0
    /\ visited = <<>> => stack = Entry(result, goal)
    /\ visited # <<>> =>
          visited[1].node = result /\ (stack # <<>> => stack[1].rest = <<>>)

InFrames ==
    /\ \A i \in 2 .. Len(stack) : Ranging(stack[i])
    /\ \A i, k \in DOMAIN stack : stack[i].node = stack[k].node => i = k

(* Calls come from above: all but the first from a directory entered.      *)
FromAbove ==
    /\ \A m \in Seen : m >= result
    /\ \A m \in Seen \ {result} : \E n \in Entered : m \in KidsOf(n)

(* No kid is forgotten.                                                    *)
Covered ==
    \A n \in Entered : \A kid \in KidsOf(n) :
        kid \in Seen \/ Excused(n, kid) \/ ToCome(n, kid)

Walking ==
    /\ visited \in Seq([node : DOMAIN heap, answer : Answers])
    /\ Once /\ Started /\ InFrames /\ FromAbove /\ Covered

WalkInv ==
    /\ mode = "seek" => visited = <<>>
    /\ mode = "walk" => Walking
    /\ WalkCorrect

Record == [node : DOMAIN heap, answer : Answers]

(* The kids of a node are below it, and of no other one.                   *)
LEMMA KidsTree ==
    ASSUME Tree(heap), NEW n \in DOMAIN heap
    PROVE  /\ \A kid \in KidsOf(n) : kid \in DOMAIN heap /\ kid > n
           /\ \A m \in DOMAIN heap : \A kid \in KidsOf(n) : kid \in KidsOf(m) => m = n
           /\ ~IsDir(n) => KidsOf(n) = {}
           /\ \A i, k \in DOMAIN heap[n].kids :
                 heap[n].kids[i].node = heap[n].kids[k].node => i = k
           /\ \A i \in DOMAIN heap[n].kids : heap[n].kids[i].node \in KidsOf(n)
           /\ \A m \in DOMAIN heap : m \in Nat
  <1>1. \A i \in DOMAIN heap[n].kids : heap[n].kids[i] \in Kids(heap, n)
    BY DEF Kids, ToSet
  <1>2. \A i \in DOMAIN heap[n].kids :
           heap[n].kids[i].node \in DOMAIN heap /\ heap[n].kids[i].node > n
    BY <1>1, KidsAre
  <1>3. ~IsDir(n) => KidsOf(n) = {}
    <2>1. ~IsDir(n) => heap[n].kids = <<>>
      BY DEF Tree, IsDir
    <2>2. heap[n].kids = <<>> => DOMAIN heap[n].kids = {}
      BY EmptySeq
    <2> QED
      BY <2>1, <2>2 DEF KidsOf
  <1>4. \A m \in DOMAIN heap : \A kid \in KidsOf(n) : kid \in KidsOf(m) => m = n
    BY DEF Tree, KidsOf
  <1>5. \A i, k \in DOMAIN heap[n].kids :
           heap[n].kids[i].node = heap[n].kids[k].node => i = k
    BY DEF Tree
  <1>6. \A m \in DOMAIN heap : m \in Nat
    BY DEF Tree
  <1> QED
    BY <1>2, <1>3, <1>4, <1>5, <1>6 DEF KidsOf

(* No node is called twice.                                                *)
LEMMA OneCall ==
    ASSUME visited \in Seq(Record), Once
    PROVE  /\ \A c, d \in Calls : c.node = d.node => c = d
           /\ \A c \in Calls : c \in Record /\ c.node \in Seen
           /\ Seen \subseteq DOMAIN heap /\ Entered \subseteq Seen
           /\ visited = <<>> => Seen = {}
  <1>1. DOMAIN visited = 1 .. Len(visited)
    BY LenProperties
  <1>2. Calls = {visited[x] : x \in DOMAIN visited}
    BY DEF Calls, ToSet
  <1>3. \A c \in Calls : c \in Record
    BY <1>1, <1>2, ElementOfSeq
  <1>4. visited = <<>> => Calls = {}
    BY DEF Calls, ToSet
  <1>5. \A c, d \in Calls : c.node = d.node => c = d
    BY <1>2 DEF Once
  <1> QED
    BY <1>3, <1>4, <1>5 DEF Seen, Entered, Record

(* A call is added.                                                        *)
LEMMA CallAdds ==
    ASSUME visited \in Seq(Record), NEW m \in DOMAIN heap, NEW answer \in Answers,
           visited' = Append(visited, [node |-> m, answer |-> answer])
    PROVE  /\ visited' \in Seq(Record) /\ visited' # <<>>
           /\ Calls' = Calls \cup {[node |-> m, answer |-> answer]}
           /\ Seen' = Seen \cup {m}
           /\ Entered' = IF answer = "skip" THEN Entered ELSE Entered \cup {m}
           /\ visited = <<>> => visited'[1].node = m
           /\ visited # <<>> => visited'[1] = visited[1]
           /\ Once /\ m \notin Seen => Once'
  <1> DEFINE e == [node |-> m, answer |-> answer]
             n == Len(visited)
  <1>1. e \in Record /\ e.node = m /\ e.answer = answer
    BY DEF Record
  <1> HIDE DEF e
  <1>2. visited' = Append(visited, e)
    BY DEF e
  <1>3. /\ n \in Nat /\ visited' \in Seq(Record) /\ Len(visited') = n + 1
        /\ visited'[n + 1] = e /\ \A x \in 1 .. n : visited'[x] = visited[x]
        /\ DOMAIN visited = 1 .. n /\ DOMAIN visited' = 1 .. n + 1
    BY <1>1, <1>2, AppendProperties
  <1>4. visited' # <<>> /\ (visited = <<>> => n = 0) /\ (visited # <<>> => n >= 1)
    BY <1>3, EmptySeq
  <1>5. Calls' = Calls \cup {e}
    <2>1. DOMAIN visited' = DOMAIN visited \cup {n + 1}
      BY <1>3
    <2> HIDE DEF n
    <2> QED
      BY <1>3, <2>1 DEF Calls, ToSet
  <1>6. Seen' = Seen \cup {m}
    BY <1>1, <1>5 DEF Seen
  <1>7. Entered' = IF answer = "skip" THEN Entered ELSE Entered \cup {m}
    BY <1>1, <1>5 DEF Entered
  <1>8. visited = <<>> => visited'[1].node = m
    BY <1>1, <1>3, <1>4
  <1>9. visited # <<>> => visited'[1] = visited[1]
    BY <1>3, <1>4
  <1>10. ASSUME Once, m \notin Seen PROVE Once'
    <2>1. \A x \in 1 .. n : visited[x].node \in Seen
      BY <1>3 DEF Seen, Calls, ToSet
    <2>2. \A x \in 1 .. n + 1 : x # n + 1 => x \in 1 .. n
      BY <1>3
    <2>3. SUFFICES ASSUME NEW x \in 1 .. n + 1, NEW y \in 1 .. n + 1,
                          visited'[x].node = visited'[y].node
                   PROVE  x = y
      BY <1>3 DEF Once
    <2> HIDE DEF n
    <2>4. CASE x = n + 1
      BY <1>1, <1>3, <1>10, <2>1, <2>2, <2>3, <2>4
    <2>5. CASE y = n + 1
      BY <1>1, <1>3, <1>10, <2>1, <2>2, <2>3, <2>5
    <2>6. CASE x # n + 1 /\ y # n + 1
      BY <1>3, <1>10, <2>2, <2>3, <2>6 DEF Once
    <2> QED
      BY <2>4, <2>5, <2>6
  <1> QED
    BY <1>3, <1>4, <1>5, <1>6, <1>7, <1>8, <1>9, <1>10 DEF e

(* The kids to come when one has been called.                              *)
LEMMA RestWithout ==
    ASSUME Tree(heap), stack \in Seq(Frames(heap)), NEW j \in Turns
    PROVE  LET s == Top.rest
               w == Without(j).rest
           IN
           /\ \A x \in DOMAIN w : \E y \in DOMAIN s : y # j /\ w[x] = s[y]
           /\ \A y \in DOMAIN s : y # j => \E x \in DOMAIN w : w[x] = s[y]
           /\ (\A x, y \in DOMAIN s : s[x].node = s[y].node => x = y) =>
                 \A x, y \in DOMAIN w : w[x].node = w[y].node => x = y
           /\ j = 1 => Len(w) = Len(s) - 1 /\ \A x \in 1 .. Len(w) : w[x] = s[x + 1]
  <1> DEFINE s == Top.rest
             w == Without(j).rest
             n == Len(s)
  <1>1. /\ s \in Seq(KidRecords(heap)) /\ j \in DOMAIN s
        /\ w = RemoveAt(s, j)
    BY TurnIs, WithoutIs DEF Frames
  <1>2. n \in Nat /\ DOMAIN s = 1 .. n /\ j \in 1 .. n
    BY <1>1, LenProperties
  <1>3. /\ Len(w) = n - 1 /\ w \in Seq(KidRecords(heap))
        /\ \A x \in 1 .. Len(w) : w[x] = IF x < j THEN s[x] ELSE s[x + 1]
    <2> DEFINE v == RemoveAt(s, j)
    <2>1. /\ v \in Seq(KidRecords(heap)) /\ Len(v) = n - 1
          /\ \A x \in 1 .. Len(v) : v[x] = IF x < j THEN s[x] ELSE s[x + 1]
      BY <1>1, RemoveAtIs
    <2>2. w = v
      BY <1>1
    <2> HIDE DEF v, w
    <2> QED
      BY <2>1, <2>2
  <1>4. DOMAIN w = 1 .. n - 1
    BY <1>3, LenProperties
  <1> HIDE DEF s, w, n
  <1>5. ASSUME NEW x \in DOMAIN w
        PROVE  \/ x < j /\ x \in DOMAIN s /\ x # j /\ w[x] = s[x]
               \/ x >= j /\ x + 1 \in DOMAIN s /\ x + 1 # j /\ w[x] = s[x + 1]
    BY <1>2, <1>3, <1>4
  <1>6. \A x \in DOMAIN w : \E y \in DOMAIN s : y # j /\ w[x] = s[y]
    BY <1>5
  <1>7. ASSUME NEW y \in DOMAIN s, y # j PROVE \E x \in DOMAIN w : w[x] = s[y]
    <2>1. CASE y < j
      BY <1>2, <1>3, <1>4, <2>1
    <2>2. CASE y > j
      <3>1. y - 1 \in 1 .. n - 1 /\ ~(y - 1 < j) /\ y - 1 + 1 = y
        BY <1>2, <2>2
      <3> QED
        BY <1>3, <1>4, <3>1
    <2> QED
      BY <1>2, <1>7, <2>1, <2>2
  <1>8. ASSUME \A x, y \in DOMAIN s : s[x].node = s[y].node => x = y,
               NEW x \in DOMAIN w, NEW y \in DOMAIN w, w[x].node = w[y].node
        PROVE  x = y
    <2>1. x \in Nat /\ y \in Nat /\ j \in Nat
      BY <1>2, <1>4
    <2> QED
      BY <1>5, <1>8, <2>1
  <1>9. j = 1 => Len(w) = n - 1 /\ \A x \in 1 .. Len(w) : w[x] = s[x + 1]
    BY <1>2, <1>3
  <1> QED
    BY <1>6, <1>7, <1>8, <1>9 DEF s, w, n

(* The kid whose turn it is has not been called; it is the root of the     *)
(* walk or a kid of a directory that was entered.                          *)
LEMMA TurnFresh ==
    ASSUME Tree(heap), stack \in Seq(Frames(heap)), Walking, NEW j \in Turns,
           result \in DOMAIN heap
    PROVE  /\ KidNode(j) \in DOMAIN heap \ Seen
           /\ \/ /\ Len(stack) = 1 /\ visited = <<>> /\ KidNode(j) = result
                 /\ Top.node = 0 /\ Without(j).rest = <<>>
              \/ /\ Len(stack) >= 2 /\ visited # <<>>
                 /\ Ranging(Top) /\ KidNode(j) \in KidsOf(Top.node)
                 /\ KidNode(j) > result /\ Top.node # 0 /\ Top.node \in DOMAIN heap
  <1> DEFINE n == Len(stack)
  <1>1. /\ n \in Nat \ {0} /\ Top = stack[n] /\ j \in DOMAIN Top.rest /\ Top \in Frames(heap)
        /\ KidNode(j) \in DOMAIN heap /\ stack # <<>> /\ KidNode(j) = Top.rest[j].node
    BY TurnIs DEF KidNode
  <1>2. /\ visited \in Seq(Record) /\ Once /\ Started /\ InFrames /\ FromAbove
    BY DEF Walking, Record
  <1>3. CASE n = 1
    <2>1. Top.rest # <<>>
      BY DEF Turns
    <2>2. visited = <<>> /\ stack = Entry(result, goal)
      BY <1>1, <1>2, <1>3, <2>1 DEF Started
    <2>3. Top.node = 0 /\ Top.rest = <<[key |-> <<>>, node |-> result]>>
      BY <1>1, <1>3, <2>2 DEF Entry
    <2>4. Len(Top.rest) = 1 /\ Top.rest[1].node = result
      BY <2>3
    <2>5. Top.rest \in Seq(KidRecords(heap))
      BY <1>1 DEF Frames
    <2>6. j = 1
      BY <1>1, <2>4, <2>5, LenProperties
    <2>7. Without(j).rest = <<>>
      <3>1. /\ RemoveAt(Top.rest, j) \in Seq(KidRecords(heap))
            /\ Len(RemoveAt(Top.rest, j)) = Len(Top.rest) - 1
        BY <1>1, <2>5, RemoveAtIs
      <3> QED
        BY <2>4, <3>1, EmptySeq, WithoutIs
    <2>8. Seen = {}
      BY <1>2, <2>2, OneCall
    <2> QED
      BY <1>1, <1>3, <2>2, <2>3, <2>4, <2>6, <2>7, <2>8
  <1>4. CASE n # 1
    <2>1. n \in 2 .. n /\ n >= 2
      <3> HIDE DEF n
      <3> QED
        BY <1>1, <1>4
    <2>2. Ranging(Top)
      BY <1>1, <1>2, <2>1 DEF InFrames
    <2>3. KidNode(j) \in KidsOf(Top.node) \ Seen /\ Top.node \in Seen /\ Top.node \in DOMAIN heap
      BY <1>1, <1>2, <2>2, OneCall DEF Ranging
    <2>4. Top.node >= result
      BY <1>2, <2>3 DEF FromAbove
    <2>5. /\ KidNode(j) > Top.node /\ KidNode(j) \in Nat /\ Top.node \in Nat
          /\ result \in Nat /\ Top.node # 0
      <3>1. 0 \notin DOMAIN heap
        BY DEF Tree
      <3> QED
        BY <1>1, <2>3, <3>1, KidsTree
    <2>6. visited # <<>>
      BY <1>2, <2>3, OneCall
    <2> QED
      BY <1>1, <2>1, <2>2, <2>3, <2>4, <2>5, <2>6
  <1> QED
    BY <1>3, <1>4

(* In a walk the object is a tree and its root is in it.                   *)
LEMMA RootFound ==
    ASSUME SeekInv, mode = "walk"
    PROVE  /\ Tree(heap) /\ stack \in Seq(Frames(heap))
           /\ result \in DOMAIN heap /\ goal \in Keys
  <1>1. /\ heap \in Objects /\ Tree(heap) /\ stack \in Seq(Frames(heap))
        /\ result \in At(1, goal)
    BY ObjectsAssumption DEF SeekInv, SeekCorrect
  <1>2. <<goal, result>> \in Keys \X DOMAIN heap
    BY <1>1, AtIs, RootIs
  <1> QED
    BY <1>1, <1>2

(* WalkCall, with its answer.                                              *)
Calling(j, answer) ==
    /\ Called(j, answer)
    /\ visited' = Append(visited, [node |-> KidNode(j), answer |-> answer])
    /\ UNCHANGED <<heap, mode, goal, result>>

(* What depends on the heap alone.                                         *)
LEMMA SameTree ==
    ASSUME heap' = heap
    PROVE  /\ \A n : KidsOf(n)' = KidsOf(n) /\ IsDir(n)' = IsDir(n)
           /\ \A n, leaf : SkippedBy(n, leaf)' = SkippedBy(n, leaf)
           /\ \A n : Under(n)' = Under(n)
  BY DEF KidsOf, IsDir, SkippedBy, Under

(* A call is the first one for its node and is remembered.                 *)
LEMMA CallingSeen ==
    ASSUME SeekInv, Walking, mode = "walk", NEW j \in Turns, NEW answer \in Answers,
           Calling(j, answer)
    PROVE  /\ visited' \in Seq(Record) /\ visited' # <<>> /\ Once'
           /\ Calls' = Calls \cup {[node |-> KidNode(j), answer |-> answer]}
           /\ Seen' = Seen \cup {KidNode(j)}
           /\ Entered' = IF answer = "skip" THEN Entered ELSE Entered \cup {KidNode(j)}
           /\ visited'[1].node = result
  <1>1. /\ visited \in Seq(Record) /\ Once /\ Started
        /\ visited' = Append(visited, [node |-> KidNode(j), answer |-> answer])
    BY DEF Walking, Record, Calling
  <1>2. Tree(heap) /\ stack \in Seq(Frames(heap)) /\ result \in DOMAIN heap
    BY RootFound
  <1>3. KidNode(j) \in DOMAIN heap \ Seen /\ (visited = <<>> => KidNode(j) = result)
    BY <1>2, TurnFresh
  <1>4. visited # <<>> => visited[1].node = result
    BY <1>1 DEF Started
  <1> QED
    BY <1>1, <1>3, <1>4, CallAdds

(* The walk has still started at the node that was found.                  *)
LEMMA CallingStarted ==
    ASSUME SeekInv, Walking, mode = "walk", NEW j \in Turns, NEW answer \in Answers,
           Calling(j, answer)
    PROVE  Started'
  <1> DEFINE n == Len(stack)
  <1>1. /\ Tree(heap) /\ stack \in Seq(Frames(heap)) /\ result \in DOMAIN heap
        /\ Called(j, answer) /\ result' = result /\ Started
    BY RootFound DEF Calling, Walking
  <1>2. visited' # <<>> /\ visited'[1].node = result
    BY CallingSeen
  <1>3. /\ n \in Nat \ {0} /\ stack[n] = Top
        /\ \A i \in 1 .. n - 1 : stack'[i] = stack[i]
        /\ stack'[n] \in {Without(j), Over}
    BY <1>1, CalledIs
  <1>4. stack'[1].node = 0 /\ stack'[1].rest = <<>>
    <2>1. CASE n = 1
      <3>1. n = 1 => Top.node = 0 /\ Without(j).rest = <<>>
        BY <1>1, TurnFresh
      <3>2. /\ Without(j).node = Top.node /\ Over.node = Top.node /\ Over.rest = <<>>
        BY <1>1, WithoutIs
      <3> QED
        BY <1>3, <2>1, <3>1, <3>2
    <2>2. CASE n # 1
      <3>1. n # 1 => visited # <<>>
        BY <1>1, TurnFresh
      <3>2. stack # <<>>
        BY <1>1, TurnIs
      <3>3. stack[1].node = 0 /\ stack[1].rest = <<>>
        BY <1>1, <2>2, <3>1, <3>2 DEF Started
      <3>4. 1 \in 1 .. n - 1
        <4> HIDE DEF n
        <4> QED
          BY <1>3, <2>2
      <3> QED
        BY <1>3, <3>3, <3>4
    <2> QED
      BY <2>1, <2>2
  <1> QED
    BY <1>1, <1>2, <1>4 DEF Started

(* The node that is called has a parent that was entered.                  *)
LEMMA CallingAbove ==
    ASSUME SeekInv, Walking, mode = "walk", NEW j \in Turns, NEW answer \in Answers,
           Calling(j, answer)
    PROVE  FromAbove'
  <1>1. /\ Tree(heap) /\ stack \in Seq(Frames(heap)) /\ result \in DOMAIN heap
        /\ heap' = heap /\ result' = result /\ FromAbove
    BY RootFound DEF Calling, Walking
  <1>2. /\ Seen' = Seen \cup {KidNode(j)} /\ Entered \subseteq Entered'
    BY CallingSeen
  <1>3. \/ KidNode(j) = result
        \/ /\ KidNode(j) > result
           /\ Top.node \in Entered /\ KidNode(j) \in KidsOf(Top.node)
    BY <1>1, TurnFresh DEF Ranging
  <1>4. KidNode(j) \in Nat /\ result \in Nat
    BY <1>1, TurnFresh, KidsTree
  <1>5. \A m \in Seen' : m >= result
    BY <1>1, <1>2, <1>3, <1>4 DEF FromAbove
  <1>6. \A m \in Seen' \ {result} : \E n \in Entered' : m \in KidsOf(n)
    BY <1>1, <1>2, <1>3 DEF FromAbove
  <1> QED
    BY <1>1, <1>5, <1>6, SameTree DEF FromAbove

(* The end of a list, from all of it to nothing.                           *)
LEMMA EndOfSteps ==
    ASSUME NEW S, NEW kids \in Seq(S)
    PROVE  /\ EndOf(kids, kids)
           /\ EndOf(<<>>, kids)
           /\ \A s \in Seq(S), w \in Seq(S) :
                 /\ EndOf(s, kids) /\ Len(s) >= 1 /\ Len(w) = Len(s) - 1
                 /\ \A x \in 1 .. Len(w) : w[x] = s[x + 1]
                 => EndOf(w, kids)
  <1> DEFINE n == Len(kids)
  <1>1. n \in Nat
    BY LenProperties, SMTT(30)
  <1>2. EndOf(kids, kids)
    <2>1. 0 \in 0 .. n /\ n = n - 0 /\ \A x \in 1 .. n : kids[x] = kids[x + 0]
      BY <1>1
    <2> QED
      BY <2>1 DEF EndOf
  <1>3. EndOf(<<>>, kids)
    <2>1. n \in 0 .. n /\ 0 = n - n /\ 1 .. 0 = {}
      <3> HIDE DEF n
      <3> QED
        BY <1>1
    <2>2. Len(<<>>) = 0
      BY EmptySeq
    <2> HIDE DEF n
    <2>3. Len(<<>>) = n - n /\ \A x \in 1 .. Len(<<>>) : FALSE
      BY <2>1, <2>2
    <2> QED
      BY <2>1, <2>3 DEF EndOf, n
  <1>4. ASSUME NEW s \in Seq(S), NEW w \in Seq(S),
               EndOf(s, kids), Len(s) >= 1, Len(w) = Len(s) - 1,
               \A x \in 1 .. Len(w) : w[x] = s[x + 1]
        PROVE  EndOf(w, kids)
    <2>1. PICK p \in 0 .. n : /\ Len(s) = n - p
                              /\ \A x \in 1 .. Len(s) : s[x] = kids[x + p]
      BY <1>4 DEF EndOf
    <2>2. Len(s) \in Nat /\ Len(w) \in Nat
      BY LenProperties
    <2>3. p + 1 \in 0 .. n /\ Len(w) = n - (p + 1)
      <3> HIDE DEF n
      <3> QED
        BY <1>1, <1>4, <2>1, <2>2
    <2>4. ASSUME NEW x \in 1 .. Len(w) PROVE w[x] = kids[x + (p + 1)]
      <3>1. x + 1 \in 1 .. Len(s) /\ (x + 1) + p = x + (p + 1)
        BY <1>1, <1>4, <2>1, <2>2
      <3> QED
        BY <1>4, <2>1, <3>1
    <2> QED
      BY <2>3, <2>4 DEF EndOf
  <1> QED
    BY <1>2, <1>3, <1>4

(* The frames stand for directories that were entered.                     *)
LEMMA CallingFrames ==
    ASSUME SeekInv, Walking, mode = "walk", NEW j \in Turns, NEW answer \in Answers,
           Calling(j, answer)
    PROVE  InFrames'
  <1> DEFINE n == Len(stack)
             m == KidNode(j)
             new == Frame(m, KidPath(j))
             Ranges(f) ==
               /\ f.node \in Entered' /\ IsDir(f.node)
               /\ \A x \in DOMAIN f.rest : f.rest[x].node \in KidsOf(f.node) \ Seen'
               /\ \A x, y \in DOMAIN f.rest : f.rest[x].node = f.rest[y].node => x = y
               /\ heap[f.node].kind = "list" => EndOf(f.rest, heap[f.node].kids)
  <1>1. /\ Tree(heap) /\ stack \in Seq(Frames(heap)) /\ result \in DOMAIN heap
        /\ Called(j, answer) /\ heap' = heap /\ InFrames /\ FromAbove /\ Started
        /\ visited \in Seq(Record) /\ Once
    BY RootFound DEF Calling, Walking, Record
  <1>2. /\ Seen' = Seen \cup {m}
        /\ Entered' = IF answer = "skip" THEN Entered ELSE Entered \cup {m}
        /\ Entered \subseteq Seen /\ Seen \subseteq DOMAIN heap
    BY <1>1, CallingSeen, OneCall
  <1>3. /\ n \in Nat \ {0} /\ stack[n] = Top /\ stack' \in Seq(Frames(heap))
        /\ \A i \in 1 .. n - 1 : stack'[i] = stack[i]
        /\ IsDir(m) /\ answer # "skip" =>
              Len(stack') = n + 1 /\ stack'[n] = Without(j) /\ stack'[n + 1] = new
        /\ ~(IsDir(m) /\ answer # "skip") =>
              /\ Len(stack') = n
              /\ stack'[n] = IF ~IsDir(m) /\ answer = "skip" THEN Over ELSE Without(j)
    BY <1>1, CalledIs
  <1>4. /\ m \in DOMAIN heap \ Seen
        /\ m = result \/ m > result
        /\ n # 1 => Ranging(Top) /\ m \in KidsOf(Top.node) /\ Top.node \in DOMAIN heap
    BY <1>1, TurnFresh
  <1>5. /\ Top.rest \in Seq(KidRecords(heap)) /\ j \in DOMAIN Top.rest
        /\ Top.rest[j].node = m /\ DOMAIN Top.rest = 1 .. Len(Top.rest)
    <2>1. Top \in Frames(heap) /\ j \in DOMAIN Top.rest /\ Top.rest[j].node = m
      BY <1>1, TurnIs DEF KidNode
    <2>2. Top.rest \in Seq(KidRecords(heap))
      BY <2>1 DEF Frames
    <2> QED
      BY <2>1, <2>2, LenProperties
  <1>6. ASSUME NEW i \in 2 .. n - 1 PROVE Ranges(stack[i])
    <2>1. i \in 2 .. n /\ i \in DOMAIN stack /\ n \in DOMAIN stack /\ i # n /\ n # 1
      <3>1. DOMAIN stack = 1 .. n /\ n \in Nat \ {0}
        BY <1>1, <1>3, LenProperties
      <3> HIDE DEF n
      <3>2. i \in 2 .. n /\ i \in 1 .. n /\ n \in 1 .. n /\ i # n /\ n # 1
        BY <3>1
      <3> QED
        BY <3>1, <3>2
    <2>2. Ranging(stack[i])
      BY <1>1, <2>1 DEF InFrames
    <2>3. stack[i].node # Top.node /\ stack[i].node \in DOMAIN heap
      BY <1>1, <1>2, <1>3, <2>1, <2>2 DEF InFrames, Ranging
    <2>4. m \notin KidsOf(stack[i].node)
      BY <1>1, <1>4, <2>1, <2>3, KidsTree
    <2> HIDE DEF m
    <2> QED
      BY <1>2, <2>2, <2>4 DEF Ranging
  <1>7. ASSUME n # 1 PROVE Ranges(Without(j))
    <2> DEFINE s == Top.rest
               f == Without(j)
               w == f.rest
    <2>1. f.node = Top.node /\ f \in Frames(heap)
      BY <1>1, WithoutIs
    <2>2. Ranging(Top)
      BY <1>4, <1>7
    <2>3. /\ \A x \in DOMAIN w : \E y \in DOMAIN s : y # j /\ w[x] = s[y]
          /\ (\A x, y \in DOMAIN s : s[x].node = s[y].node => x = y) =>
                \A x, y \in DOMAIN w : w[x].node = w[y].node => x = y
          /\ j = 1 => Len(w) = Len(s) - 1 /\ \A x \in 1 .. Len(w) : w[x] = s[x + 1]
      BY <1>1, RestWithout
    <2>4. heap[f.node].kind = "list" => EndOf(w, heap[f.node].kids)
      <3> SUFFICES ASSUME heap[Top.node].kind = "list" PROVE EndOf(w, heap[Top.node].kids)
        BY <2>1
      <3>1. Top.node # 0
        BY <1>1, <1>4, <1>7 DEF Tree
      <3>2. j = 1
        BY <3>1 DEF Turns
      <3>3. heap[Top.node].kids \in Seq(KidRecords(heap))
        BY <1>1, <1>4, <1>7, KidsTyped
      <3>4. w \in Seq(KidRecords(heap)) /\ s \in Seq(KidRecords(heap)) /\ Len(s) >= 1
        BY <1>5, <2>1 DEF Frames
      <3>5. EndOf(s, heap[Top.node].kids)
        BY <2>2 DEF Ranging
      <3> HIDE DEF s, w
      <3> QED
        BY <2>3, <3>2, <3>3, <3>4, <3>5, EndOfSteps
    <2>5. \A x \in DOMAIN w : w[x].node \in KidsOf(f.node) \ Seen'
      <3>1. /\ \A y \in DOMAIN s : s[y].node \in KidsOf(Top.node) \ Seen
            /\ \A y \in DOMAIN s : y # j => s[y].node # m
        BY <1>5, <2>2 DEF Ranging
      <3> HIDE DEF s, w, m
      <3> QED
        BY <1>2, <2>1, <2>3, <3>1
    <2>6. \A x, y \in DOMAIN w : w[x].node = w[y].node => x = y
      BY <2>2, <2>3 DEF Ranging
    <2>7. f.node \in Entered' /\ IsDir(f.node)
      BY <1>2, <2>1, <2>2 DEF Ranging
    <2> QED
      BY <2>4, <2>5, <2>6, <2>7
  <1>8. ASSUME n # 1, answer = "skip" PROVE Ranges(Over)
    <2>1. /\ Over.node = Top.node /\ Over.rest = <<>> /\ DOMAIN Over.rest = {}
      BY <1>1, WithoutIs, EmptySeq
    <2>2. Ranging(Top) /\ heap[Top.node].kids \in Seq(KidRecords(heap))
      BY <1>1, <1>4, <1>8, KidsTyped
    <2>3. EndOf(<<>>, heap[Top.node].kids)
      BY <2>2, EndOfSteps
    <2>4. Over.node \in Entered' /\ IsDir(Over.node)
      BY <1>2, <2>1, <2>2 DEF Ranging
    <2> QED
      BY <2>1, <2>3, <2>4
  <1>9. ASSUME IsDir(m), answer # "skip" PROVE Ranges(new)
    <2>1. new.node = m /\ new.rest = heap[m].kids /\ heap[m].kids \in Seq(KidRecords(heap))
      BY <1>1, <1>4, WithoutIs, KidsTyped
    <2> HIDE DEF new, m
    <2>2. ASSUME NEW k \in KidsOf(m) PROVE k \notin Seen'
      <3>1. k > m /\ k \in Nat /\ m \in Nat /\ result \in Nat
        BY <1>1, <1>4, <2>2, KidsTree
      <3>2. k # m /\ k # result
        BY <1>4, <3>1
      <3>3. k \notin Seen
        <4> SUFFICES ASSUME k \in Seen PROVE FALSE
          OBVIOUS
        <4>1. PICK p \in Entered : k \in KidsOf(p)
          BY <1>1, <3>2 DEF FromAbove
        <4>2. p = m
          BY <1>1, <1>2, <1>4, <2>2, <4>1, KidsTree
        <4> QED
          BY <1>2, <1>4, <4>2
      <3> QED
        BY <1>2, <3>2, <3>3
    <2>3. /\ \A x \in DOMAIN new.rest : new.rest[x].node \in KidsOf(m)
          /\ \A x, y \in DOMAIN new.rest : new.rest[x].node = new.rest[y].node => x = y
      BY <1>1, <1>4, <2>1, KidsTree
    <2>4. EndOf(new.rest, heap[m].kids)
      BY <2>1, EndOfSteps
    <2>5. m \in Entered'
      BY <1>2, <1>9
    <2> QED
      BY <1>9, <2>1, <2>2, <2>3, <2>4, <2>5
  <1> HIDE DEF Ranges
  <1>10. ASSUME NEW i \in 2 .. Len(stack') PROVE Ranges(stack'[i])
    <2>1. \/ i \in 2 .. n - 1 /\ i \in 1 .. n - 1
          \/ i = n /\ n # 1
          \/ i = n + 1 /\ IsDir(m) /\ answer # "skip"
      <3> HIDE DEF n
      <3> QED
        BY <1>3
    <2>2. CASE i \in 2 .. n - 1 /\ i \in 1 .. n - 1
      BY <1>3, <1>6, <2>2
    <2>3. CASE i = n /\ n # 1
      BY <1>3, <1>7, <1>8, <2>3
    <2>4. CASE i = n + 1 /\ IsDir(m) /\ answer # "skip"
      BY <1>3, <1>9, <2>4
    <2> QED
      BY <2>1, <2>2, <2>3, <2>4
  <1>11. ASSUME NEW i \in DOMAIN stack', NEW k \in DOMAIN stack',
                stack'[i].node = stack'[k].node
         PROVE  i = k
    <2>1. DOMAIN stack = 1 .. n /\ DOMAIN stack' = 1 .. Len(stack')
      BY <1>1, <1>3, LenProperties
    <2>2. \A x \in 1 .. n : stack'[x].node = stack[x].node
      <3>1. stack'[n].node = Top.node
        BY <1>1, <1>3, WithoutIs
      <3>2. \A x \in 1 .. n : x = n \/ x \in 1 .. n - 1
        <4> HIDE DEF n
        <4> QED
          BY <1>3
      <3> QED
        BY <1>3, <3>1, <3>2
    <2>3. \A x \in 1 .. n : stack[x].node # m
      <3>0. 0 \notin DOMAIN heap
        BY <1>1 DEF Tree
      <3>1. stack # <<>> /\ 0 \notin DOMAIN heap
        BY <1>1, <3>0, TurnIs
      <3>2. stack[1].node = 0
        BY <1>1, <3>1 DEF Started
      <3>3. \A x \in 1 .. n : x = 1 \/ x \in 2 .. n
        <4> HIDE DEF n
        <4> QED
          BY <1>3
      <3>4. \A x \in 2 .. n : stack[x].node \in Seen
        BY <1>1, <1>2 DEF InFrames, Ranging
      <3> QED
        BY <1>4, <3>1, <3>2, <3>3, <3>4
    <2>4. \A x \in DOMAIN stack' : x \in 1 .. n \/ (x = n + 1 /\ stack'[x].node = m)
      <3>1. IsDir(m) /\ answer # "skip" => stack'[n + 1].node = m
        BY <1>1, <1>3, WithoutIs
      <3> HIDE DEF n
      <3> QED
        BY <1>3, <2>1, <3>1
    <2>5. \A x, y \in 1 .. n : stack[x].node = stack[y].node => x = y
      BY <1>1, <2>1 DEF InFrames
    <2> HIDE DEF n, m
    <2> QED
      BY <1>11, <2>2, <2>3, <2>4, <2>5
  <1>12. \A f : Ranging(f)' <=> Ranges(f)
    BY <1>1 DEF Ranging, Ranges, IsDir, KidsOf
  <1> QED
    BY <1>10, <1>11, <1>12 DEF InFrames

(* What a leaf that is answered with SkipDir leaves out.                   *)
LEMMA LeafSkips ==
    ASSUME Tree(heap), stack \in Seq(Frames(heap)), NEW j \in Turns,
           Top.node \in DOMAIN heap, Ranging(Top),
           NEW x \in DOMAIN Top.rest, x # j
    PROVE  Top.rest[x].node \in SkippedBy(Top.node, KidNode(j))
  <1> DEFINE n == Top.node
             s == Top.rest
             kids == heap[n].kids
  <1>1. /\ s \in Seq(KidRecords(heap)) /\ j \in DOMAIN s
    BY TurnIs DEF Frames
  <1>2. kids \in Seq(KidRecords(heap))
    BY KidsTyped
  <1>3. /\ DOMAIN s = 1 .. Len(s) /\ DOMAIN kids = 1 .. Len(kids)
        /\ Len(s) \in Nat /\ Len(kids) \in Nat
    BY <1>1, <1>2, LenProperties
  <1>4. s[x].node \in KidsOf(n) /\ heap[n].kind \in {"map", "list"}
    BY DEF Ranging, IsDir
  <1>5. CASE heap[n].kind = "map"
    BY <1>4, <1>5 DEF SkippedBy
  <1>6. CASE heap[n].kind = "list"
    <2>1. j = 1
      <3>1. n # 0
        BY DEF Tree
      <3> QED
        BY <1>6, <3>1 DEF Turns
    <2>2. PICK p \in 0 .. Len(kids) :
             Len(s) = Len(kids) - p /\ \A y \in 1 .. Len(s) : s[y] = kids[y + p]
      BY <1>6 DEF Ranging, EndOf
    <2>3. /\ x + p \in DOMAIN kids /\ 1 + p \in DOMAIN kids /\ 1 + p < x + p
          /\ s[x] = kids[x + p] /\ s[1] = kids[1 + p]
      <3> HIDE DEF s, kids
      <3>1. x \in 1 .. Len(s) /\ x # 1 /\ 1 \in 1 .. Len(s)
        BY <1>1, <1>3, <2>1 DEF s
      <3>2. /\ x + p \in 1 .. Len(kids) /\ 1 + p \in 1 .. Len(kids) /\ 1 + p < x + p
        BY <1>3, <2>2, <3>1
      <3> QED
        BY <1>3, <2>2, <3>1, <3>2
    <2>4. kids[1 + p].node = KidNode(j)
      BY <2>1, <2>3 DEF KidNode
    <2>5. s[x].node \in {kids[i].node : i \in
             {i \in DOMAIN kids :
                \E y \in DOMAIN kids : y < i /\ kids[y].node = KidNode(j)}}
      <3> HIDE DEF s, kids
      <3> QED
        BY <2>3, <2>4
    <2> QED
      BY <1>6, <2>5 DEF SkippedBy
  <1> QED
    BY <1>4, <1>5, <1>6

(* No kid of a directory that was entered is forgotten.                    *)
LEMMA CallingCovers ==
    ASSUME SeekInv, Walking, mode = "walk", NEW j \in Turns, NEW answer \in Answers,
           Calling(j, answer)
    PROVE  Covered'
  <1> DEFINE l == Len(stack)
             m == KidNode(j)
             new == Frame(m, KidPath(j))
             Left(n, kid) ==
               \E d \in Calls' : /\ ~IsDir(d.node) /\ d.answer = "skip"
                                 /\ d.node \in KidsOf(n) /\ kid \in SkippedBy(n, d.node)
             Comes(n, kid) ==
               \E i \in 2 .. Len(stack') :
                  /\ stack'[i].node = n
                  /\ \E x \in DOMAIN stack'[i].rest : stack'[i].rest[x].node = kid
  <1>1. /\ Tree(heap) /\ stack \in Seq(Frames(heap)) /\ result \in DOMAIN heap
        /\ Called(j, answer) /\ heap' = heap /\ InFrames /\ Covered
    BY RootFound DEF Calling, Walking
  <1>2. /\ Seen' = Seen \cup {m}
        /\ Calls' = Calls \cup {[node |-> m, answer |-> answer]}
        /\ Entered' = IF answer = "skip" THEN Entered ELSE Entered \cup {m}
    BY CallingSeen
  <1>3. /\ l \in Nat \ {0} /\ stack[l] = Top
        /\ \A i \in 1 .. l - 1 : stack'[i] = stack[i]
        /\ IsDir(m) /\ answer # "skip" =>
              Len(stack') = l + 1 /\ stack'[l] = Without(j) /\ stack'[l + 1] = new
        /\ ~(IsDir(m) /\ answer # "skip") =>
              /\ Len(stack') = l
              /\ stack'[l] = IF ~IsDir(m) /\ answer = "skip" THEN Over ELSE Without(j)
    BY <1>1, CalledIs
  <1>4. m \in DOMAIN heap
    BY <1>1, TurnIs
  <1>5. ASSUME NEW n \in Entered, NEW kid \in KidsOf(n), ToCome(n, kid)
        PROVE  kid \in Seen' \/ Left(n, kid) \/ Comes(n, kid)
    <2>0. PICK i \in 2 .. l :
             /\ stack[i].node = n
             /\ \E x \in DOMAIN stack[i].rest : stack[i].rest[x].node = kid
      BY <1>5 DEF ToCome
    <2>1. PICK x \in DOMAIN stack[i].rest :
             stack[i].node = n /\ stack[i].rest[x].node = kid
      BY <2>0
    <2>2. (i # l => i \in 1 .. l - 1) /\ i \in 2 .. Len(stack') /\ (i = l => l # 1)
      <3>1. l \in Nat /\ Len(stack') \in {l, l + 1}
        BY <1>3
      <3> HIDE DEF l
      <3> QED
        BY <2>0, <3>1
    <2>3. CASE i # l
      BY <1>3, <2>1, <2>2, <2>3
    <2>4. CASE i = l
      <3>1. Top.node = n /\ x \in DOMAIN Top.rest /\ Top.rest[x].node = kid
        BY <1>3, <2>1, <2>4
      <3>2. CASE x = j
        BY <1>2, <3>1, <3>2 DEF KidNode
      <3>3. CASE x # j /\ ~(~IsDir(m) /\ answer = "skip")
        <4>1. stack'[l] = Without(j)
          BY <1>3, <3>3
        <4>2. Without(j).node = n
          BY <1>1, <3>1, WithoutIs
        <4>3. \E y \in DOMAIN Without(j).rest : Without(j).rest[y].node = kid
          BY <1>1, <3>1, <3>3, RestWithout
        <4> QED
          BY <2>2, <2>4, <4>1, <4>2, <4>3
      <3>4. CASE x # j /\ ~IsDir(m) /\ answer = "skip"
        <4>1. /\ Ranging(Top) /\ m \in KidsOf(Top.node) /\ Top.node \in DOMAIN heap
          <5>1. Walking /\ l # 1
            BY <2>2, <2>4
          <5> QED
            BY <1>1, <5>1, TurnFresh
        <4>2. kid \in SkippedBy(n, m)
          BY <1>1, <3>1, <3>4, <4>1, LeafSkips
        <4> DEFINE d == [node |-> m, answer |-> answer]
        <4>3. d \in Calls' /\ d.node = m /\ d.answer = "skip"
          BY <1>2, <3>4
        <4>4. m \in KidsOf(n)
          BY <3>1, <4>1
        <4> HIDE DEF d
        <4> QED
          BY <3>4, <4>2, <4>3, <4>4
      <3> QED
        BY <3>2, <3>3, <3>4
    <2> QED
      BY <2>3, <2>4
  <1>6. ASSUME NEW kid \in KidsOf(m), answer # "skip"
        PROVE  Comes(m, kid)
    <2>1. IsDir(m)
      BY <1>1, <1>4, <1>6, KidsTree
    <2>2. Len(stack') = l + 1 /\ stack'[l + 1] = new
      BY <1>3, <1>6, <2>1
    <2>3. new.node = m /\ new.rest = heap[m].kids
      BY <1>1, WithoutIs
    <2>4. \E x \in DOMAIN heap[m].kids : heap[m].kids[x].node = kid
      BY <1>6 DEF KidsOf
    <2>5. l + 1 \in 2 .. Len(stack')
      BY <1>3, <2>2
    <2> HIDE DEF new, m, l
    <2> QED
      BY <2>2, <2>3, <2>4, <2>5
  <1>7. ASSUME NEW n \in Entered', NEW kid \in KidsOf(n)
        PROVE  kid \in Seen' \/ Left(n, kid) \/ Comes(n, kid)
    <2>1. CASE n \in Entered
      <3>1. CASE kid \in Seen
        BY <1>2, <3>1
      <3>2. CASE Excused(n, kid)
        BY <1>2, <3>2 DEF Excused
      <3>3. CASE ToCome(n, kid)
        BY <1>5, <2>1, <3>3
      <3> QED
        BY <1>1, <2>1, <3>1, <3>2, <3>3 DEF Covered
    <2>2. CASE n \notin Entered
      <3>1. n = m /\ answer # "skip"
        BY <1>2, <1>7, <2>2
      <3> QED
        BY <1>6, <1>7, <3>1
    <2> QED
      BY <2>1, <2>2
  <1>8. \A n, kid : (Left(n, kid) => Excused(n, kid)') /\ (Comes(n, kid) => ToCome(n, kid)')
    BY <1>1, SameTree DEF Excused, ToCome
  <1> HIDE DEF Left, Comes
  <1> QED
    BY <1>1, <1>7, <1>8, SameTree DEF Covered

(* The frame a walk begins with.                                           *)
LEMMA EntryIs ==
    ASSUME NEW m, NEW path
    PROVE  /\ Entry(m, path) # <<>> /\ Len(Entry(m, path)) = 1
           /\ Entry(m, path)[1].node = 0 /\ Entry(m, path)[1].rest # <<>>
           /\ DOMAIN Entry(m, path) = {1} /\ Last(Entry(m, path)).rest # <<>>
  <1> DEFINE f == [node |-> 0, path |-> path, rest |-> <<[key |-> <<>>, node |-> m]>>]
             s == <<f>>
  <1>1. f.node = 0 /\ f.rest # <<>>
    OBVIOUS
  <1> HIDE DEF f
  <1>2. Len(s) = 1 /\ s[1] = f /\ DOMAIN s = {1} /\ s # <<>>
    OBVIOUS
  <1>3. Entry(m, path) = s
    BY DEF Entry, f
  <1> HIDE DEF s
  <1> QED
    BY <1>1, <1>2, <1>3 DEF Last

(* The invariant of the walk holds where it begins.                        *)
LEMMA WalkStarts ==
    ASSUME visited = <<>>, stack' = Entry(result, goal), visited' = visited,
           result' = result, goal' = goal
    PROVE  Walking'
  <1>1. /\ visited' = <<>> /\ stack' = Entry(result', goal')
        /\ stack'[1].node = 0 /\ Len(stack') = 1 /\ DOMAIN stack' = {1}
    BY EntryIs
  <1>2. DOMAIN visited' = {} /\ Calls' = {}
    BY <1>1 DEF Calls, ToSet
  <1>3. Seen' = {} /\ Entered' = {}
    BY <1>2 DEF Seen, Entered
  <1>4. visited' \in Seq([node : DOMAIN heap', answer : Answers])
    BY <1>1, EmptySeq
  <1>5. Once' /\ Started'
    BY <1>1, <1>2 DEF Once, Started
  <1>6. InFrames'
    <2>1. 2 .. Len(stack') = {}
      BY <1>1
    <2> QED
      BY <1>1, <2>1 DEF InFrames
  <1>7. FromAbove' /\ Covered'
    BY <1>3 DEF FromAbove, Covered
  <1> QED
    BY <1>4, <1>5, <1>6, <1>7 DEF Walking

(* The invariant of the walk is kept by the end of a range.                *)
LEMMA LeaveWalks ==
    ASSUME SeekInv, Walking, mode = "walk", Leave,
           UNCHANGED <<heap, mode, goal, result, visited>>
    PROVE  Walking'
  <1> DEFINE n == Len(stack)
  <1>1. /\ stack \in Seq(Frames(heap)) /\ Started /\ InFrames /\ FromAbove /\ Covered /\ Once
        /\ visited \in Seq([node : DOMAIN heap, answer : Answers])
        /\ heap' = heap /\ goal' = goal /\ result' = result /\ visited' = visited
    BY RootFound DEF Walking
  <1>2. /\ n \in Nat \ {0} /\ stack[n] = Top /\ Top.rest = <<>> /\ stack # <<>>
        /\ stack' \in Seq(Frames(heap)) /\ Len(stack') = n - 1
        /\ \A i \in 1 .. n - 1 : stack'[i] = stack[i]
    BY <1>1, LeaveIs DEF Leave
  <1>3. DOMAIN stack = 1 .. n /\ DOMAIN stack' = 1 .. n - 1
    BY <1>1, <1>2, LenProperties
  <1>4. visited # <<>>
    <2>1. Entry(result, goal)[Len(Entry(result, goal))].rest # <<>>
      BY EntryIs DEF Last
    <2> QED
      BY <1>1, <1>2, <2>1 DEF Started
  <1>5. Calls' = Calls /\ Seen' = Seen /\ Entered' = Entered
    BY <1>1 DEF Calls, Seen, Entered
  <1>6. Once'
    BY <1>1 DEF Once
  <1>7. Started'
    <2>1. stack' # <<>> => 1 \in 1 .. n - 1
      <3>1. stack' # <<>> => n - 1 # 0
        BY <1>2, EmptySeq
      <3> HIDE DEF n
      <3> QED
        BY <1>2, <3>1
    <2>2. stack' # <<>> => stack'[1] = stack[1]
      BY <1>2, <2>1
    <2> QED
      BY <1>1, <1>2, <1>4, <2>2 DEF Started
  <1>8. InFrames'
    <2>1. \A i \in 2 .. n - 1 : i \in 2 .. n /\ i \in 1 .. n - 1
      <3> HIDE DEF n
      <3> QED
        BY <1>2
    <2>2. \A i \in 1 .. n - 1 : i \in 1 .. n
      <3> HIDE DEF n
      <3> QED
        BY <1>2
    <2>3. \A f : Ranging(f)' <=> Ranging(f)
      BY <1>1, <1>5 DEF Ranging, IsDir, KidsOf
    <2>4. \A i \in 2 .. Len(stack') : Ranging(stack'[i])
      BY <1>1, <1>2, <2>1 DEF InFrames
    <2>5. \A i, k \in DOMAIN stack' : stack'[i].node = stack'[k].node => i = k
      BY <1>1, <1>2, <1>3, <2>2 DEF InFrames
    <2> QED
      BY <2>3, <2>4, <2>5 DEF InFrames
  <1>9. FromAbove'
    BY <1>1, <1>5, SameTree DEF FromAbove
  <1>10. Covered'
    <2> DEFINE Comes(m, kid) ==
                 \E i \in 2 .. Len(stack') :
                    /\ stack'[i].node = m
                    /\ \E x \in DOMAIN stack'[i].rest : stack'[i].rest[x].node = kid
    <2>1. ASSUME NEW m, NEW kid, ToCome(m, kid) PROVE Comes(m, kid)
      <3>1. PICK i \in 2 .. n :
               /\ stack[i].node = m
               /\ \E x \in DOMAIN stack[i].rest : stack[i].rest[x].node = kid
        BY <2>1 DEF ToCome
      <3>2. i # n
        <4>1. DOMAIN Top.rest = {}
          BY <1>2, EmptySeq
        <4> QED
          BY <1>2, <3>1, <4>1
      <3>3. i \in 2 .. Len(stack') /\ i \in 1 .. n - 1
        <4> HIDE DEF n
        <4> QED
          BY <1>2, <3>1, <3>2
      <3> QED
        BY <1>2, <3>1, <3>3
    <2>2. \A m, kid : Comes(m, kid) => ToCome(m, kid)'
      BY DEF ToCome
    <2> HIDE DEF Comes
    <2>3. \A m, kid : Excused(m, kid) => Excused(m, kid)'
      BY <1>1, <1>5, SameTree DEF Excused
    <2> QED
      BY <1>1, <1>5, <2>1, <2>2, <2>3, SameTree DEF Covered
  <1> QED
    BY <1>1, <1>6, <1>7, <1>8, <1>9, <1>10 DEF Walking

(* The walk is over: no kid is to come.                                    *)
LEMMA WalkOver ==
    ASSUME SeekInv, Walking, mode = "walk", WalkDone
    PROVE  WalkCorrect'
  <1>1. /\ Tree(heap) /\ result \in DOMAIN heap /\ Started /\ FromAbove /\ Covered /\ Once
        /\ visited \in Seq(Record)
        /\ heap' = heap /\ result' = result /\ visited' = visited /\ stack = <<>>
    BY RootFound DEF Walking, Record, WalkDone
  <1>2. visited[1].node = result
    BY <1>1, EntryIs DEF Started
  <1>3. /\ \A c, d \in Calls : c.node = d.node => c = d
        /\ \A c \in Calls : c \in Record /\ c.node \in Seen /\ c.node \in DOMAIN heap
        /\ Entered \subseteq DOMAIN heap
    BY <1>1, OneCall
  <1>4. \A n, kid : ~ToCome(n, kid)
    <2>1. Len(stack) = 0 /\ 2 .. 0 = {}
      BY <1>1, EmptySeq
    <2> QED
      BY <2>1 DEF ToCome
  <1>5. ASSUME NEW c \in Calls, c.answer = "skip", NEW d \in Calls
        PROVE  d.node \notin Under(c.node)
    <2> DEFINE D == Desc(heap, c.node)
               S == {y \in D : y = c.node \/ y \notin Seen}
    <2>1. /\ c.node \in DOMAIN heap /\ c.node \in Nat /\ result \in Nat /\ c.node >= result
          /\ c.node \notin Entered
      <3>1. c.node \in DOMAIN heap /\ c.node >= result
        BY <1>1, <1>3 DEF FromAbove
      <3>2. c.node \notin Entered
        BY <1>3, <1>5 DEF Entered
      <3> QED
        BY <1>1, <3>1, <3>2, KidsTree
    <2>2. c.node \in D /\ D \subseteq DOMAIN heap
      BY <1>1, <2>1, DescIs
    <2>3. ASSUME NEW y \in S \cap DOMAIN heap, NEW kid \in Kids(heap, y)
          PROVE  kid.node \in S
      <3> DEFINE k == kid.node
      <3>1. k \in D /\ k \in DOMAIN heap /\ k > y /\ y >= c.node /\ k \in Nat /\ y \in Nat
        BY <1>1, <2>1, <2>3, DescIs, DescAbove, KidsAre
      <3>2. k \in KidsOf(y)
        BY DEF KidsOf, Kids, ToSet
      <3> HIDE DEF k
      <3>3. SUFFICES ASSUME k \in Seen PROVE FALSE
        BY <3>1 DEF k
      <3>4. k \in Seen \ {result}
        BY <2>1, <3>1, <3>3
      <3>5. PICK n \in Entered : k \in KidsOf(n)
        BY <1>1, <3>4 DEF FromAbove
      <3>6. n = y
        BY <1>1, <1>3, <3>2, <3>5, KidsTree
      <3>7. n \in Seen
        BY <1>1, <3>5, OneCall
      <3> QED
        BY <2>1, <3>5, <3>6, <3>7
    <2>4. D \subseteq S
      <3> HIDE DEF S
      <3>1. c.node \in S
        BY <2>2 DEF S
      <3> QED
        BY <1>1, <2>1, <2>3, <3>1, DescLeast
    <2>5. Under(c.node) = D \ {c.node}
      BY DEF Under, Desc
    <2> QED
      BY <1>3, <2>4, <2>5
  <1>6. ASSUME NEW c \in Calls, c.answer = "nil", NEW kid \in KidsOf(c.node)
        PROVE  (\E d \in Calls : d.node = kid) \/ Excused(c.node, kid)
    <2>1. c.node \in Entered
      BY <1>6 DEF Entered
    <2>2. kid \in Seen \/ Excused(c.node, kid)
      BY <1>1, <1>4, <1>6, <2>1 DEF Covered
    <2> QED
      BY <2>2 DEF Seen
  <1>7. \A c, d \in Calls : c.answer = "skip" => d.node \notin Under(c.node)
    BY <1>5
  <1>9. Calls' = Calls
    BY <1>1 DEF Calls
  <1>10. \A x, y \in DOMAIN visited : visited[x].node = visited[y].node => x = y
    BY <1>1 DEF Once
  <1>11. (\A x, y \in DOMAIN visited : visited[x].node = visited[y].node => x = y)'
    BY <1>1, <1>10
  <1>12. (visited[1].node = result)'
    BY <1>1, <1>2
  <1>13. (\A c, d \in Calls : c.answer = "skip" => d.node \notin Under(c.node))'
    BY <1>1, <1>7, <1>9, SameTree
  <1>14. ASSUME NEW c \in Calls', c.answer = "nil", NEW kid \in KidsOf(c.node)'
         PROVE  (\/ \E d \in Calls : d.node = kid
                 \/ \E d \in Calls : /\ ~IsDir(d.node) /\ d.answer = "skip"
                                     /\ d.node \in KidsOf(c.node)
                                     /\ kid \in SkippedBy(c.node, d.node))'
    <2>1. c \in Calls /\ kid \in KidsOf(c.node)
      BY <1>1, <1>9, <1>14, SameTree
    <2>2. (\E d \in Calls : d.node = kid) \/ Excused(c.node, kid)
      BY <1>6, <1>14, <2>1
    <2>3. CASE \E d \in Calls : d.node = kid
      BY <1>9, <2>3
    <2>4. CASE Excused(c.node, kid)
      <3>1. PICK d \in Calls : /\ ~IsDir(d.node) /\ d.answer = "skip"
                               /\ d.node \in KidsOf(c.node)
                               /\ kid \in SkippedBy(c.node, d.node)
        BY <2>4 DEF Excused
      <3>2. d \in Calls' /\ ~IsDir(d.node)' /\ (d.node \in KidsOf(c.node))'
        BY <1>1, <1>9, <3>1, SameTree
      <3>3. (kid \in SkippedBy(c.node, d.node))'
        BY <1>1, <3>1, SameTree
      <3> QED
        BY <3>1, <3>2, <3>3
    <2> QED
      BY <2>2, <2>3, <2>4
  <1> QED
    BY <1>11, <1>12, <1>13, <1>14 DEF WalkCorrect

(* WalkInv holds before the first walk.                                    *)
LEMMA WalkInit == Init => WalkInv
  BY DEF Init, WalkerInit, WalkInv, WalkCorrect

(* WalkInv is kept by every step.                                          *)
LEMMA WalkNext == SeekInv /\ WalkInv /\ [Next]_vars => WalkInv'
  <1> SUFFICES ASSUME SeekInv, WalkInv, [Next]_vars PROVE WalkInv'
    OBVIOUS
  <1>1. CASE BeginWalk
    BY <1>1 DEF BeginWalk, Walk, WalkInv, WalkCorrect
  <1>2. CASE \E j \in Turns : SeekCall(j)
    BY <1>2 DEF SeekCall, WalkInv, WalkCorrect
  <1>3. CASE SeekLeave
    BY <1>3 DEF SeekLeave, WalkInv, WalkCorrect
  <1>4. CASE SeekDone
    <2>1. /\ mode = "seek" /\ visited = <<>> /\ visited' = visited
          /\ result' = result /\ goal' = goal /\ mode' \in {"notFound", "walk"}
          /\ mode' = "walk" => stack' = Entry(result, goal)
      BY <1>4 DEF SeekDone, WalkInv
    <2>2. mode' = "walk" => Walking'
      BY <2>1, WalkStarts
    <2> QED
      BY <2>1, <2>2 DEF WalkInv, WalkCorrect
  <1>5. CASE \E j \in Turns : WalkCall(j)
    <2>1. PICK j \in Turns : WalkCall(j)
      BY <1>5
    <2>2. PICK answer \in Answers : Calling(j, answer)
      BY <2>1 DEF WalkCall, Calling, Answers
    <2>3. mode = "walk" /\ mode' = "walk" /\ Walking /\ heap' = heap
      BY <2>1, <2>2 DEF WalkCall, WalkInv, Calling
    <2>4. visited' \in Seq(Record) /\ Once'
      BY <2>2, <2>3, CallingSeen
    <2>5. Started' /\ InFrames' /\ FromAbove' /\ Covered'
      BY <2>2, <2>3, CallingStarted, CallingFrames, CallingAbove, CallingCovers
    <2>6. Walking'
      BY <2>3, <2>4, <2>5 DEF Walking, Record
    <2> QED
      BY <2>3, <2>6 DEF WalkInv, WalkCorrect
  <1>6. CASE WalkLeave
    <2>1. /\ mode = "walk" /\ mode' = "walk" /\ Walking /\ Leave
          /\ UNCHANGED <<heap, mode, goal, result, visited>>
      BY <1>6 DEF WalkLeave, WalkInv
    <2>2. Walking'
      BY <2>1, LeaveWalks
    <2> QED
      BY <2>1, <2>2 DEF WalkInv, WalkCorrect
  <1>7. CASE WalkDone
    <2>1. mode = "walk" /\ mode' = "over" /\ Walking
      BY <1>7 DEF WalkDone, WalkInv
    <2>2. WalkCorrect'
      BY <1>7, <2>1, WalkOver
    <2> QED
      BY <2>1, <2>2 DEF WalkInv
  <1>8. CASE LoadTemplateSource
    BY <1>8 DEF LoadTemplateSource, WalkInv, WalkCorrect
  <1>9. CASE Loading /\ UNCHANGED seekVars
    <2>1. mode = "idle" /\ mode' = "idle"
      BY <1>9, LoadingPhase DEF SeekInv, seekVars
    <2> QED
      BY <2>1 DEF WalkInv, WalkCorrect
  <1>10. CASE UNCHANGED vars
    <2>1. UNCHANGED <<heap, stack, mode, goal, result, visited>>
      BY <1>10 DEF vars, seekVars
    <2>2. Calls' = Calls /\ Seen' = Seen /\ Entered' = Entered
      BY <2>1 DEF Calls, Seen, Entered
    <2>3. /\ \A n, kid : Excused(n, kid)' = Excused(n, kid)
          /\ \A n, kid : ToCome(n, kid)' = ToCome(n, kid)
      BY <2>1, <2>2, SameTree DEF Excused, ToCome
    <2>4. /\ \A f : Ranging(f)' = Ranging(f)
      BY <2>1, <2>2, SameTree DEF Ranging
    <2>5. InFrames => InFrames'
      BY <2>1, <2>4 DEF InFrames
    <2>6. FromAbove => FromAbove'
      BY <2>1, <2>2, SameTree DEF FromAbove
    <2>7. Covered => Covered'
      BY <2>1, <2>2, <2>3, SameTree DEF Covered
    <2>8. (Once => Once') /\ (Started => Started')
      BY <2>1 DEF Once, Started
    <2>9. Walking => Walking'
      BY <2>1, <2>5, <2>6, <2>7, <2>8 DEF Walking
    <2>10. WalkCorrect => WalkCorrect'
      BY <2>1, <2>2, SameTree DEF WalkCorrect
    <2> QED
      BY <2>1, <2>9, <2>10 DEF WalkInv
  <1> QED
    BY <1>1, <1>2, <1>3, <1>4, <1>5, <1>6, <1>7, <1>8, <1>9, <1>10
       DEF Next, WalkOn, Step

(* What a walk has of filepath.Walk, for every object that can be decoded  *)
(* and whatever its function answers: no node is called twice, or at any   *)
(* depth under a directory that was skipped, and unless an error is        *)
(* answered none is left out but for a leaf beside it that was answered    *)
(* with SkipDir (JsonWalker.Walk, walk).                                   *)
THEOREM WalkIsCorrect == Spec => []WalkCorrect
  <1>1. WalkInv => WalkCorrect
    BY DEF WalkInv
  <1> QED
    BY <1>1, SeekInit, SeekNext, WalkInit, WalkNext, PTL DEF Spec

-----------------------------------------------------------------------------
(* Objects whose keys are single elements, of their own in each directory. *)
Single(h, n) ==
    /\ \A i, j \in DOMAIN h[n].kids : h[n].kids[i].key = h[n].kids[j].key => i = j
    /\ \A kid \in Kids(h, n) : Len(kid.key) = 1

Singles(h, n) == \A y \in Desc(h, n) : Single(h, y)

(* The entries of such a node are told apart by their keys.                *)
LEMMA OneKey ==
    ASSUME NEW h, NEW n, Single(h, n), NEW kid \in Kids(h, n), NEW other \in Kids(h, n),
           kid.key = other.key
    PROVE  kid = other
  BY DEF Single, Kids, ToSet

(* A path of one element more.                                             *)
LEMMA OneMore ==
    ASSUME NEW a \in Keys, NEW c \in Keys, Len(c) = 1, NEW n, n = Len(a)
    PROVE  /\ n \in Nat /\ a \o c \in Keys /\ Len(a \o c) = n + 1
           /\ \A i \in 1 .. n : (a \o c)[i] = a[i]
           /\ (a \o c)[n + 1] = c[1] /\ c = <<c[1]>>
  <1>1. a \in Seq(STRING) /\ c \in Seq(STRING)
    BY DEF Keys
  <1> DEFINE s == a \o c
  <1>2. /\ s \in Seq(STRING) /\ Len(s) = Len(a) + Len(c)
        /\ \A i \in 1 .. Len(a) + Len(c) : s[i] = IF i <= Len(a) THEN a[i] ELSE c[i - Len(a)]
    BY <1>1, ConcatProperties
  <1> HIDE DEF s
  <1>3. n \in Nat /\ n + 1 \in 1 .. n + 1 /\ ~(n + 1 <= n) /\ n + 1 - n = 1
    BY <1>1, LenProperties
  <1>4. s[n + 1] = c[1]
    BY <1>2, <1>3
  <1>5. \A i \in 1 .. n : i \in 1 .. n + 1 /\ i <= n
    BY <1>3
  <1>6. \A i \in 1 .. n : s[i] = a[i]
    BY <1>2, <1>5
  <1>7. c = <<c[1]>>
    BY <1>1
  <1> QED
    BY <1>2, <1>3, <1>4, <1>6, <1>7 DEF s, Keys

(* Such a path comes apart into what it was made of.                       *)
LEMMA KeysSplit ==
    ASSUME NEW a \in Keys, NEW c \in Keys, Len(c) = 1
    PROVE  /\ a \o c \in Keys /\ Len(a \o c) = Len(a) + 1 /\ a \o c # <<>>
           /\ Front(a \o c) = a /\ <<Last(a \o c)>> = c
  <1> DEFINE n == Len(a)
             s == a \o c
  <1>1. /\ n \in Nat /\ s \in Keys /\ Len(s) = n + 1
        /\ \A i \in 1 .. n : s[i] = a[i]
        /\ s[n + 1] = c[1] /\ c = <<c[1]>>
    BY OneMore
  <1>2. s \in Seq(STRING) /\ a \in Seq(STRING)
    BY <1>1 DEF Keys
  <1> HIDE DEF s, n
  <1>3. s # <<>>
    BY <1>1, <1>2
  <1>4. Front(s) = a
    <2>1. /\ Front(s) \in Seq(STRING) /\ Len(Front(s)) = Len(s) - 1
          /\ \A i \in 1 .. Len(s) - 1 : Front(s)[i] = s[i]
      BY <1>2, <1>3, FrontIs
    <2>2. Len(s) - 1 = n
      BY <1>1
    <2> QED
      BY <1>1, <1>2, <2>1, <2>2, SeqEqual DEF n
  <1>5. Last(s) = c[1]
    BY <1>1 DEF Last
  <1> QED
    BY <1>1, <1>3, <1>4, <1>5 DEF s, n

(* It does so in one way only.                                             *)
LEMMA KeysSame ==
    ASSUME NEW a \in Keys, NEW b \in Keys, NEW c \in Keys, NEW d \in Keys,
           Len(c) = 1, Len(d) = 1, NEW s, s = a \o c, s = b \o d
    PROVE  a = b /\ c = d
  <1> DEFINE v == a \o c
             w == b \o d
             n == Len(a)
             m == Len(b)
  <1>0. /\ a \in Keys /\ b \in Keys /\ c \in Keys /\ d \in Keys
        /\ Len(c) = 1 /\ Len(d) = 1
    OBVIOUS
  <1>1. /\ n \in Nat /\ Len(v) = n + 1
        /\ \A i \in 1 .. n : v[i] = a[i]
        /\ v[n + 1] = c[1] /\ c = <<c[1]>>
    BY ONLY <1>0, OneMore
  <1>2. /\ m \in Nat /\ Len(w) = m + 1
        /\ \A i \in 1 .. m : w[i] = b[i]
        /\ w[m + 1] = d[1] /\ d = <<d[1]>>
    BY ONLY <1>0, OneMore
  <1>3. v = w
    OBVIOUS
  <1>4. a \in Seq(STRING) /\ b \in Seq(STRING)
    BY DEF Keys
  <1> HIDE DEF v, w, n, m
  <1>5. n = m /\ \A i \in 1 .. n : a[i] = b[i]
    BY ONLY <1>1, <1>2, <1>3
  <1>6. a = b
    BY <1>4, <1>5, SeqEqual DEF n, m
  <1> QED
    BY <1>1, <1>2, <1>3, <1>5, <1>6

(* The node that a path comes to before its last element.                  *)
Before(h, n, q, x) ==
    \E y \in Desc(h, n) : \E kid \in Kids(h, y) :
       /\ <<Front(q), y>> \in Below(h, n, <<>>)
       /\ kid.node = x /\ kid.key = <<Last(q)>>
       /\ Front(q) \in Keys /\ q = Front(q) \o kid.key

(* The node before a node: the path of one is that of the other and a key. *)
LEMMA PathBefore ==
    ASSUME NEW h, Tree(h), NEW n \in DOMAIN h, Singles(h, n),
           NEW q, NEW x, <<q, x>> \in Below(h, n, <<>>)
    PROVE  /\ q \in Keys /\ x \in DOMAIN h /\ x \in Desc(h, n)
           /\ q = <<>> <=> x = n
           /\ q # <<>> => Before(h, n, q, x)
  <1> DEFINE e == <<>>
             B == Below(h, n, e)
  <1>0. e \in Keys
    BY EmptySeq DEF Keys
  <1>1. \A s \in Keys : s = e <=> Len(s) = 0
    BY EmptySeq DEF Keys
  <1>Q. <<q, x>> \in B
    OBVIOUS
  <1> HIDE DEF e
  <1>2. q \in Keys /\ x \in DOMAIN h /\ B \subseteq Keys \X DOMAIN h
    BY <1>0, <1>Q, BelowTyped
  <1>3. \A u \in B : u[2] \in Desc(h, n)
    BY <1>0, DescIs
  <1>4. x \in Desc(h, n)
    BY <1>3, <1>Q
  <1>5. ASSUME <<q, x>> # <<e, n>>
        PROVE  /\ q # e /\ x # n
               /\ \E y \in Desc(h, n) : \E kid \in Kids(h, y) :
                            /\ <<Front(q), y>> \in B
                            /\ kid.node = x /\ kid.key = <<Last(q)>>
                            /\ Front(q) \in Keys /\ q = Front(q) \o kid.key
    <2>1. PICK v \in B : \E kid \in Kids(h, v[2]) : <<q, x>> = <<v[1] \o kid.key, kid.node>>
      BY <1>0, <1>5, <1>Q, BelowParent
    <2>2. PICK kid \in Kids(h, v[2]) : q = v[1] \o kid.key /\ x = kid.node
      BY <2>1
    <2>3. v[1] \in Keys /\ v[2] \in DOMAIN h /\ v[2] \in Desc(h, n) /\ v = <<v[1], v[2]>>
      BY <1>2, <1>3
    <2>4. Len(kid.key) = 1 /\ kid.key \in Keys /\ kid.node > v[2]
      BY <2>3, KidsAre DEF Singles, Single
    <2>5. /\ Len(q) = Len(v[1]) + 1 /\ Front(q) = v[1] /\ <<Last(q)>> = kid.key
          /\ q # <<>>
      BY <2>2, <2>3, <2>4, KeysSplit
    <2>6. v[2] >= n /\ v[2] \in Nat /\ n \in Nat /\ x # n
      <3>1. v[2] >= n /\ v[2] \in Nat /\ n \in Nat
        BY <2>3, DescAbove
      <3>2. x \in Nat /\ x > v[2]
        BY <2>2, <2>3, KidsAre
      <3> QED
        BY <3>1, <3>2
    <2> QED
      BY <2>2, <2>3, <2>5, <2>6 DEF e
  <1>6. <<q, x>> = <<e, n>> => q = e /\ x = n
    OBVIOUS
  <1>7. (q = e <=> x = n) /\ (q # e => <<q, x>> # <<e, n>>)
    BY <1>5, <1>6
  <1> QED
    BY <1>2, <1>4, <1>5, <1>7 DEF e, Before

(* A path leads to one node, and a node has one path.                      *)
LEMMA OneNode ==
    ASSUME NEW h, Tree(h), NEW n \in DOMAIN h, Singles(h, n),
           NEW q, NEW x, NEW p, NEW y,
           <<q, x>> \in Below(h, n, <<>>), <<p, y>> \in Below(h, n, <<>>)
    PROVE  q = p <=> x = y
  <1> DEFINE e == <<>>
             B == Below(h, n, e)
             R == {z \in B : \A v \in B : v[1] = z[1] <=> v[2] = z[2]}
  <1>0. e \in Keys
    BY EmptySeq DEF Keys
  <1>Q. <<q, x>> \in B /\ <<p, y>> \in B
    OBVIOUS
  <1>1. B \subseteq Keys \X DOMAIN h
    BY <1>0, BelowTyped
  <1>2. \A v \in B : /\ v[1] = e <=> v[2] = n
                     /\ v = <<v[1], v[2]>> /\ v[2] \in Desc(h, n)
    BY <1>1, PathBefore
  <1>3. \A v \in B : v[1] # e =>
           \E w \in Desc(h, n) : \E k \in Kids(h, w) :
              /\ <<Front(v[1]), w>> \in B
              /\ k.node = v[2] /\ v[1] = Front(v[1]) \o k.key /\ Front(v[1]) \in Keys
    <2> TAKE v \in B
    <2> HAVE v[1] # e
    <2> DEFINE s == v[1]
               m == v[2]
    <2>1. <<s, m>> \in Below(h, n, <<>>) /\ s # <<>>
      BY <1>2
    <2> HIDE DEF s, m
    <2>2. Before(h, n, s, m)
      BY <2>1, PathBefore
    <2> QED
      BY <2>2 DEF s, m, Before
  <1> HIDE DEF e
  <1>4. <<e, n>> \in R
    <2>1. <<e, n>> \in B
      BY <1>0, BelowHas
    <2> QED
      BY <1>2, <2>1
  <1>5. ASSUME NEW r \in Keys, NEW z \in DOMAIN h, NEW kid \in Kids(h, z), <<r, z>> \in R
        PROVE  <<r \o kid.key, kid.node>> \in R
    <2> DEFINE s == r \o kid.key
               u == <<s, kid.node>>
    <2>1. <<r, z>> \in B /\ \A v \in B : v[1] = r <=> v[2] = z
      BY <1>5
    <2>2. u \in B /\ u[1] = s /\ u[2] = kid.node
      BY <1>0, <2>1, BelowCloses
    <2>3. z \in Desc(h, n)
      BY <1>2, <2>1
    <2>4. kid.key \in Keys /\ Len(kid.key) = 1
      BY <2>3, KidsAre DEF Singles, Single
    <2>5. s # e
      BY <2>4, KeysSplit DEF e
    <2> HIDE DEF s, u
    <2>6. ASSUME NEW v \in B PROVE v[1] = s <=> v[2] = kid.node
      <3>1. CASE v[1] = e
        <4>1. v[2] = n /\ u[2] # n
          BY <1>2, <2>2, <2>5, <3>1
        <4> QED
          BY <2>2, <2>5, <3>1, <4>1
      <3>2. CASE v[1] # e
        <4>1. PICK w \in Desc(h, n) : \E k \in Kids(h, w) :
                 /\ <<Front(v[1]), w>> \in B
                 /\ k.node = v[2] /\ v[1] = Front(v[1]) \o k.key /\ Front(v[1]) \in Keys
          BY <1>3, <3>2
        <4>2. PICK k \in Kids(h, w) :
                 /\ <<Front(v[1]), w>> \in B
                 /\ k.node = v[2] /\ v[1] = Front(v[1]) \o k.key /\ Front(v[1]) \in Keys
          BY <4>1
        <4> DEFINE f == Front(v[1])
        <4>F. f \in Keys /\ v[1] = f \o k.key
          BY <4>2
        <4>3. f = r <=> w = z
          BY <2>1, <4>2
        <4> HIDE DEF f
        <4>4. w \in DOMAIN h /\ k.key \in Keys /\ Len(k.key) = 1
          <5>1. w \in DOMAIN h
            BY DescIs
          <5> QED
            BY <5>1, KidsAre DEF Singles, Single
        <4>5. ASSUME v[1] = s PROVE v[2] = kid.node
          <5>1. f = r /\ k.key = kid.key
            <6>1. r \o kid.key = f \o k.key
              BY <4>F, <4>5 DEF s
            <6> DEFINE c == kid.key
                       d == k.key
            <6>2. /\ c \in Keys /\ d \in Keys /\ Len(c) = 1 /\ Len(d) = 1
                  /\ s = r \o c /\ s = f \o d /\ f \in Keys
              BY <2>4, <4>F, <4>4, <4>5 DEF s
            <6> HIDE DEF c, d
            <6>3. r = f /\ c = d
              BY <6>2, KeysSame
            <6> QED
              BY <6>3 DEF c, d
          <5>2. w = z /\ Single(h, z)
            BY <2>3, <4>3, <5>1 DEF Singles
          <5>3. k = kid
            BY <5>1, <5>2, OneKey
          <5> QED
            BY <4>2, <5>3
        <4>6. ASSUME v[2] = kid.node PROVE v[1] = s
          <5>1. w = z /\ k = kid
            BY <4>2, <4>4, <4>6, OneParent
          <5> QED
            BY <4>F, <4>3, <5>1 DEF s
        <4> QED
          BY <4>5, <4>6
      <3> QED
        BY <3>1, <3>2
    <2>7. u \in R
      BY <2>2, <2>6
    <2> HIDE DEF R
    <2> QED
      BY <2>7 DEF u, s
  <1>6. B \subseteq R
    <2> HIDE DEF R
    <2> QED
      BY <1>0, <1>4, <1>5, BelowLeast
  <1>7. \A v \in B : v[1] = q <=> v[2] = x
    BY <1>6, <1>Q
  <1> QED
    BY <1>7, <1>Q

-----------------------------------------------------------------------------
(* The objects that are walked for specs: trees of records, where a spec   *)
(* that is well formed holds nothing that has kids.                        *)
Whole(r) == r = [kind |-> r.kind, kids |-> r.kids, spec |-> r.spec, val |-> r.val]

Formed(h) ==
    /\ Tree(h)
    /\ \A n \in DOMAIN h :
          /\ Whole(h[n])
          /\ h[n].spec # NoSpec /\ ~h[n].spec.broken =>
                \A kid \in Kids(h, n) : h[kid.node].kids = <<>>

(* Templates that are read are such objects.                               *)
LEMMA DecodedFormed ==
    ASSUME NEW h, Decoded(h)
    PROVE  Formed(h)
  <1>1. Tree(h)
    BY DEF Decoded
  <1>2. \A n \in DOMAIN h : Whole(h[n])
    BY DEF Decoded, Whole
  <1>3. ASSUME NEW n \in DOMAIN h, h[n].spec # NoSpec, ~h[n].spec.broken,
               NEW kid \in Kids(h, n)
        PROVE  h[kid.node].kids = <<>>
    <2>1. h[kid.node].kind = "leaf"
      BY <1>3 DEF Decoded, Kids
    <2>2. kid.node \in DOMAIN h
      BY <1>1, KidsAre
    <2> QED
      BY <1>1, <2>1, <2>2 DEF Tree
  <1> QED
    BY <1>1, <1>2, <1>3 DEF Formed

(* An entry put into the kids of a directory.                              *)
LEMMA PutIs ==
    ASSUME NEW S, NEW kids \in Seq(S), NEW key, NEW n, [key |-> key, node |-> n] \in S
    PROVE  /\ Put(kids, key, n) \in Seq(S)
           /\ \E x \in DOMAIN Put(kids, key, n) :
                 /\ Put(kids, key, n)[x] = [key |-> key, node |-> n]
                 /\ \A i \in DOMAIN Put(kids, key, n) :
                       i # x => i \in DOMAIN kids /\ Put(kids, key, n)[i] = kids[i]
                 /\ x \in DOMAIN kids => kids[x].key = key
                 /\ \A i \in DOMAIN kids :
                       i # x => i \in DOMAIN Put(kids, key, n)
  <1> DEFINE old == EntriesOf(kids, key)
             e == [key |-> key, node |-> n]
             w == Put(kids, key, n)
  <1>0. DOMAIN kids = 1 .. Len(kids) /\ Len(kids) \in Nat
    BY LenProperties
  <1>1. CASE old = {}
    <2>1. w = Append(kids, e)
      BY <1>1 DEF Put
    <2>2. /\ w \in Seq(S) /\ Len(w) = Len(kids) + 1
          /\ w[Len(kids) + 1] = e /\ \A i \in 1 .. Len(kids) : w[i] = kids[i]
      BY <2>1, AppendProperties
    <2>3. DOMAIN w = 1 .. Len(kids) + 1
      BY <2>2, LenProperties
    <2> DEFINE x == Len(kids) + 1
    <2>4. x \in DOMAIN w /\ x \notin DOMAIN kids /\ \A i \in DOMAIN w : i # x => i \in DOMAIN kids
      BY <1>0, <2>3
    <2>5. \A i \in DOMAIN kids : i \in DOMAIN w
      BY <1>0, <2>3
    <2>6. w \in Seq(S) /\ w[x] = e /\ \A i \in DOMAIN w : i # x => w[i] = kids[i]
      BY <1>0, <2>2, <2>4
    <2> HIDE DEF w, e, x
    <2> QED
      BY <2>4, <2>5, <2>6 DEF w, e
  <1>2. CASE old # {}
    <2> DEFINE x == CHOOSE y \in old : TRUE
    <2>1. x \in DOMAIN kids /\ kids[x].key = key
      BY <1>2 DEF EntriesOf
    <2>2. w = [kids EXCEPT ![x] = e]
      BY <1>2 DEF Put
    <2> HIDE DEF x, w, e
    <2>3. w \in Seq(S)
      <3>1. kids \in [1 .. Len(kids) -> S]
        BY LenProperties
      <3>2. w \in [1 .. Len(kids) -> S]
        BY <2>1, <2>2, <3>1 DEF e
      <3> QED
        BY <1>0, <3>2, SeqDef
    <2>4. DOMAIN w = DOMAIN kids
      BY <2>2
    <2>5. w[x] = e /\ \A i \in DOMAIN kids : i # x => w[i] = kids[i]
      BY <2>1, <2>2
    <2> QED
      BY <2>1, <2>3, <2>4, <2>5 DEF w, e
  <1> QED
    BY <1>1, <1>2

(* The rest of a list has the nodes of the list but the first.             *)
LEMMA ShortenedIs ==
    ASSUME NEW T, NEW kids \in Seq([key : Keys, node : T]), kids # <<>>
    PROVE  /\ Shortened(kids) \in Seq([key : Keys, node : T])
           /\ \A i \in DOMAIN Shortened(kids) :
                 i \in Nat /\ i + 1 \in DOMAIN kids /\ Shortened(kids)[i].node = kids[i + 1].node
  <1> DEFINE K == [key : Keys, node : T]
             n == Len(kids) - 1
             w == Shortened(kids)
  <1>1. /\ DOMAIN kids = 1 .. Len(kids) /\ Len(kids) \in Nat /\ n \in Nat
        /\ Len(kids) = n + 1
    BY EmptySeq, LenProperties
  <1>2. \A i \in 1 .. n : i \in Nat /\ i \in DOMAIN kids /\ i + 1 \in DOMAIN kids
    BY <1>1
  <1>3. \A i \in DOMAIN kids : kids[i] \in K
    BY <1>1, ElementOfSeq
  <1>4. w = [x \in 1 .. n |-> [key |-> kids[x].key, node |-> kids[x + 1].node]]
    BY DEF Shortened
  <1> HIDE DEF w, n
  <1>5. \A i \in 1 .. n : w[i].node = kids[i + 1].node /\ w[i] \in K
    <2> TAKE i \in 1 .. n
    <2>1. kids[i] \in K /\ kids[i + 1] \in K
      BY <1>2, <1>3
    <2> QED
      BY <1>4, <2>1
  <1>6. w \in [1 .. n -> K]
    BY <1>4, <1>5
  <1>7. w \in Seq(K) /\ DOMAIN w = 1 .. n
    BY <1>1, <1>4, <1>6, SeqDef
  <1> QED
    BY <1>2, <1>5, <1>7 DEF w

(* Two entries more.                                                       *)
LEMMA TwoMore ==
    ASSUME NEW G, NEW g \in Seq(G), NEW e \in G, NEW n \in Nat, Len(g) = n
    PROVE  LET c == g \o <<e, e>> IN
           /\ Len(c) = n + 2 /\ DOMAIN c = 1 .. n + 2
           /\ c[n + 1] = e /\ c[n + 2] = e
           /\ \A m \in 1 .. n : c[m] = g[m]
  OBVIOUS

(* The heap with the three parts cut out.                                  *)
CutAs(c, list, stats, network, n) ==
    /\ n \in Nat /\ DOMAIN heap = 1 .. n /\ Len(c) = n + 2 /\ DOMAIN c = 1 .. n + 2
    /\ c[n + 1] = EmptyMap /\ c[n + 2] = EmptyMap
    /\ \A m \in DOMAIN heap :
          /\ Whole(c[m]) /\ c[m].kind = heap[m].kind
          /\ c[m].spec = heap[m].spec /\ c[m].val = heap[m].val
    /\ c[list].kids = Shortened(heap[list].kids)
    /\ c[network].kids = Put(heap[network].kids, <<"interfaces">>, n + 1)
    /\ c[stats].kids = Put(heap[stats].kids, <<"filesystem">>, n + 2)
    /\ \A m \in DOMAIN heap \ {list, network, stats} : c[m].kids = heap[m].kids

(* What Cut does, node by node.                                            *)
LEMMA CutIs ==
    ASSUME Formed(heap), NEW list \in DOMAIN heap, NEW stats \in DOMAIN heap,
           NEW network \in DOMAIN heap,
           list # stats, list # network, stats # network,
           NEW n, n = Len(heap), NEW c, c = Cut(list, stats, network)
    PROVE  CutAs(c, list, stats, network, n)
  <1> DEFINE a == Shortened(heap[list].kids)
             b == Put(heap[network].kids, <<"interfaces">>, n + 1)
             d == Put(heap[stats].kids, <<"filesystem">>, n + 2)
             g == [heap EXCEPT ![list].kids = Shortened(@),
                               ![network].kids = Put(@, <<"interfaces">>, Len(heap) + 1),
                               ![stats].kids = Put(@, <<"filesystem">>, Len(heap) + 2)]
             G == {g[m] : m \in DOMAIN heap} \cup {EmptyMap}
  <1>1. n \in Nat /\ DOMAIN heap = 1 .. n
    BY DEF Formed, Tree
  <1>2. /\ g[list] = [heap[list] EXCEPT !.kids = a]
        /\ g[network] = [heap[network] EXCEPT !.kids = b]
        /\ g[stats] = [heap[stats] EXCEPT !.kids = d]
        /\ \A m \in DOMAIN heap \ {list, network, stats} : g[m] = heap[m]
        /\ DOMAIN g = DOMAIN heap
    BY DEF a, b, d
  <1>3. \A m \in DOMAIN heap : Whole(heap[m])
    BY DEF Formed
  <1>4. c = g \o <<EmptyMap, EmptyMap>>
    BY DEF Cut
  <1>5. g \in Seq(G) /\ Len(g) = n
    <2>1. g \in [1 .. n -> G]
      <3>1. g = [m \in 1 .. n |-> g[m]]
        BY <1>1
      <3>2. \A m \in 1 .. n : g[m] \in G
        BY <1>1
      <3> HIDE DEF g, G
      <3> QED
        BY <3>1, <3>2
    <2> HIDE DEF g, G
    <2>2. g \in Seq(G)
      BY <1>1, <2>1, SeqDef
    <2>3. DOMAIN g = 1 .. Len(g) /\ Len(g) \in Nat
      BY <2>2, LenProperties
    <2>4. DOMAIN g = 1 .. n
      BY <2>1, SMTT(30)
    <2> DEFINE l == Len(g)
    <2>L. l \in Nat /\ n \in Nat /\ 1 .. l = 1 .. n
      BY <1>1, <2>3, <2>4
    <2> HIDE DEF l
    <2>5. l = n
      BY ONLY <2>L
    <2> QED
      BY <2>2, <2>5 DEF l
  <1>6. EmptyMap \in G
    OBVIOUS
  <1> HIDE DEF g, G, a, b, d
  <1>7. /\ Len(c) = n + 2 /\ DOMAIN c = 1 .. n + 2
        /\ c[n + 1] = EmptyMap /\ c[n + 2] = EmptyMap
        /\ \A m \in 1 .. n : c[m] = g[m]
    <2>1. n \in Nat /\ c = g \o <<EmptyMap, EmptyMap>> /\ EmptyMap \in G /\ g \in Seq(G) /\ Len(g) = n
      BY <1>1, <1>4, <1>5, <1>6
    <2> QED
      BY ONLY <2>1, TwoMore
  <1>8. ASSUME NEW r, Whole(r), NEW k, NEW s, s = [r EXCEPT !.kids = k]
        PROVE  s.kids = k /\ s.kind = r.kind /\ s.spec = r.spec /\ s.val = r.val /\ Whole(s)
    BY <1>8 DEF Whole
  <1>9. /\ g[list].kids = a /\ g[network].kids = b /\ g[stats].kids = d
        /\ \A m \in {list, network, stats} :
              /\ Whole(g[m]) /\ g[m].kind = heap[m].kind
              /\ g[m].spec = heap[m].spec /\ g[m].val = heap[m].val
    <2>1. Whole(heap[list]) /\ Whole(heap[network]) /\ Whole(heap[stats])
      BY <1>3
    <2> DEFINE x == g[list]
               y == g[network]
               z == g[stats]
    <2>2. x = [heap[list] EXCEPT !.kids = a]
      BY <1>2
    <2>3. y = [heap[network] EXCEPT !.kids = b]
      BY <1>2
    <2>4. z = [heap[stats] EXCEPT !.kids = d]
      BY <1>2
    <2> HIDE DEF x, y, z
    <2>5. x.kids = a /\ x.kind = heap[list].kind /\ x.spec = heap[list].spec
          /\ x.val = heap[list].val /\ Whole(x)
      BY ONLY <1>8, <2>1, <2>2
    <2>6. y.kids = b /\ y.kind = heap[network].kind /\ y.spec = heap[network].spec
          /\ y.val = heap[network].val /\ Whole(y)
      BY ONLY <1>8, <2>1, <2>3
    <2>7. z.kids = d /\ z.kind = heap[stats].kind /\ z.spec = heap[stats].spec
          /\ z.val = heap[stats].val /\ Whole(z)
      BY ONLY <1>8, <2>1, <2>4
    <2> QED
      BY <2>5, <2>6, <2>7 DEF x, y, z
  <1>10. \A m \in DOMAIN heap :
           /\ Whole(g[m]) /\ g[m].kind = heap[m].kind
           /\ g[m].spec = heap[m].spec /\ g[m].val = heap[m].val
    BY <1>2, <1>3, <1>9
  <1>11. \A m \in DOMAIN heap : c[m] = g[m]
    BY <1>1, <1>7
  <1> QED
    <2>1. \A m \in DOMAIN heap \ {list, network, stats} : c[m].kids = heap[m].kids
      BY <1>2, <1>11
    <2>2. c[list].kids = a /\ c[network].kids = b /\ c[stats].kids = d
      BY <1>9, <1>11
    <2>3. \A m \in DOMAIN heap :
                 /\ Whole(c[m]) /\ c[m].kind = heap[m].kind
                 /\ c[m].spec = heap[m].spec /\ c[m].val = heap[m].val
      BY <1>10, <1>11
    <2> QED
      BY <1>1, <1>7, <2>1, <2>2, <2>3 DEF a, b, d, CutAs

(* One element makes a key.                                                *)
LEMMA OneIsKey ==
    ASSUME NEW s \in STRING
    PROVE  <<s>> \in Keys
  <1>1. \A S : \A e \in S : <<e>> \in Seq(S)
    OBVIOUS
  <1> QED
    BY <1>1 DEF Keys

(* It is such an object again.                                             *)
LEMMA CutFormed ==
    ASSUME Decoded(heap), NEW list \in DOMAIN heap, NEW stats, NEW network \in DOMAIN heap,
           FullList(list), stats = First(list), Is(stats, "map"), Is(network, "map"),
           network > stats, NEW c, c = Cut(list, stats, network)
    PROVE  Formed(c) /\ DOMAIN heap \subseteq DOMAIN c /\ stats \in DOMAIN heap
  <1> DEFINE n == Len(heap)
             N == n + 2
             new1 == [key |-> <<"interfaces">>, node |-> n + 1]
             new2 == [key |-> <<"filesystem">>, node |-> n + 2]
             K(m) == [key : Keys, node : m + 1 .. N]
  <1>1. /\ Formed(heap) /\ Tree(heap) /\ n \in Nat \ {0} /\ DOMAIN heap = 1 .. n
        /\ \A m \in DOMAIN heap : heap[m].kids \in Seq([key : Keys, node : m + 1 .. n])
    BY DecodedFormed DEF Decoded, Tree, Keys
  <1>2. stats \in DOMAIN heap /\ stats > list /\ heap[list].kids # <<>>
    <2>1. heap[list].kids # <<>>
      BY DEF FullList
    <2>2. 1 \in DOMAIN heap[list].kids
      BY <1>1, <2>1, EmptySeq
    <2>3. heap[list].kids[1] \in Kids(heap, list)
      BY <2>2 DEF Kids, ToSet
    <2> QED
      BY <1>1, <2>1, <2>3, KidsAre DEF First
  <1>3. /\ list # stats /\ list # network /\ stats # network
        /\ list \in Nat /\ stats \in Nat /\ network \in Nat
    BY <1>1, <1>2
  <1>4. /\ Len(c) = N /\ DOMAIN c = 1 .. N
        /\ c[n + 1] = EmptyMap /\ c[N] = EmptyMap
        /\ \A m \in DOMAIN heap :
              /\ Whole(c[m]) /\ c[m].kind = heap[m].kind
              /\ c[m].spec = heap[m].spec /\ c[m].val = heap[m].val
        /\ c[list].kids = Shortened(heap[list].kids)
        /\ c[network].kids = Put(heap[network].kids, <<"interfaces">>, n + 1)
        /\ c[stats].kids = Put(heap[stats].kids, <<"filesystem">>, n + 2)
        /\ \A m \in DOMAIN heap \ {list, network, stats} : c[m].kids = heap[m].kids
    <2>1. /\ Formed(heap) /\ list \in DOMAIN heap /\ stats \in DOMAIN heap
          /\ network \in DOMAIN heap /\ c = Cut(list, stats, network) /\ n = Len(heap)
      BY <1>1, <1>2
    <2>2. CutAs(c, list, stats, network, n)
      <3> HIDE DEF n
      <3> QED
        BY <1>3, <2>1, CutIs
    <2> QED
      BY <2>2 DEF CutAs
  <1> DEFINE e == <<>>
  <1>5. /\ EmptyMap.kids = e /\ EmptyMap.kind = "map" /\ EmptyMap.spec = NoSpec
        /\ Whole(EmptyMap) /\ \A S : e \in Seq(S) /\ DOMAIN e = {}
    BY EmptySeq DEF EmptyMap, Whole
  <1> HIDE DEF n, e
  <1>6. DOMAIN c = DOMAIN heap \cup {n + 1, N} /\ n + 1 # N /\ n + 1 \notin DOMAIN heap
        /\ N \notin DOMAIN heap /\ DOMAIN c \subseteq Nat
    BY <1>1, <1>4
  <1>7. \A m \in DOMAIN heap : heap[m].kids \in Seq(K(m)) /\ new1 \in K(m) /\ new2 \in K(m)
    <2> TAKE m \in DOMAIN heap
    <2>1. heap[m].kids \in Seq([key : Keys, node : m + 1 .. n])
      BY <1>1
    <2>2. m + 1 .. n \subseteq m + 1 .. N /\ n + 1 \in m + 1 .. N /\ N \in m + 1 .. N
      BY <1>1
    <2>3. <<"interfaces">> \in Keys /\ <<"filesystem">> \in Keys
      BY OneIsKey, KeysAssumption
    <2>4. ASSUME NEW i \in 1 .. Len(heap[m].kids) PROVE heap[m].kids[i] \in K(m)
      <3>1. heap[m].kids[i] \in [key : Keys, node : m + 1 .. n]
        BY <2>1, ElementOfSeq
      <3> QED
        BY <2>2, <3>1
    <2> HIDE DEF N
    <2>5. heap[m].kids \in Seq(K(m))
      <3> HIDE DEF K
      <3> QED
        BY <2>1, <2>4, Retyped
    <2>6. new1 \in K(m) /\ new2 \in K(m)
      BY <2>2, <2>3 DEF N
    <2> QED
      BY <2>5, <2>6
  <1> HIDE DEF N, new1, new2, K
  <1>8. /\ c[list].kids \in Seq(K(list))
        /\ \A i \in DOMAIN c[list].kids :
              /\ i \in Nat /\ i + 1 \in DOMAIN heap[list].kids
              /\ c[list].kids[i].node = heap[list].kids[i + 1].node
    <2>1. /\ heap[list].kids \in Seq([key : Keys, node : list + 1 .. N])
          /\ c[list].kids = Shortened(heap[list].kids) /\ heap[list].kids # <<>>
      BY <1>2, <1>4, <1>7 DEF K
    <2>2. /\ c[list].kids \in Seq([key : Keys, node : list + 1 .. N])
          /\ \A i \in DOMAIN c[list].kids :
              /\ i \in Nat /\ i + 1 \in DOMAIN heap[list].kids
              /\ c[list].kids[i].node = heap[list].kids[i + 1].node
      <3> DEFINE T == list + 1 .. N
                 s == heap[list].kids
      <3>1. s \in Seq([key : Keys, node : T]) /\ s # <<>> /\ c[list].kids = Shortened(s)
        BY <2>1
      <3> HIDE DEF T, s
      <3>2. /\ Shortened(s) \in Seq([key : Keys, node : T])
            /\ \A i \in DOMAIN Shortened(s) :
                  i \in Nat /\ i + 1 \in DOMAIN s /\ Shortened(s)[i].node = s[i + 1].node
        BY <3>1, ShortenedIs
      <3> QED
        BY <3>1, <3>2 DEF T, s
    <2> QED
      BY <2>2 DEF K
  <1>9. /\ c[network].kids \in Seq(K(network))
        /\ \E x \in DOMAIN c[network].kids :
              /\ c[network].kids[x] = new1
              /\ \A i \in DOMAIN c[network].kids : i # x =>
                    i \in DOMAIN heap[network].kids /\ c[network].kids[i] = heap[network].kids[i]
    <2>1. heap[network].kids \in Seq(K(network)) /\ new1 \in K(network)
      BY <1>7
    <2>2. c[network].kids = Put(heap[network].kids, <<"interfaces">>, n + 1)
      BY <1>4
    <2> DEFINE S == K(network)
               s == heap[network].kids
               k == <<"interfaces">>
               m == n + 1
    <2>3. s \in Seq(S) /\ [key |-> k, node |-> m] \in S /\ c[network].kids = Put(s, k, m)
      BY <2>1, <2>2 DEF new1
    <2>4. new1 = [key |-> k, node |-> m]
      BY DEF new1
    <2> HIDE DEF S, s, k, m, new1
    <2>5. /\ Put(s, k, m) \in Seq(S)
          /\ \E x \in DOMAIN Put(s, k, m) :
                 /\ Put(s, k, m)[x] = [key |-> k, node |-> m]
                 /\ \A i \in DOMAIN Put(s, k, m) :
                       i # x => i \in DOMAIN s /\ Put(s, k, m)[i] = s[i]
      BY <2>3, PutIs
    <2> QED
      BY <2>3, <2>4, <2>5 DEF S, s
  <1>10. /\ c[stats].kids \in Seq(K(stats))
         /\ \E x \in DOMAIN c[stats].kids :
              /\ c[stats].kids[x] = new2
              /\ \A i \in DOMAIN c[stats].kids : i # x =>
                    i \in DOMAIN heap[stats].kids /\ c[stats].kids[i] = heap[stats].kids[i]
    <2>1. heap[stats].kids \in Seq(K(stats)) /\ new2 \in K(stats)
      BY <1>2, <1>7
    <2>2. c[stats].kids = Put(heap[stats].kids, <<"filesystem">>, n + 2)
      BY <1>4
    <2> DEFINE S == K(stats)
               s == heap[stats].kids
               k == <<"filesystem">>
               m == n + 2
    <2>3. s \in Seq(S) /\ [key |-> k, node |-> m] \in S /\ c[stats].kids = Put(s, k, m)
      BY <2>1, <2>2 DEF new2
    <2>4. new2 = [key |-> k, node |-> m]
      BY DEF new2
    <2> HIDE DEF S, s, k, m, new2
    <2>5. /\ Put(s, k, m) \in Seq(S)
          /\ \E x \in DOMAIN Put(s, k, m) :
                 /\ Put(s, k, m)[x] = [key |-> k, node |-> m]
                 /\ \A i \in DOMAIN Put(s, k, m) :
                       i # x => i \in DOMAIN s /\ Put(s, k, m)[i] = s[i]
      BY <2>3, PutIs
    <2> QED
      BY <2>3, <2>4, <2>5 DEF S, s
  <1>11. PICK x \in DOMAIN c[network].kids :
              /\ c[network].kids[x] = new1
              /\ \A i \in DOMAIN c[network].kids : i # x =>
                    i \in DOMAIN heap[network].kids /\ c[network].kids[i] = heap[network].kids[i]
    BY <1>9
  <1>12. PICK y \in DOMAIN c[stats].kids :
              /\ c[stats].kids[y] = new2
              /\ \A i \in DOMAIN c[stats].kids : i # y =>
                    i \in DOMAIN heap[stats].kids /\ c[stats].kids[i] = heap[stats].kids[i]
    BY <1>10
  <1> DEFINE At1(m, i) == IF m = list THEN i + 1 ELSE i
             Old(m, i) == /\ m \in DOMAIN heap /\ At1(m, i) \in DOMAIN heap[m].kids /\ i \in Nat
                          /\ c[m].kids[i].node = heap[m].kids[At1(m, i)].node
             New(m, i) == \/ m = network /\ i = x /\ c[m].kids[i].node = n + 1
                          \/ m = stats /\ i = y /\ c[m].kids[i].node = N
  <1>13. ASSUME NEW m \in DOMAIN c, NEW i \in DOMAIN c[m].kids
         PROVE  Old(m, i) \/ New(m, i)
    <2>1. CASE m = list
      BY <1>8, <2>1
    <2>2. CASE m = network
      <3>1. i \in Nat
        BY <1>9, <2>2, LenProperties
      <3>2. CASE i = x
        BY <1>11, <2>2, <3>2 DEF new1
      <3>3. CASE i # x
        BY <1>3, <1>11, <2>2, <3>1, <3>3
      <3> QED
        BY <3>2, <3>3
    <2>3. CASE m = stats
      <3>1. i \in Nat
        BY <1>10, <2>3, LenProperties
      <3>2. CASE i = y
        BY <1>12, <2>3, <3>2 DEF new2, N
      <3>3. CASE i # y
        BY <1>2, <1>3, <1>12, <2>3, <3>1, <3>3
      <3> QED
        BY <3>2, <3>3
    <2>4. CASE m \in DOMAIN heap \ {list, network, stats}
      <3>0. c[m].kids = heap[m].kids /\ heap[m].kids \in Seq(K(m))
        BY <1>4, <1>7, <2>4
      <3>1. i \in Nat /\ i \in DOMAIN heap[m].kids
        BY <3>0, LenProperties
      <3> QED
        BY <1>4, <2>4, <3>1
    <2>5. CASE m \in {n + 1, N}
      BY <1>4, <1>5, <2>5
    <2> QED
      BY <1>6, <2>1, <2>2, <2>3, <2>4, <2>5
  <1>14. ASSUME NEW m \in DOMAIN c
         PROVE  c[m].kids \in Seq(K(m)) /\ Whole(c[m])
    <2>1. CASE m \in DOMAIN heap
      BY <1>4, <1>7, <1>8, <1>9, <1>10, <2>1
    <2>2. CASE m \in {n + 1, N}
      BY <1>4, <1>5, <2>2
    <2> QED
      BY <1>6, <2>1, <2>2
  <1>15. ASSUME NEW m \in DOMAIN c, c[m].kids # <<>> PROVE c[m].kind \in {"map", "list"}
    <2>1. CASE m \in {list, network, stats}
      BY <1>2, <1>4, <2>1 DEF FullList, Is
    <2>2. CASE m \in DOMAIN heap \ {list, network, stats}
      BY <1>1, <1>4, <1>15, <2>2 DEF Tree
    <2>3. CASE m \in {n + 1, N}
      BY <1>4, <1>5, <2>3
    <2> QED
      BY <1>6, <2>1, <2>2, <2>3
  <1>16. ASSUME NEW m \in DOMAIN c, NEW k \in DOMAIN c,
                NEW i \in DOMAIN c[m].kids, NEW j \in DOMAIN c[k].kids,
                c[m].kids[i].node = c[k].kids[j].node
         PROVE  m = k /\ i = j
    <2>1. (Old(m, i) \/ New(m, i)) /\ (Old(k, j) \/ New(k, j))
      BY <1>13
    <2>2. ASSUME NEW u, NEW v, Old(u, v) PROVE c[u].kids[v].node \in DOMAIN heap
      <3>1. heap[u].kids[At1(u, v)] \in Kids(heap, u)
        BY <2>2 DEF Kids, ToSet
      <3> QED
        BY <1>1, <2>2, <3>1, KidsAre
    <2>3. CASE Old(m, i) /\ Old(k, j)
      <3> DEFINE u == At1(m, i)
                 v == At1(k, j)
      <3>0. /\ m \in DOMAIN heap /\ k \in DOMAIN heap
            /\ u \in DOMAIN heap[m].kids /\ v \in DOMAIN heap[k].kids
            /\ heap[m].kids[u].node = heap[k].kids[v].node
        BY <1>16, <2>3
      <3> HIDE DEF u, v
      <3>1. m = k /\ u = v
        BY <1>1, <3>0 DEF Tree
      <3> QED
        BY <2>3, <3>1 DEF u, v
    <2>4. CASE New(m, i) /\ New(k, j)
      BY <1>6, <1>16, <2>4
    <2>5. CASE Old(m, i) /\ New(k, j)
      BY <1>6, <1>16, <2>2, <2>5
    <2>6. CASE New(m, i) /\ Old(k, j)
      BY <1>6, <1>16, <2>2, <2>6
    <2> QED
      BY <2>1, <2>3, <2>4, <2>5, <2>6
  <1>17. Tree(c)
    <2>1. Len(c) \in Nat \ {0} /\ DOMAIN c = 1 .. Len(c)
      BY <1>1, <1>4 DEF N
    <2>2. \A m \in DOMAIN c : c[m].kids \in Seq([key : Keys, node : m + 1 .. Len(c)])
      BY <1>4, <1>14 DEF K
    <2> QED
      BY <1>15, <1>16, <2>1, <2>2 DEF Tree, Keys
  <1>18. ASSUME NEW m \in DOMAIN c, c[m].spec # NoSpec, ~c[m].spec.broken, NEW kid \in Kids(c, m)
         PROVE  c[kid.node].kids = <<>>
    <2>1. m \in DOMAIN heap /\ heap[m].spec # NoSpec /\ ~heap[m].spec.broken
      BY <1>4, <1>5, <1>6, <1>18
    <2>2. PICK i \in DOMAIN c[m].kids : kid = c[m].kids[i]
      BY DEF Kids, ToSet
    <2>3. CASE New(m, i)
      BY <1>4, <1>5, <2>2, <2>3 DEF e
    <2>4. CASE Old(m, i)
      <3>1. PICK k \in Kids(heap, m) : k.node = kid.node
        BY <2>2, <2>4 DEF Kids, ToSet
      <3>2. kid.node \in DOMAIN heap /\ heap[kid.node].kind = "leaf"
        <4>1. heap[k.node].kind = "leaf"
          BY <2>1 DEF Decoded, Kids
        <4>2. k.node \in DOMAIN heap
          BY <1>1, <2>1, KidsAre
        <4> QED
          BY <3>1, <4>1, <4>2
      <3>3. kid.node \notin {list, network, stats} /\ heap[kid.node].kids = <<>>
        BY <1>1, <3>2 DEF FullList, Is, Tree
      <3> QED
        BY <1>4, <3>2, <3>3
    <2> QED
      BY <1>13, <2>2, <2>3, <2>4
  <1> QED
    BY <1>2, <1>6, <1>14, <1>17, <1>18 DEF Formed

-----------------------------------------------------------------------------
(* A walk comes to no node twice: what is below the kids that are to come  *)
(* is apart.                                                               *)
NodesUnder(h, f) == UNION {Desc(h, kid.node) : kid \in ToSet(f.rest)}

Nodes(h, s) == UNION {NodesUnder(h, s[i]) : i \in DOMAIN s}

Spread(h, f) ==
    \A x, y \in DOMAIN f.rest :
       x # y => Desc(h, f.rest[x].node) \cap Desc(h, f.rest[y].node) = {}

Apart(h, s) ==
    /\ \A i \in DOMAIN s : Spread(h, s[i])
    /\ \A i, k \in DOMAIN s : i # k => NodesUnder(h, s[i]) \cap NodesUnder(h, s[k]) = {}

(* The frames without a kid, and the frame of the kid.                     *)
LEMMA SpreadTop ==
    ASSUME Tree(heap), stack \in Seq(Frames(heap)), NEW j \in Turns, Spread(heap, Top)
    PROVE  /\ NodesUnder(heap, Without(j)) \subseteq NodesUnder(heap, Top)
           /\ Desc(heap, KidNode(j)) \subseteq NodesUnder(heap, Top)
           /\ NodesUnder(heap, Without(j)) \cap Desc(heap, KidNode(j)) = {}
           /\ Spread(heap, Without(j))
  <1> DEFINE s == Top.rest
             w == Without(j).rest
  <1>1. /\ j \in DOMAIN s /\ KidNode(j) = s[j].node /\ s \in Seq(KidRecords(heap))
        /\ \A x \in DOMAIN s : s[x].node \in DOMAIN heap
    <2>1. Top \in Frames(heap) /\ j \in DOMAIN s
      BY TurnIs
    <2>2. s \in Seq(KidRecords(heap))
      BY <2>1 DEF Frames
    <2>3. \A x \in DOMAIN s : s[x] \in KidRecords(heap)
      BY <2>2, ElementOfSeq, LenProperties
    <2> QED
      BY <2>1, <2>2, <2>3 DEF KidNode, KidRecords
  <1>2. \A x \in DOMAIN w : \E y \in DOMAIN s : y # j /\ w[x] = s[y]
    BY RestWithout
  <1>3. (\A x, y \in DOMAIN s : s[x].node = s[y].node => x = y) =>
           \A x, y \in DOMAIN w : w[x].node = w[y].node => x = y
    BY RestWithout
  <1>4. \A x \in DOMAIN s : s[x].node \in Desc(heap, s[x].node)
    BY <1>1, DescIs
  <1>5. \A x, y \in DOMAIN s : x # y => Desc(heap, s[x].node) \cap Desc(heap, s[y].node) = {}
    BY DEF Spread
  <1>6. /\ NodesUnder(heap, Top) = UNION {Desc(heap, s[x].node) : x \in DOMAIN s}
        /\ NodesUnder(heap, Without(j)) = UNION {Desc(heap, w[x].node) : x \in DOMAIN w}
    BY DEF NodesUnder, ToSet
  <1>7. \A x, y \in DOMAIN s : s[x].node = s[y].node => x = y
    BY <1>4, <1>5
  <1>8. Spread(heap, Without(j)) <=>
           \A x, y \in DOMAIN w : x # y => Desc(heap, w[x].node) \cap Desc(heap, w[y].node) = {}
    BY DEF Spread
  <1> HIDE DEF s, w
  <1>9. ASSUME NEW x \in DOMAIN w, NEW y \in DOMAIN w, x # y
        PROVE  Desc(heap, w[x].node) \cap Desc(heap, w[y].node) = {}
    <2>1. PICK u \in DOMAIN s : w[x] = s[u]
      BY <1>2
    <2>2. PICK v \in DOMAIN s : w[y] = s[v]
      BY <1>2
    <2>3. u # v
      BY <1>3, <1>7, <1>9, <2>1, <2>2
    <2> QED
      BY <1>5, <2>1, <2>2, <2>3
  <1> DEFINE A == NodesUnder(heap, Top)
             B == NodesUnder(heap, Without(j))
             m == KidNode(j)
  <1>10. Spread(heap, Without(j))
    BY <1>8, <1>9
  <1>11. Desc(heap, m) \subseteq A
    BY <1>1, <1>6
  <1>12. ASSUME NEW x \in DOMAIN w
         PROVE  Desc(heap, w[x].node) \subseteq A /\ Desc(heap, w[x].node) \cap Desc(heap, m) = {}
    <2>1. PICK y \in DOMAIN s : y # j /\ w[x] = s[y]
      BY <1>2
    <2> QED
      BY <1>1, <1>5, <1>6, <2>1
  <1>13. B \subseteq A /\ B \cap Desc(heap, m) = {}
    BY <1>6, <1>12
  <1> QED
    BY <1>10, <1>11, <1>13

(* A frame with all kids of a node has what is below it but the node.      *)
LEMMA SpreadFrame ==
    ASSUME NEW h, Tree(h), NEW m \in DOMAIN h, NEW f, f.rest = h[m].kids
    PROVE  /\ NodesUnder(h, f) \subseteq Desc(h, m) /\ m \notin NodesUnder(h, f)
           /\ m \in Desc(h, m) /\ Spread(h, f)
  <1>1. \A kid \in Kids(h, m) :
           /\ kid.node \in Desc(h, m) /\ kid.node \in DOMAIN h
           /\ m \notin Desc(h, kid.node) /\ Desc(h, kid.node) \subseteq Desc(h, m)
    <2> TAKE kid \in Kids(h, m)
    <2>1. kid.node \in DOMAIN h /\ kid.node > m /\ m \in Nat /\ kid.node \in Nat
      BY KidsAre
    <2>2. kid.node \in Desc(h, m)
      BY DescIs
    <2>3. m \notin Desc(h, kid.node)
      <3> SUFFICES ASSUME m \in Desc(h, kid.node) PROVE FALSE
        OBVIOUS
      <3>1. m >= kid.node
        BY <2>1, DescAbove
      <3> QED
        BY <2>1, <3>1
    <2> QED
      BY <2>1, <2>2, <2>3, DescDesc
  <1>2. ASSUME NEW x \in DOMAIN h[m].kids, NEW y \in DOMAIN h[m].kids, x # y
        PROVE  Desc(h, h[m].kids[x].node) \cap Desc(h, h[m].kids[y].node) = {}
    <2> DEFINE a == h[m].kids[x]
               b == h[m].kids[y]
    <2>1. a \in Kids(h, m) /\ b \in Kids(h, m)
      BY DEF Kids, ToSet
    <2>2. a # b
      BY <1>2 DEF Tree
    <2> HIDE DEF a, b
    <2>3. Desc(h, a.node) \cap Desc(h, b.node) = {}
      BY <2>1, <2>2, KidsApart
    <2> QED
      BY <2>3 DEF a, b
  <1>3. Spread(h, f)
    BY <1>2 DEF Spread
  <1>4. ToSet(f.rest) = Kids(h, m)
    BY DEF Kids
  <1> QED
    BY <1>1, <1>3, <1>4, DescIs DEF NodesUnder

(* A frame without a rest has no nodes.                                    *)
LEMMA NothingSpread ==
    ASSUME NEW h, NEW f, f.rest = <<>>
    PROVE  NodesUnder(h, f) = {} /\ Spread(h, f)
  <1>1. DOMAIN f.rest = {} /\ ToSet(f.rest) = {}
    BY DEF ToSet
  <1> QED
    BY <1>1 DEF NodesUnder, Spread

(* A call leaves the frames apart and takes its node from them.            *)
LEMMA ApartCalled ==
    ASSUME Tree(heap), stack \in Seq(Frames(heap)), NEW j \in Turns,
           NEW answer, Called(j, answer), Apart(heap, stack)
    PROVE  /\ Apart(heap, stack') /\ Nodes(heap, stack') \subseteq Nodes(heap, stack)
           /\ KidNode(j) \in Nodes(heap, stack) /\ KidNode(j) \notin Nodes(heap, stack')
  <1> DEFINE n == Len(stack)
             m == KidNode(j)
             new == Frame(m, KidPath(j))
             U(f) == NodesUnder(heap, f)
  <1>1. /\ n \in Nat \ {0} /\ stack[n] = Top /\ stack' \in Seq(Frames(heap))
        /\ \A i \in 1 .. n - 1 : stack'[i] = stack[i]
        /\ IsDir(m) /\ answer # "skip" =>
              /\ Len(stack') = n + 1 /\ stack'[n] = Without(j) /\ stack'[n + 1] = new
        /\ IsDir(m) /\ answer = "skip" =>
              Len(stack') = n /\ stack'[n] = Without(j)
        /\ ~IsDir(m) =>
              /\ Len(stack') = n
              /\ stack'[n] = IF answer = "skip" THEN Over ELSE Without(j)
    BY CalledIs
  <1>2. DOMAIN stack = 1 .. n /\ DOMAIN stack' = 1 .. Len(stack')
    BY <1>1, LenProperties
  <1> HIDE DEF n
  <1>N. /\ n \in 1 .. n /\ \A i \in 1 .. n - 1 : i \in 1 .. n /\ i # n
        /\ 1 .. n = (1 .. n - 1) \cup {n} /\ 1 .. n + 1 = (1 .. n - 1) \cup {n, n + 1}
        /\ Len(stack') \in {n, n + 1}
    BY <1>1
  <1>3. n \in DOMAIN stack /\ Spread(heap, Top)
    BY <1>1, <1>2, <1>N DEF Apart
  <1>4. /\ U(Without(j)) \subseteq U(Top) /\ Desc(heap, m) \subseteq U(Top)
        /\ U(Without(j)) \cap Desc(heap, m) = {} /\ Spread(heap, Without(j))
    BY <1>3, SpreadTop
  <1>5. m \in DOMAIN heap /\ new.rest = heap[m].kids /\ Over.rest = <<>>
    BY TurnIs, WithoutIs
  <1>6. /\ U(new) \subseteq Desc(heap, m) /\ m \notin U(new)
        /\ m \in Desc(heap, m) /\ Spread(heap, new)
    BY <1>5, SpreadFrame
  <1>7. U(Over) = {} /\ Spread(heap, Over)
    BY <1>5, NothingSpread
  <1>8. /\ \A i \in DOMAIN stack : Spread(heap, stack[i])
        /\ \A i, k \in DOMAIN stack : i # k => U(stack[i]) \cap U(stack[k]) = {}
    BY DEF Apart
  <1> DEFINE S(i) == U(stack'[i])
  <1> HIDE DEF m, new, U
  <1>9. \A i \in DOMAIN stack' :
           \/ i \in 1 .. n - 1 /\ stack'[i] = stack[i] /\ i \in DOMAIN stack /\ i # n
           \/ i = n /\ (stack'[i] = Without(j) \/ stack'[i] = Over)
           \/ i = n + 1 /\ stack'[i] = new
    <2> TAKE i \in DOMAIN stack'
    <2>1. i \in 1 .. n - 1 \/ i = n \/ (i = n + 1 /\ Len(stack') = n + 1)
      BY <1>1, <1>2, <1>N
    <2>2. n + 1 # n
      BY <1>1
    <2> QED
      BY <1>1, <1>2, <1>N, <2>1, <2>2
  <1>10. \A i \in DOMAIN stack' : Spread(heap, stack'[i])
    BY <1>4, <1>6, <1>7, <1>8, <1>9
  <1>11. ASSUME NEW i \in DOMAIN stack'
         PROVE  /\ i \in 1 .. n - 1 => i \in DOMAIN stack /\ S(i) = U(stack[i])
                /\ i = n => S(i) \subseteq U(Top) /\ S(i) \cap Desc(heap, m) = {}
                /\ i = n + 1 => S(i) \subseteq Desc(heap, m) /\ m \notin S(i)
                /\ i \in 1 .. n - 1 \/ i = n \/ i = n + 1
    <2>1. n \notin 1 .. n - 1 /\ n + 1 \notin 1 .. n - 1 /\ n # n + 1
      BY <1>1
    <2> QED
      BY <1>4, <1>6, <1>7, <1>9, <2>1
  <1>12. \A i \in 1 .. n - 1 : i \in DOMAIN stack /\ i # n /\ U(stack[i]) \cap U(Top) = {}
    <2>1. \A i \in 1 .. n - 1 : i \in DOMAIN stack /\ i # n
      BY <1>2, <1>N
    <2> QED
      BY <1>1, <1>3, <1>8, <2>1
  <1>13. ASSUME NEW i \in DOMAIN stack', NEW k \in DOMAIN stack', i # k
         PROVE  S(i) \cap S(k) = {}
    <2>1. CASE i \in 1 .. n - 1 /\ k \in 1 .. n - 1
      BY <1>8, <1>11, <1>13, <2>1
    <2>2. CASE i \in 1 .. n - 1 /\ k \in {n, n + 1}
      BY <1>4, <1>11, <1>12, <2>2
    <2>3. CASE k \in 1 .. n - 1 /\ i \in {n, n + 1}
      BY <1>4, <1>11, <1>12, <2>3
    <2>4. CASE i \in {n, n + 1} /\ k \in {n, n + 1}
      BY <1>11, <1>13, <2>4
    <2> QED
      BY <1>11, <2>1, <2>2, <2>3, <2>4
  <1>14. Apart(heap, stack')
    BY <1>10, <1>13 DEF Apart, U
  <1>15. m \in U(Top) /\ m \in Desc(heap, m)
    BY <1>4, <1>6
  <1>16. \A i \in DOMAIN stack' : m \notin S(i) /\ \E k \in DOMAIN stack : S(i) \subseteq U(stack[k])
    <2> TAKE i \in DOMAIN stack'
    <2>1. CASE i \in 1 .. n - 1
      BY <1>11, <1>12, <1>15, <2>1
    <2>2. CASE i \in {n, n + 1}
      BY <1>1, <1>3, <1>4, <1>11, <1>15, <2>2
    <2> QED
      BY <1>11, <2>1, <2>2
  <1>17. Nodes(heap, stack) = UNION {U(stack[i]) : i \in DOMAIN stack} /\
         Nodes(heap, stack') = UNION {S(i) : i \in DOMAIN stack'}
    BY DEF Nodes, U
  <1> HIDE DEF S
  <1> QED
    BY <1>1, <1>3, <1>14, <1>15, <1>16, <1>17 DEF m

(* The end of a range leaves the frames apart.                             *)
LEMMA ApartLeave ==
    ASSUME stack \in Seq(Frames(heap)), Leave, Apart(heap, stack)
    PROVE  Apart(heap, stack') /\ Nodes(heap, stack') \subseteq Nodes(heap, stack)
  <1> DEFINE n == Len(stack)
  <1>1. /\ n \in Nat \ {0} /\ stack' \in Seq(Frames(heap)) /\ Len(stack') = n - 1
        /\ \A i \in 1 .. n - 1 : stack'[i] = stack[i]
    BY LeaveIs
  <1>2. DOMAIN stack' = 1 .. n - 1 /\ DOMAIN stack = 1 .. n
    BY <1>1, LenProperties
  <1>3. \A i \in DOMAIN stack' : i \in DOMAIN stack /\ stack'[i] = stack[i]
    BY <1>1, <1>2
  <1> QED
    BY <1>3 DEF Apart, Nodes

(* The frame a walk begins with is apart.                                  *)
LEMMA ApartEntry ==
    ASSUME NEW h, NEW m, NEW path
    PROVE  Apart(h, Entry(m, path))
  <1> DEFINE rest == <<[key |-> <<>>, node |-> m]>>
             f == [node |-> 0, path |-> path, rest |-> rest]
             s == <<f>>
  <1>1. f.rest = rest /\ DOMAIN rest = {1}
    OBVIOUS
  <1> HIDE DEF rest
  <1>2. Spread(h, f)
    BY <1>1 DEF Spread
  <1> HIDE DEF f
  <1>3. DOMAIN s = {1} /\ s[1] = f
    OBVIOUS
  <1> HIDE DEF s
  <1>4. Apart(h, s)
    BY <1>2, <1>3 DEF Apart
  <1> QED
    BY <1>4 DEF Entry, s, f, rest

(* A call for a directory leaves out at most what is below it.             *)
LEMMA AheadSkipped ==
    ASSUME Tree(heap), stack \in Seq(Frames(heap)), NEW j \in Turns,
           NEW answer, Called(j, answer), IsDir(KidNode(j)) \/ answer # "skip"
    PROVE  Ahead(heap, stack) \subseteq
              Ahead(heap, stack') \cup Below(heap, KidNode(j), KidPath(j))
  <1> DEFINE n == Len(stack)
             B == Below(heap, KidNode(j), KidPath(j))
  <1>1. <<KidPath(j), KidNode(j)>> \in B
    BY TurnIs, BelowHas
  <1>2. CASE answer # "skip"
    BY <1>1, <1>2, AheadCalled
  <1>3. CASE answer = "skip"
    <2>1. /\ n \in Nat \ {0} /\ stack[n] = Top /\ stack' \in Seq(Frames(heap))
          /\ \A i \in 1 .. n - 1 : stack'[i] = stack[i]
          /\ Len(stack') = n /\ stack'[n] = Without(j)
      BY <1>3, CalledIs
    <2>2. UnderKids(heap, Top) = UnderKids(heap, Without(j)) \cup B
      BY UnderTop
    <2>3. Ahead(heap, stack) = Lower(heap, stack, n) \cup UnderKids(heap, Top)
      BY <2>1, AheadLast
    <2>4. Ahead(heap, stack') = Lower(heap, stack', n) \cup UnderKids(heap, Without(j))
      BY <2>1, AheadLast
    <2>5. Lower(heap, stack', n) = Lower(heap, stack, n)
      BY <2>1 DEF Lower
    <2> HIDE DEF n, B
    <2> QED
      BY <2>2, <2>3, <2>4, <2>5 DEF B
  <1> HIDE DEF B
  <1> QED
    BY <1>2, <1>3

-----------------------------------------------------------------------------
(* A mapping: the keys of a source are numbered from its first spec, which *)
(* has the others as its aliases.                                          *)
KeysOf(m, src) == {x \in DOMAIN m : x[1] = src}

SpecRecord(vs) == vs = [spec |-> vs.spec, target |-> vs.target, aliases |-> vs.aliases]

MapShape(m) ==
    /\ IsFiniteSet(DOMAIN m) /\ m = [x \in DOMAIN m |-> m[x]]
    /\ \A x \in DOMAIN m :
          LET c == Cardinality(KeysOf(m, x[1])) IN
          /\ SpecRecord(m[x]) /\ m[x].spec.src = x[1]
          /\ m[x].aliases \in Seq(DOMAIN m)
          /\ KeysOf(m, x[1]) = {x[1]} \X (0 .. c - 1)
          /\ ToSet(m[Main(x[1])].aliases) = {x[1]} \X (1 .. c - 1)

(* All keys of a source are found.                                         *)
LEMMA ShapeFinds ==
    ASSUME NEW m, MapShape(m), NEW x \in DOMAIN m
    PROVE  LET src == x[1] IN
           /\ Main(src) \in DOMAIN m
           /\ Cardinality(KeysOf(m, src)) \in Nat \ {0}
           /\ KeysOf(m, src) = ToSet(m[Main(src)].aliases) \cup {Main(src)}
           /\ ToSet(Append(m[Main(src)].aliases, Main(src))) = KeysOf(m, src)
  <1> DEFINE src == x[1]
             c == Cardinality(KeysOf(m, src))
             a == m[Main(src)].aliases
  <1>1. /\ KeysOf(m, src) = {src} \X (0 .. c - 1)
        /\ ToSet(a) = {src} \X (1 .. c - 1)
        /\ \A y \in DOMAIN m : m[y].aliases \in Seq(DOMAIN m)
    BY DEF MapShape
  <1>2. IsFiniteSet(KeysOf(m, src)) /\ x \in KeysOf(m, src)
    <2>1. KeysOf(m, src) \subseteq DOMAIN m /\ IsFiniteSet(DOMAIN m)
      BY DEF KeysOf, MapShape
    <2> QED
      BY <2>1, FS_Subset DEF KeysOf
  <1>3. c \in Nat \ {0}
    <2>1. c \in Nat
      BY <1>2, FS_CardinalityType
    <2>2. c # 0
      BY <1>2, FS_EmptySet
    <2> QED
      BY <2>1, <2>2
  <1> HIDE DEF c
  <1>4. 0 .. c - 1 = {0} \cup (1 .. c - 1)
    BY <1>3
  <1>5. KeysOf(m, src) = ToSet(a) \cup {Main(src)}
    <2>1. {src} \X (0 .. c - 1) = ({src} \X (1 .. c - 1)) \cup {<<src, 0>>}
      BY <1>4
    <2> QED
      BY <1>1, <2>1 DEF Main
  <1>6. Main(src) \in DOMAIN m
    BY <1>5 DEF KeysOf
  <1>7. ToSet(Append(a, Main(src))) = ToSet(a) \cup {Main(src)}
    <2>1. a \in Seq(DOMAIN m)
      BY <1>1, <1>6
    <2> HIDE DEF a
    <2> DEFINE w == Append(a, Main(src))
               n == Len(a)
    <2>2. /\ w \in Seq(DOMAIN m) /\ Len(w) = n + 1
          /\ w[n + 1] = Main(src) /\ \A i \in 1 .. n : w[i] = a[i]
      BY <1>6, <2>1, AppendProperties
    <2>3. DOMAIN w = 1 .. n + 1 /\ DOMAIN a = 1 .. n /\ n \in Nat
      BY <2>1, <2>2, LenProperties
    <2>4. 1 .. n + 1 = (1 .. n) \cup {n + 1}
      BY <2>3
    <2> HIDE DEF w, n
    <2> QED
      BY <2>2, <2>3, <2>4 DEF ToSet, w
  <1> QED
    BY <1>3, <1>5, <1>6, <1>7 DEF c

(* A spec is recorded under a key of its own.                              *)
Adds(m, w, vs) ==
    \E new : /\ new \notin DOMAIN m /\ DOMAIN w = DOMAIN m \cup {new}
             /\ w[new].spec = vs.spec /\ w[new].target = vs.target
             /\ \A x \in DOMAIN m : w[x].spec = m[x].spec /\ w[x].target = m[x].target

(* Recording a spec keeps the shape of the mapping and adds just it.       *)
LEMMA RecordedIs ==
    ASSUME NEW m, MapShape(m), NEW vs, SpecRecord(vs), vs.aliases = <<>>,
           NEW w, w = Recorded(m, vs)
    PROVE  MapShape(w) /\ Adds(m, w, vs)
  <1> DEFINE src == vs.spec.src
             K == KeysOf(m, src)
             c == Cardinality(K)
             alias == <<src, c>>
             a == m[Main(src)].aliases
             e == <<>>
  <1>1. c = Cardinality({x \in DOMAIN m : x[1] = src})
    BY DEF KeysOf
  <1>2. /\ IsFiniteSet(DOMAIN m) /\ m = [x \in DOMAIN m |-> m[x]]
        /\ \A x \in DOMAIN m :
              /\ SpecRecord(m[x]) /\ m[x].spec.src = x[1] /\ m[x].aliases \in Seq(DOMAIN m)
              /\ KeysOf(m, x[1]) = {x[1]} \X (0 .. Cardinality(KeysOf(m, x[1])) - 1)
              /\ ToSet(m[Main(x[1])].aliases) = {x[1]} \X (1 .. Cardinality(KeysOf(m, x[1])) - 1)
    BY DEF MapShape
  <1>3. \A s : Main(s) = <<s, 0>> /\ Main(s)[1] = s
    BY DEF Main
  <1>4. CASE Main(src) \in DOMAIN m
    <2>1. /\ c \in Nat \ {0} /\ K = {src} \X (0 .. c - 1)
          /\ ToSet(a) = {src} \X (1 .. c - 1) /\ IsFiniteSet(K)
      <3> DEFINE x == Main(src)
      <3>1. x \in DOMAIN m /\ x[1] = src
        BY <1>3, <1>4
      <3> HIDE DEF x
      <3>2. Cardinality(KeysOf(m, x[1])) \in Nat \ {0}
        BY <3>1, ShapeFinds
      <3>3. IsFiniteSet(K)
        BY <1>2, FS_Subset DEF KeysOf
      <3> QED
        BY <1>2, <1>3, <1>4, <3>1, <3>2, <3>3 DEF x
    <2>2. /\ alias \notin K /\ alias \notin DOMAIN m /\ alias[1] = src
          /\ K \cup {alias} = {src} \X (0 .. c) /\ Cardinality(K \cup {alias}) = c + 1
          /\ ToSet(a) \cup {alias} = {src} \X (1 .. c)
      <3> HIDE DEF c
      <3>1. 0 .. c = (0 .. c - 1) \cup {c} /\ c \notin 0 .. c - 1 /\ 1 .. c = (1 .. c - 1) \cup {c}
        BY <2>1
      <3>2. alias \notin K /\ alias[1] = src
        BY <2>1, <3>1
      <3>3. alias \notin DOMAIN m
        BY <3>2 DEF KeysOf
      <3>4. Cardinality(K \cup {alias}) = c + 1
        BY <2>1, <3>2, FS_AddElement DEF c
      <3> QED
        BY <2>1, <3>1, <3>2, <3>3, <3>4
    <2> DEFINE v == [m EXCEPT ![Main(src)].aliases = AliasesWith(@, alias)]
               b == Append(a, alias)
    <2>3. w = With(v, alias, vs)
      BY <1>1, <1>4 DEF Recorded
    <2>4. /\ DOMAIN v = DOMAIN m /\ v[Main(src)] = [m[Main(src)] EXCEPT !.aliases = b]
          /\ \A x \in DOMAIN m : x # Main(src) => v[x] = m[x]
      BY <1>4 DEF AliasesWith
    <2>5. /\ v[Main(src)].aliases = b /\ v[Main(src)].spec = m[Main(src)].spec
          /\ v[Main(src)].target = m[Main(src)].target /\ SpecRecord(v[Main(src)])
      <3>1. SpecRecord(m[Main(src)])
        BY <1>2, <1>4
      <3> DEFINE r == m[Main(src)]
                 s == v[Main(src)]
      <3>2. s = [r EXCEPT !.aliases = b]
        BY <2>4
      <3> HIDE DEF r, s, b
      <3>3. SpecRecord(r)
        BY <3>1 DEF r
      <3>4. s.aliases = b /\ s.spec = r.spec /\ s.target = r.target /\ SpecRecord(s)
        BY <3>2, <3>3 DEF SpecRecord
      <3> QED
        BY <3>4 DEF r, s
    <2> HIDE DEF v, b, c, K
    <2>6. /\ DOMAIN w = DOMAIN m \cup {alias} /\ w[alias] = vs
          /\ w = [x \in DOMAIN w |-> w[x]]
          /\ \A x \in DOMAIN m : w[x] = v[x]
      BY <2>2, <2>3, <2>4 DEF With
    <2>7. b \in Seq(DOMAIN w) /\ ToSet(b) = ToSet(a) \cup {alias}
      <3>1. a \in Seq(DOMAIN m)
        BY <1>2, <1>4
      <3> HIDE DEF a
      <3> DEFINE n == Len(a)
      <3>2. a \in Seq(DOMAIN w)
        <4>1. \A i \in 1 .. Len(a) : a[i] \in DOMAIN w
          BY <2>6, <3>1, ElementOfSeq
        <4> QED
          BY <3>1, <4>1, Retyped
      <3>3. /\ b \in Seq(DOMAIN w) /\ Len(b) = n + 1
            /\ b[n + 1] = alias /\ \A i \in 1 .. n : b[i] = a[i]
        BY <2>6, <3>2, AppendProperties DEF b
      <3>4. DOMAIN b = 1 .. n + 1 /\ DOMAIN a = 1 .. n /\ n \in Nat
        BY <3>1, <3>3, LenProperties
      <3>5. 1 .. n + 1 = (1 .. n) \cup {n + 1}
        BY <3>4
      <3> HIDE DEF n, alias
      <3>6. ToSet(b) = ToSet(a) \cup {alias}
        BY <3>3, <3>4, <3>5 DEF ToSet
      <3> QED
        BY <3>3, <3>6
    <2>8. \A x \in DOMAIN m : /\ w[x].spec = m[x].spec /\ w[x].target = m[x].target
                              /\ SpecRecord(w[x])
                              /\ x # Main(src) => w[x].aliases = m[x].aliases
      BY <1>2, <2>4, <2>5, <2>6, ZenonT(60)
    <2>9. /\ KeysOf(w, src) = K \cup {alias}
          /\ \A s : s # src => KeysOf(w, s) = KeysOf(m, s)
      BY <2>2, <2>6 DEF KeysOf, K
    <2>10. IsFiniteSet(DOMAIN w)
      <3> HIDE DEF alias
      <3> QED
        BY <1>2, <2>6, FS_AddElement
    <2>11. Adds(m, w, vs)
      BY <2>2, <2>6, <2>8 DEF Adds
    <2>12. c + 1 - 1 = c
      BY <2>1
    <2>13. ASSUME NEW x \in DOMAIN w
           PROVE  /\ SpecRecord(w[x]) /\ w[x].spec.src = x[1]
                  /\ w[x].aliases \in Seq(DOMAIN w)
                  /\ KeysOf(w, x[1]) = {x[1]} \X (0 .. Cardinality(KeysOf(w, x[1])) - 1)
                  /\ ToSet(w[Main(x[1])].aliases) =
                        {x[1]} \X (1 .. Cardinality(KeysOf(w, x[1])) - 1)
      <3>1. SpecRecord(w[x]) /\ w[x].spec.src = x[1]
        BY <1>2, <2>2, <2>6, <2>8
      <3>2. w[x].aliases \in Seq(DOMAIN w)
        <4>1. CASE x = alias
          BY <2>6, <4>1, EmptySeq
        <4>2. CASE x = Main(src) /\ x # alias
          BY <1>4, <2>5, <2>6, <2>7, <4>2
        <4>3. CASE x # Main(src) /\ x # alias
          <5> DEFINE d == m[x].aliases
          <5>1. x \in DOMAIN m /\ w[x].aliases = d /\ d \in Seq(DOMAIN m)
            BY <1>2, <2>6, <2>8, <4>3
          <5> HIDE DEF d
          <5>2. \A i \in 1 .. Len(d) : d[i] \in DOMAIN w
            BY <2>6, <5>1, ElementOfSeq
          <5>3. d \in Seq(DOMAIN w)
            BY <5>1, <5>2, Retyped
          <5> QED
            BY <5>1, <5>3
        <4> QED
          BY <4>1, <4>2, <4>3
      <3>3. CASE x[1] = src
        <4>1. w[Main(src)].aliases = b
          BY <1>4, <2>5, <2>6
        <4>2. Cardinality(KeysOf(w, src)) - 1 = c
          BY <2>2, <2>9, <2>12
        <4> QED
          BY <2>2, <2>7, <2>9, <3>1, <3>2, <3>3, <4>1, <4>2
      <3>4. CASE x[1] # src
        <4>1. x \in DOMAIN m /\ KeysOf(w, x[1]) = KeysOf(m, x[1])
          BY <2>2, <2>6, <2>9, <3>4
        <4>2. Main(x[1]) \in DOMAIN m /\ Main(x[1]) # Main(src)
          BY <1>3, <3>4, <4>1, ShapeFinds
        <4>3. w[Main(x[1])].aliases = m[Main(x[1])].aliases
          BY <2>8, <4>2
        <4> QED
          BY <1>2, <3>1, <3>2, <4>1, <4>3
      <3> QED
        BY <3>3, <3>4
    <2>14. MapShape(w)
      BY <2>6, <2>10, <2>13 DEF MapShape
    <2> QED
      BY <2>11, <2>14
  <1>5. CASE Main(src) \notin DOMAIN m
    <2> DEFINE new == Main(src)
    <2>1. w = With(m, new, vs)
      BY <1>5 DEF Recorded
    <2>2. /\ DOMAIN w = DOMAIN m \cup {new} /\ w[new] = vs
          /\ \A x \in DOMAIN m : w[x] = m[x]
          /\ w = [x \in DOMAIN w |-> w[x]]
      BY <1>5, <2>1 DEF With
    <2>3. \A x \in DOMAIN m : x[1] # src
      BY <1>5, ShapeFinds
    <2>4. /\ KeysOf(w, src) = {new}
          /\ \A s : s # src => KeysOf(w, s) = KeysOf(m, s)
      BY <1>3, <2>2, <2>3 DEF KeysOf
    <2>5. Cardinality(KeysOf(w, src)) = 1
      BY <2>4, FS_Singleton
    <2>6. {new} = {src} \X (0 .. 1 - 1) /\ {} = {src} \X (1 .. 1 - 1)
      <3>1. 0 .. 1 - 1 = {0} /\ 1 .. 1 - 1 = {}
        OBVIOUS
      <3> QED
        BY <1>3, <3>1
    <2>7. ToSet(e) = {} /\ e \in Seq(DOMAIN w)
      BY EmptySeq DEF ToSet
    <2> HIDE DEF new, e
    <2>8. IsFiniteSet(DOMAIN w)
      BY <1>2, <2>2, FS_AddElement
    <2>9. ASSUME NEW x \in DOMAIN w
           PROVE  /\ SpecRecord(w[x]) /\ w[x].spec.src = x[1]
                  /\ w[x].aliases \in Seq(DOMAIN w)
                  /\ KeysOf(w, x[1]) = {x[1]} \X (0 .. Cardinality(KeysOf(w, x[1])) - 1)
                  /\ ToSet(w[Main(x[1])].aliases) =
                        {x[1]} \X (1 .. Cardinality(KeysOf(w, x[1])) - 1)
      <3>1. CASE x = new
        <4>1. x[1] = src /\ Main(x[1]) = new /\ w[x] = vs /\ vs.aliases = e
          BY <1>3, <2>2, <3>1 DEF new, e
        <4> QED
          BY <2>2, <2>4, <2>5, <2>6, <2>7, <4>1
      <3>2. CASE x # new
        <4>1. x \in DOMAIN m /\ x[1] # src /\ w[x] = m[x]
          BY <2>2, <2>3, <3>2
        <4>2. Main(x[1]) \in DOMAIN m /\ w[Main(x[1])] = m[Main(x[1])]
          BY <2>2, <4>1, ShapeFinds
        <4>3. w[x].aliases \in Seq(DOMAIN w)
          <5> DEFINE d == m[x].aliases
          <5>1. w[x].aliases = d /\ d \in Seq(DOMAIN m)
            BY <1>2, <4>1
          <5> HIDE DEF d
          <5>2. \A i \in 1 .. Len(d) : d[i] \in DOMAIN w
            BY <2>2, <5>1, ElementOfSeq
          <5>3. d \in Seq(DOMAIN w)
            BY <5>1, <5>2, Retyped
          <5> QED
            BY <5>1, <5>3
        <4>4. KeysOf(w, x[1]) = KeysOf(m, x[1])
          BY <2>4, <4>1
        <4> QED
          BY <1>2, <4>1, <4>2, <4>3, <4>4
      <3> QED
        BY <3>1, <3>2
    <2>10. MapShape(w)
      BY <2>2, <2>8, <2>9 DEF MapShape
    <2>11. Adds(m, w, vs)
      <3>1. new \notin DOMAIN m
        BY <1>5 DEF new
      <3> QED
        BY <2>2, <3>1 DEF Adds
    <2> QED
      BY <2>10, <2>11
  <1> QED
    BY <1>4, <1>5

-----------------------------------------------------------------------------
(* What a walk for specs has gathered when s is still to go: the specs that *)
(* were passed, each with its target once; the others are ahead.           *)
Found(p) == Below(loaded, roots[p], <<>>)

GatherAt(h, r, m, s) ==
    /\ MapShape(m)
    /\ \A x \in DOMAIN m : \E n \in DOMAIN h :
          /\ <<m[x].target, n>> \in Below(h, r, <<>>) /\ n \notin Nodes(h, s)
          /\ h[n].spec = m[x].spec /\ m[x].spec # NoSpec /\ ~m[x].spec.broken
    /\ \A x, y \in DOMAIN m : m[x].target = m[y].target => x = y
    /\ \A z \in Below(h, r, <<>>) : h[z[2]].spec # NoSpec =>
          \/ z \in Ahead(h, s)
          \/ \E x \in DOMAIN m : m[x].target = z[1] /\ m[x].spec = h[z[2]].spec

Gathered(m, p, s) == GatherAt(loaded, roots[p], m, s)

(* What is found below the object of a part.                               *)
LEMMA FoundIs ==
    ASSUME Formed(loaded), NEW p, roots[p] \in DOMAIN loaded
    PROVE  /\ Found(p) \subseteq Keys \X DOMAIN loaded
           /\ \A z \in Found(p) : z = <<z[1], z[2]>> /\ z[1] \in Keys /\ z[2] \in DOMAIN loaded
           /\ \A z \in Found(p) : z[2] \in Desc(loaded, roots[p])
           /\ \A y \in Desc(loaded, roots[p]) : \E q \in Keys : <<q, y>> \in Found(p)
           /\ <<<<>>, roots[p]>> \in Found(p)
  <1> DEFINE e == <<>>
  <1>1. e \in Keys /\ Found(p) = Below(loaded, roots[p], e) /\ Tree(loaded)
    BY EmptySeq DEF Keys, Found, Formed
  <1>2. \A y \in Desc(loaded, roots[p]) : \E q \in Keys : <<q, y>> \in Found(p)
    BY <1>1, DescIs DEF Found
  <1> HIDE DEF e
  <1>3. Found(p) \subseteq Keys \X DOMAIN loaded
    BY <1>1, BelowTyped
  <1>4. \A z \in Found(p) : z[2] \in Desc(loaded, roots[p])
    BY <1>1, DescIs
  <1>5. <<e, roots[p]>> \in Found(p)
    BY <1>1, BelowHas
  <1>6. \A z \in Found(p) : z = <<z[1], z[2]>> /\ z[1] \in Keys /\ z[2] \in DOMAIN loaded
    BY <1>3
  <1>7. <<<<>>, roots[p]>> \in Found(p)
    BY <1>5 DEF e
  <1> QED
    BY <1>2, <1>3, <1>4, <1>6, <1>7

(* Parts of an ordinary template.                                          *)
LEMMA PlainIs ==
    ASSUME Formed(loaded), NEW p, roots[p] \in DOMAIN loaded, Plain(p)
    PROVE  /\ Singles(loaded, roots[p])
           /\ loaded[roots[p]].spec = NoSpec
           /\ \A y \in Desc(loaded, roots[p]) : \A kid \in Kids(loaded, y) :
                 loaded[kid.node].spec # NoSpec =>
                    loaded[y].kind = "map" /\ loaded[y].spec = NoSpec
  <1>1. \A y \in Desc(loaded, roots[p]) : \E z \in Found(p) : z[2] = y
    <2> TAKE y \in Desc(loaded, roots[p])
    <2>1. PICK q \in Keys : <<q, y>> \in Found(p)
      BY FoundIs
    <2> DEFINE z == <<q, y>>
    <2>2. z \in Found(p) /\ z[2] = y
      BY <2>1
    <2> QED
      BY <2>2
  <1>2. \A z \in Found(p) :
           /\ z[2] = roots[p] => loaded[z[2]].spec = NoSpec
           /\ Single(loaded, z[2])
           /\ \A kid \in Kids(loaded, z[2]) :
                 loaded[kid.node].spec # NoSpec =>
                    loaded[z[2]].kind = "map" /\ loaded[z[2]].spec = NoSpec
    BY DEF Plain, Found, Single, Kids
  <1>3. roots[p] \in Desc(loaded, roots[p])
    BY DescIs DEF Formed
  <1> QED
    BY <1>1, <1>2, <1>3 DEF Singles

(* There is nothing below a node without kids.                             *)
LEMMA BelowNothing ==
    ASSUME NEW h, Tree(h), NEW m \in DOMAIN h, NEW path \in Keys, h[m].kids = <<>>
    PROVE  Below(h, m, path) = {<<path, m>>}
  <1> DEFINE K == Kids(h, m)
             u == <<path, m>>
             B(kid) == Below(h, kid.node, path \o kid.key)
  <1>1. K = {}
    BY EmptySeq DEF Kids, ToSet
  <1>2. Below(h, m, path) = {u} \cup UNION {B(kid) : kid \in K}
    BY BelowUnfolds
  <1> HIDE DEF K, B, u
  <1>3. UNION {B(kid) : kid \in K} = {}
    BY <1>1
  <1> QED
    BY <1>2, <1>3 DEF u

(* Nothing below a spec is a spec.                                         *)
LEMMA BelowSpec ==
    ASSUME Formed(loaded), NEW p, roots[p] \in DOMAIN loaded, Plain(p),
           NEW q, NEW n, <<q, n>> \in Found(p),
           loaded[n].spec # NoSpec, ~loaded[n].spec.broken,
           NEW z \in Below(loaded, n, q), z # <<q, n>>
    PROVE  loaded[z[2]].spec = NoSpec
  <1> DEFINE v == <<q, n>>
  <1>1. v \in Found(p) /\ v[1] = q /\ v[2] = n
    OBVIOUS
  <1> HIDE DEF v
  <1>2. q \in Keys /\ n \in DOMAIN loaded /\ n \in Desc(loaded, roots[p]) /\ Tree(loaded)
    BY <1>1, FoundIs DEF Formed
  <1>3. PICK kid \in Kids(loaded, n) : z \in Below(loaded, kid.node, q \o kid.key)
    BY <1>2, BelowUnfolds
  <1>4. /\ kid.node \in DOMAIN loaded /\ kid.key \in Keys /\ loaded[kid.node].kids = <<>>
        /\ loaded[kid.node].spec = NoSpec
    BY <1>2, KidsAre, PlainIs DEF Formed
  <1> DEFINE r == q \o kid.key
             k == kid.node
             u == <<r, k>>
  <1>5. u[2] = k
    OBVIOUS
  <1>6. r \in Keys
    BY <1>2, <1>4, ConcatProperties DEF Keys
  <1> HIDE DEF r
  <1>7. Below(loaded, k, r) = {u}
    BY <1>2, <1>4, <1>6, BelowNothing
  <1>8. z = u
    BY <1>3, <1>7 DEF r
  <1> HIDE DEF u
  <1> QED
    BY <1>4, <1>5, <1>8

(* A spec is passed and recorded.                                          *)
LEMMA GatherExtract ==
    ASSUME Formed(loaded), heap = loaded, stack \in Seq(Frames(heap)),
           NEW p, roots[p] \in DOMAIN loaded, Plain(p),
           Ahead(heap, stack) \subseteq Found(p), Apart(heap, stack),
           NEW m, Gathered(m, p, stack), NEW j \in Turns,
           SpecOf(KidNode(j)) # NoSpec, ~SpecOf(KidNode(j)).broken,
           Called(j, IF Is(KidNode(j), "map") THEN "skip" ELSE "nil"),
           NEW w, w = Recorded(m, ValueSpec(KidNode(j), KidPath(j)))
    PROVE  Gathered(w, p, stack')
  <1> DEFINE n == KidNode(j)
             q == KidPath(j)
             vs == ValueSpec(n, q)
             answer == IF Is(n, "map") THEN "skip" ELSE "nil"
             one == <<q, n>>
  <1>1. Tree(heap) /\ Tree(loaded)
    BY DEF Formed
  <1>2. IsDir(n) \/ answer # "skip"
    BY DEF Is, IsDir
  <1>3. Called(j, answer)
    OBVIOUS
  <1> HIDE DEF answer
  <1>4. /\ one \in Ahead(heap, stack) /\ Ahead(heap, stack') \subseteq Ahead(heap, stack)
        /\ Ahead(heap, stack) \subseteq Ahead(heap, stack') \cup Below(heap, n, q)
    BY <1>1, <1>2, <1>3, AheadCalled, AheadSkipped
  <1>5. /\ Apart(heap, stack') /\ Nodes(heap, stack') \subseteq Nodes(heap, stack)
        /\ n \in Nodes(heap, stack) /\ n \notin Nodes(heap, stack')
    BY <1>1, <1>3, ApartCalled
  <1>6. /\ one \in Found(p) /\ n \in DOMAIN loaded
        /\ loaded[n].spec # NoSpec /\ ~loaded[n].spec.broken /\ SpecOf(n) = loaded[n].spec
    BY <1>1, <1>4, TurnIs DEF SpecOf
  <1>7. /\ vs.spec = loaded[n].spec /\ vs.target = q /\ vs.aliases = <<>> /\ SpecRecord(vs)
    BY <1>6 DEF ValueSpec, SpecRecord
  <1>8. /\ MapShape(m)
        /\ \A x \in DOMAIN m : \E k \in DOMAIN loaded :
              /\ <<m[x].target, k>> \in Found(p) /\ k \notin Nodes(loaded, stack)
              /\ loaded[k].spec = m[x].spec /\ m[x].spec # NoSpec /\ ~m[x].spec.broken
        /\ \A x, y \in DOMAIN m : m[x].target = m[y].target => x = y
        /\ \A z \in Found(p) : loaded[z[2]].spec # NoSpec =>
              \/ z \in Ahead(loaded, stack)
              \/ \E x \in DOMAIN m : m[x].target = z[1] /\ m[x].spec = loaded[z[2]].spec
    BY DEF Gathered, GatherAt, Found
  <1> DEFINE value == vs
  <1>V. w = Recorded(m, value)
    OBVIOUS
  <1>W. value.spec = loaded[n].spec /\ value.target = q /\ value.aliases = <<>> /\ SpecRecord(value)
    BY <1>7
  <1> HIDE DEF value, vs, n, q
  <1>9. MapShape(w) /\ Adds(m, w, value)
    BY <1>8, <1>V, <1>W, RecordedIs
  <1>10. PICK new :
            /\ new \notin DOMAIN m /\ DOMAIN w = DOMAIN m \cup {new}
            /\ w[new].spec = loaded[n].spec /\ w[new].target = q
            /\ \A x \in DOMAIN m : w[x].spec = m[x].spec /\ w[x].target = m[x].target
    BY <1>9, <1>W DEF Adds
  <1>11. \A x \in DOMAIN m : m[x].target # q
    <2> TAKE x \in DOMAIN m
    <2>1. PICK k \in DOMAIN loaded : <<m[x].target, k>> \in Found(p) /\ k \notin Nodes(loaded, stack)
      BY <1>8
    <2>2. k # n
      BY <1>5, <2>1
    <2> QED
      BY <1>1, <1>6, <2>1, <2>2, PlainIs, OneNode DEF Found
  <1>12. \A x \in DOMAIN w : \E k \in DOMAIN loaded :
              /\ <<w[x].target, k>> \in Found(p) /\ k \notin Nodes(loaded, stack')
              /\ loaded[k].spec = w[x].spec /\ w[x].spec # NoSpec /\ ~w[x].spec.broken
    <2> TAKE x \in DOMAIN w
    <2>1. CASE x = new
      BY <1>5, <1>6, <1>10, <2>1
    <2>2. CASE x \in DOMAIN m
      <3>1. PICK k \in DOMAIN loaded :
              /\ <<m[x].target, k>> \in Found(p) /\ k \notin Nodes(loaded, stack)
              /\ loaded[k].spec = m[x].spec /\ m[x].spec # NoSpec /\ ~m[x].spec.broken
        BY <1>8, <2>2
      <3>2. w[x].target = m[x].target /\ w[x].spec = m[x].spec
        BY <1>10, <2>2
      <3> QED
        BY <1>5, <3>1, <3>2
    <2> QED
      BY <1>10, <2>1, <2>2
  <1>13. \A x, y \in DOMAIN w : w[x].target = w[y].target => x = y
    BY <1>8, <1>10, <1>11
  <1>14. ASSUME NEW z \in Found(p), loaded[z[2]].spec # NoSpec
         PROVE  \/ z \in Ahead(loaded, stack')
                \/ \E x \in DOMAIN w : w[x].target = z[1] /\ w[x].spec = loaded[z[2]].spec
    <2>1. CASE z \in Ahead(loaded, stack)
      <3>1. CASE z = one
        <4>1. z[1] = q /\ z[2] = n
          BY <3>1
        <4> QED
          BY <1>10, <4>1
      <3>2. CASE z # one
        <4>1. z \notin Below(heap, n, q)
          BY <1>6, <1>14, <3>2, BelowSpec
        <4> QED
          BY <1>4, <2>1, <4>1
      <3> QED
        BY <3>1, <3>2
    <2>2. CASE \E x \in DOMAIN m : m[x].target = z[1] /\ m[x].spec = loaded[z[2]].spec
      BY <1>10, <2>2
    <2> QED
      BY <1>8, <1>14, <2>1, <2>2
  <1> QED
    BY <1>9, <1>12, <1>13, <1>14 DEF Gathered, GatherAt, Found

(* A node without a spec is passed, or a range is left.                    *)
LEMMA GatherPass ==
    ASSUME Formed(loaded), heap = loaded, stack \in Seq(Frames(heap)), NEW p,
           Apart(heap, stack), NEW m, Gathered(m, p, stack), NEW j \in Turns,
           SpecOf(KidNode(j)) = NoSpec, Called(j, "nil")
    PROVE  Gathered(m, p, stack')
  <1> DEFINE n == KidNode(j)
             one == <<KidPath(j), n>>
  <1>1. Tree(heap)
    BY DEF Formed
  <1> DEFINE answer == "nil"
  <1>A. answer # "skip" /\ Called(j, answer)
    OBVIOUS
  <1> HIDE DEF answer
  <1>2. Ahead(heap, stack) \subseteq Ahead(heap, stack') \cup {one}
    BY <1>1, <1>A, AheadCalled
  <1>3. Nodes(heap, stack') \subseteq Nodes(heap, stack)
    BY <1>1, <1>A, ApartCalled
  <1>4. one[2] = n /\ loaded[n].spec = NoSpec
    BY DEF SpecOf
  <1> HIDE DEF one, n
  <1>5. \A z \in Found(p) : loaded[z[2]].spec # NoSpec =>
           (z \in Ahead(loaded, stack) => z \in Ahead(loaded, stack'))
    BY <1>2, <1>4
  <1> QED
    BY <1>3, <1>5 DEF Gathered, GatherAt, Found

(* The end of a range leaves what is gathered.                             *)
LEMMA GatherLeave ==
    ASSUME heap = loaded, stack \in Seq(Frames(heap)), NEW p, Apart(heap, stack),
           NEW m, Gathered(m, p, stack), Leave
    PROVE  Gathered(m, p, stack')
  <1>1. /\ Ahead(loaded, stack') = Ahead(loaded, stack)
        /\ Nodes(loaded, stack') \subseteq Nodes(loaded, stack)
    BY AheadLeave, ApartLeave
  <1> QED
    BY <1>1 DEF Gathered, GatherAt, Found

(* A walk begins with nothing gathered, and ends with everything.          *)
NoneYet == [x \in {} |-> NoSpec]

(* Where a walk begins nothing is gathered, as all is ahead.               *)
LEMMA GatherStart ==
    ASSUME NEW h, Formed(h), NEW r \in DOMAIN h
    PROVE  GatherAt(h, r, NoneYet, Entry(r, <<>>))
  <1> DEFINE e == <<>>
             m == NoneYet
             B == Below(h, r, <<>>)
  <1>1. DOMAIN m = {} /\ m = [x \in DOMAIN m |-> m[x]]
    BY DEF NoneYet
  <1>5. B = Below(h, r, e)
    OBVIOUS
  <1> HIDE DEF m, B
  <1>2. MapShape(m)
    BY <1>1, FS_EmptySet DEF MapShape
  <1>3. e \in Keys /\ Tree(h)
    BY EmptySeq DEF Keys, Formed
  <1> HIDE DEF e
  <1>4. Ahead(h, Entry(r, e)) = Below(h, r, e)
    BY <1>3, AheadEntry
  <1> DEFINE s == Entry(r, <<>>)
  <1>6. \A z \in B : z \in Ahead(h, s)
    BY <1>4, <1>5 DEF e
  <1> HIDE DEF s
  <1> QED
    BY <1>1, <1>2, <1>6 DEF GatherAt, m, B, s

-----------------------------------------------------------------------------
(* The four parts.                                                         *)
LEMMA PartsAre ==
    /\ Len(Parts) = 4
    /\ ToSet(Parts) = {"stats", "docker", "iface", "fs"}
    /\ \A i \in 1 .. 4 : Parts[i] \in ToSet(Parts)
    /\ \A i, k \in 1 .. 4 : Parts[i] = Parts[k] => i = k
    /\ \A p \in ToSet(Parts) : \E i \in 1 .. 4 : p = Parts[i]
    /\ Parts[1] = "stats"
  <1>1. DOMAIN Parts = {1, 2, 3, 4} /\ Len(Parts) = 4
    BY DEF Parts
  <1>2. Parts[1] = "stats" /\ Parts[2] = "docker" /\ Parts[3] = "iface" /\ Parts[4] = "fs"
    BY DEF Parts
  <1>3. 1 .. 4 = {1, 2, 3, 4}
    OBVIOUS
  <1>4. ToSet(Parts) = {Parts[i] : i \in DOMAIN Parts}
    BY DEF ToSet
  <1> QED
    BY <1>1, <1>2, <1>3, <1>4

(* What a path is sought to.                                               *)
LEMMA SoughtIs ==
    ASSUME NEW h, h = heap, Tree(h), NEW r \in DOMAIN h, NEW path,
           NEW n \in Sought(r, path), n # Nowhere
    PROVE  <<path, n>> \in Below(h, r, <<>>) /\ n \in DOMAIN h
  <1> DEFINE B == Below(h, r, <<>>)
  <1>1. <<>> \in Keys
    BY EmptySeq DEF Keys
  <1>2. B \subseteq Keys \X DOMAIN h
    BY <1>1, BelowTyped
  <1>3. At(r, path) = {x[2] : x \in {y \in B : y[1] = path}}
    BY DEF At
  <1>4. n \in At(r, path)
    BY DEF Sought
  <1> HIDE DEF B
  <1>5. \A y \in B : y = <<y[1], y[2]>> /\ y[2] \in DOMAIN h
    BY <1>2
  <1>6. <<path, n>> \in B /\ n \in DOMAIN h
    BY <1>3, <1>4, <1>5
  <1> QED
    BY <1>6 DEF B

(* A path that is not empty leads further down.                            *)
LEMMA FurtherDown ==
    ASSUME NEW h, Tree(h), NEW r \in DOMAIN h, NEW path, path # <<>>,
           NEW n, <<path, n>> \in Below(h, r, <<>>)
    PROVE  n > r
  <1> DEFINE e == <<>>
             B == Below(h, r, e)
             x == <<path, n>>
  <1>1. e \in Keys
    BY EmptySeq DEF Keys
  <1>2. x \in B /\ x # <<e, r>> /\ x[2] = n
    OBVIOUS
  <1> HIDE DEF e
  <1>P. \A z \in Below(h, r, e) :
           \/ z = <<e, r>>
           \/ \E y \in Below(h, r, e) : \E kid \in Kids(h, y[2]) :
                 z = <<y[1] \o kid.key, kid.node>>
    BY <1>1, BelowParent
  <1>3. PICK y \in B : \E kid \in Kids(h, y[2]) : x = <<y[1] \o kid.key, kid.node>>
    BY <1>2, <1>P
  <1>4. PICK kid \in Kids(h, y[2]) : x = <<y[1] \o kid.key, kid.node>>
    BY <1>3
  <1>5. n = kid.node
    BY <1>2, <1>4
  <1>6. y[2] \in DOMAIN h /\ y[2] \in Desc(h, r)
    BY <1>1, <1>3, BelowTyped, DescIs
  <1>7. y[2] \in Nat /\ r \in Nat /\ y[2] >= r
    BY <1>6, DescAbove
  <1>8. n \in Nat /\ n > y[2]
    BY <1>4, <1>5, <1>6, KidsAre
  <1> QED
    BY <1>7, <1>8

-----------------------------------------------------------------------------
(* The mappings, while they are made and after it.                         *)
Settled ==
    phase \in {"extract", "defaults", "ready"} =>
       /\ Formed(loaded) /\ part \in 1 .. 4
       /\ roots \in [ToSet(Parts) -> DOMAIN loaded]
       /\ mapping = [p \in ToSet(Parts) |-> mapping[p]]

Extracting ==
    phase = "extract" =>
       /\ heap = loaded /\ stack \in Seq(Frames(loaded))
       /\ Ahead(loaded, stack) \subseteq Found(Current) /\ Apart(loaded, stack)
       /\ \A i \in part + 1 .. 4 : mapping[Parts[i]] = NoneYet
       /\ AllPlain =>
             /\ Gathered(mapping[Current], Current, stack)
             /\ \A i \in 1 .. part - 1 : Gathered(mapping[Parts[i]], Parts[i], <<>>)

Extracted ==
    phase \in {"defaults", "ready"} /\ AllPlain =>
       \A p \in ToSet(Parts) : Gathered(mapping[p], p, <<>>)

LoadInv ==
    /\ phase = "load" =>
          heap \in Templates /\ roots["stats"] = 1 /\ mapping = NoMapping /\ part = 1
    /\ Settled /\ Extracting /\ Extracted

(* LoadInv holds before any template is loaded.                            *)
LEMMA LoadInit == Init => LoadInv
  BY DEF Init, LoadInv, Settled, Extracting, Extracted

(* The parts as they are cut out.                                          *)
LEMMA DivideIs ==
    ASSUME Decoded(heap), NEW list \in Sought(1, <<"stats">>), FullList(list),
           NEW network \in Sought(First(list), <<"network">>),
           NEW ifaces, ifaces \in Sought(First(list), <<"network", "interfaces">>),
           NEW fs \in Sought(First(list), <<"filesystem">>),
           Shape(First(list), network, ifaces, fs), Divide(list, First(list), network, ifaces, fs)
    PROVE  /\ Formed(loaded') /\ heap' = loaded' /\ phase' = "extract"
           /\ roots' \in [ToSet(Parts) -> DOMAIN loaded'] /\ roots'["stats"] = First(list)
           /\ stack' = Entry(First(list), <<>>)
           /\ UNCHANGED <<part, mapping>>
  <1> DEFINE stats == First(list)
             c == Cut(list, stats, network)
  <1>1. Tree(heap) /\ 1 \in DOMAIN heap
    BY RootIs DEF Decoded
  <1>2. /\ list # Nowhere /\ network # Nowhere /\ ifaces # Nowhere /\ fs # Nowhere
        /\ FullList(ifaces) /\ FullList(fs) /\ Is(stats, "map") /\ Is(network, "map")
    BY DEF Shape, FullList, Is
  <1>3. list \in DOMAIN heap
    BY <1>1, <1>2, SoughtIs
  <1>4. \A n \in DOMAIN heap : FullList(n) => First(n) \in DOMAIN heap
    <2> SUFFICES ASSUME NEW n \in DOMAIN heap, FullList(n) PROVE First(n) \in DOMAIN heap
      OBVIOUS
    <2> DEFINE kids == heap[n].kids
    <2>1. kids \in Seq([key : Keys, node : n + 1 .. Len(heap)]) /\ kids # <<>>
      BY <1>1 DEF Tree, FullList, Keys
    <2> HIDE DEF kids
    <2>2. 1 \in DOMAIN kids
      BY <2>1, EmptySeq, LenProperties
    <2>3. kids[1] \in Kids(heap, n)
      BY <2>2 DEF Kids, ToSet, kids
    <2> QED
      BY <1>1, <2>3, KidsAre DEF First, kids
  <1>5. stats \in DOMAIN heap
    BY <1>3, <1>4
  <1> DEFINE p == <<"network">>
  <1>P. p # <<>> /\ network \in Sought(stats, p)
    OBVIOUS
  <1> HIDE DEF p, stats
  <1>6. network \in DOMAIN heap /\ <<p, network>> \in Below(heap, stats, <<>>)
    BY <1>1, <1>2, <1>5, <1>P, SoughtIs
  <1>7. network > stats
    BY <1>1, <1>5, <1>6, <1>P, FurtherDown
  <1>8. ifaces \in DOMAIN heap /\ fs \in DOMAIN heap
    BY <1>1, <1>2, <1>5, SoughtIs DEF stats
  <1>9. c = loaded' /\ heap' = loaded'
    BY DEF Divide, stats
  <1> HIDE DEF c
  <1>10. stats = First(list)
    BY DEF stats
  <1>11. Formed(c) /\ DOMAIN heap \subseteq DOMAIN c
    BY <1>2, <1>3, <1>6, <1>7, <1>10, CutFormed DEF c
  <1> DEFINE r == [stats |-> stats, docker |-> 1, iface |-> First(ifaces), fs |-> First(fs)]
  <1>12. roots' = r
    BY <1>10 DEF Divide
  <1>13. /\ stats \in DOMAIN loaded' /\ 1 \in DOMAIN loaded'
         /\ First(ifaces) \in DOMAIN loaded' /\ First(fs) \in DOMAIN loaded'
    BY <1>1, <1>2, <1>4, <1>5, <1>8, <1>9, <1>11
  <1>14. r \in [ToSet(Parts) -> DOMAIN loaded'] /\ r["stats"] = stats
    <2>1. r \in [{"stats", "docker", "iface", "fs"} -> DOMAIN loaded'] /\ r["stats"] = stats
      BY <1>13
    <2> HIDE DEF r
    <2> QED
      BY <2>1, PartsAre
  <1> HIDE DEF r
  <1> QED
    BY <1>9, <1>10, <1>11, <1>12, <1>14 DEF Divide

(* A step that leaves the parts and their mappings alone.                  *)
LEMMA KeepsLoaded ==
    ASSUME LoadInv, UNCHANGED <<loaded, roots, mapping, part>>
    PROVE  /\ AllPlain' = AllPlain
           /\ phase \in {"extract", "defaults", "ready"} => Settled'
           /\ phase \in {"defaults", "ready"} => Extracted'
  <1>1. AllPlain' = AllPlain
    BY DEF AllPlain, Plain
  <1> QED
    BY <1>1 DEF LoadInv, Settled, Extracted, Gathered

(* LoadInv holds for the parts that are cut out (Split).                   *)
LEMMA LoadSplit ==
    ASSUME LoadInv, Split
    PROVE  LoadInv'
  <1>1. phase = "load" /\ heap \in Templates /\ mapping = NoMapping /\ part = 1
    BY DEF Split, LoadInv
  <1>2. Decoded(heap)
    BY <1>1, TemplatesAssumption
  <1>3. CASE Panic
    BY <1>3 DEF Panic, LoadInv, Settled, Extracting, Extracted
  <1>4. CASE ~Panic
    <2>1. PICK list \in Sought(1, <<"stats">>) :
             /\ FullList(list)
             /\ \E network \in Sought(First(list), <<"network">>),
                   ifaces \in Sought(First(list), <<"network", "interfaces">>),
                   fs \in Sought(First(list), <<"filesystem">>) :
                      /\ Shape(First(list), network, ifaces, fs)
                      /\ Divide(list, First(list), network, ifaces, fs)
      BY <1>4 DEF Split
    <2> DEFINE r == First(list)
    <2>2. /\ Formed(loaded') /\ heap' = loaded' /\ phase' = "extract"
          /\ roots' \in [ToSet(Parts) -> DOMAIN loaded'] /\ roots'["stats"] = r
          /\ stack' = Entry(r, <<>>)
          /\ UNCHANGED <<part, mapping>>
      BY <1>2, <2>1, DivideIs
    <2> HIDE DEF r
    <2>3. mapping' = [p \in ToSet(Parts) |-> NoneYet] /\ part' = 1
      BY <1>1, <2>2 DEF NoMapping, NoneYet
    <2>4. Current' = "stats" /\ "stats" \in ToSet(Parts)
      <3>1. Parts[part'] = "stats"
        BY <2>3, PartsAre
      <3> QED
        BY <3>1, PartsAre DEF Current
    <2>5. r \in DOMAIN loaded' /\ roots'["stats"] = r
      BY <2>2, <2>4
    <2>6. Settled'
      <3>1. 1 \in 1 .. 4
        OBVIOUS
      <3> QED
        BY <2>2, <2>3, <3>1 DEF Settled
    <2>7. Tree(loaded')
      BY <2>2 DEF Formed
    <2> DEFINE e == <<>>
    <2>8. e \in Keys
      BY EmptySeq DEF Keys
    <2> HIDE DEF e
    <2>9. /\ Entry(r, e) \in Seq(Frames(loaded'))
          /\ Ahead(loaded', Entry(r, e)) = Below(loaded', r, e)
      BY <2>5, <2>7, <2>8, AheadEntry
    <2>10. Apart(loaded', Entry(r, e))
      BY ApartEntry
    <2>11. GatherAt(loaded', r, NoneYet, Entry(r, <<>>))
      BY <2>2, <2>5, GatherStart
    <2>12. \A i \in 1 .. 4 : mapping'[Parts[i]] = NoneYet
      BY <2>3, PartsAre
    <2>13. /\ \A i \in part' + 1 .. 4 : mapping'[Parts[i]] = NoneYet
           /\ 1 .. part' - 1 = {}
      <3>1. \A i \in part' + 1 .. 4 : i \in 1 .. 4
        BY <2>3
      <3> QED
        BY <2>3, <2>12, <3>1
    <2>14. mapping'["stats"] = NoneYet
      BY <2>3, <2>4
    <2>15. Extracting'
      BY <2>2, <2>4, <2>9, <2>10, <2>11, <2>13, <2>14 DEF Extracting, Found, Gathered, e
    <2> QED
      BY <2>2, <2>6, <2>15 DEF LoadInv, Extracted
  <1> QED
    BY <1>3, <1>4

-----------------------------------------------------------------------------
(* Where a walk for specs stands.                                          *)
LEMMA ExtractingIs ==
    ASSUME LoadInv, phase = "extract"
    PROVE  /\ Formed(loaded) /\ Tree(heap) /\ heap = loaded /\ part \in 1 .. 4
           /\ Current \in ToSet(Parts) /\ roots[Current] \in DOMAIN loaded
           /\ stack \in Seq(Frames(heap)) /\ Apart(heap, stack)
           /\ Ahead(heap, stack) \subseteq Found(Current)
           /\ AllPlain => Plain(Current) /\ Gathered(mapping[Current], Current, stack)
  <1>1. Settled /\ Extracting
    BY DEF LoadInv
  <1>2. Current \in ToSet(Parts)
    BY <1>1, PartsAre DEF Settled, Current
  <1> QED
    BY <1>1, <1>2 DEF Settled, Extracting, AllPlain, Formed

(* A call leaves the walk in its part.                                     *)
LEMMA ExtractMoves ==
    ASSUME LoadInv, phase = "extract", NEW j \in Turns, NEW answer, Called(j, answer),
           UNCHANGED <<heap, phase, part, roots, loaded>>,
           \A i \in (part + 1 .. 4) \cup (1 .. part - 1) :
              mapping'[Parts[i]] = mapping[Parts[i]],
           AllPlain => Gathered(mapping'[Current], Current, stack')
    PROVE  Extracting'
  <1>1. /\ Tree(heap) /\ heap = loaded /\ stack \in Seq(Frames(heap)) /\ Apart(heap, stack)
        /\ Ahead(heap, stack) \subseteq Found(Current) /\ Extracting
    BY ExtractingIs DEF LoadInv
  <1>2. stack' \in Seq(Frames(heap))
    BY <1>1, CalledIs
  <1>3. Ahead(heap, stack') \subseteq Ahead(heap, stack)
    BY <1>1, AheadCalled
  <1>4. Apart(heap, stack')
    BY <1>1, ApartCalled
  <1>5. AllPlain' = AllPlain /\ Current' = Current /\ Found(Current)' = Found(Current)
    BY DEF AllPlain, Plain, Current, Found
  <1>6. \A p, m, s : GatherAt(loaded', roots'[p], m, s) = GatherAt(loaded, roots[p], m, s)
    OBVIOUS
  <1>7. AllPlain' => /\ GatherAt(loaded', roots'[Current'], mapping'[Current'], stack')
                     /\ \A i \in 1 .. part - 1 :
                           GatherAt(loaded', roots'[Parts[i]], mapping'[Parts[i]], <<>>)
    <2> SUFFICES ASSUME AllPlain PROVE 
                     /\ GatherAt(loaded', roots'[Current], mapping'[Current], stack')
                     /\ \A i \in 1 .. part - 1 :
                           GatherAt(loaded', roots'[Parts[i]], mapping'[Parts[i]], <<>>)
      BY <1>5
    <2>1. \A i \in 1 .. part - 1 : GatherAt(loaded, roots[Parts[i]], mapping[Parts[i]], <<>>)
      BY <1>1 DEF Extracting, Gathered
    <2> QED
      BY <1>6, <2>1 DEF Gathered
  <1>8. \A i \in part + 1 .. 4 : mapping'[Parts[i]] = NoneYet
    BY <1>1 DEF Extracting
  <1> QED
    BY <1>1, <1>2, <1>3, <1>4, <1>5, <1>7, <1>8 DEF Extracting, Gathered

(* LoadInv is kept when a spec is recorded (Extract).                      *)
LEMMA LoadExtract ==
    ASSUME LoadInv, NEW j \in Turns, Extract(j)
    PROVE  LoadInv'
  <1> DEFINE answer == IF Is(KidNode(j), "map") THEN "skip" ELSE "nil"
             w == Recorded(mapping[Current], ValueSpec(KidNode(j), KidPath(j)))
  <1>1. /\ phase = "extract" /\ SpecOf(KidNode(j)) # NoSpec /\ ~SpecOf(KidNode(j)).broken
        /\ Called(j, answer) /\ mapping' = [mapping EXCEPT ![Current] = w]
        /\ UNCHANGED <<heap, phase, part, roots, left, loaded>>
    BY DEF Extract
  <1>2. /\ Formed(loaded) /\ heap = loaded /\ stack \in Seq(Frames(heap)) /\ Apart(heap, stack)
        /\ Current \in ToSet(Parts) /\ roots[Current] \in DOMAIN loaded /\ part \in 1 .. 4
        /\ Ahead(heap, stack) \subseteq Found(Current)
        /\ AllPlain => Plain(Current) /\ Gathered(mapping[Current], Current, stack)
    BY <1>1, ExtractingIs
  <1>3. ASSUME AllPlain PROVE Gathered(w, Current, stack')
    BY <1>1, <1>2, <1>3, GatherExtract
  <1>4. mapping = [p \in ToSet(Parts) |-> mapping[p]] /\ Settled
    BY <1>1 DEF LoadInv, Settled
  <1> HIDE DEF answer, w
  <1>5. /\ mapping'[Current] = w /\ mapping' = [p \in ToSet(Parts) |-> mapping'[p]]
        /\ \A p \in ToSet(Parts) : p # Current => mapping'[p] = mapping[p]
    BY <1>1, <1>2, <1>4
  <1>6. \A i \in (part + 1 .. 4) \cup (1 .. part - 1) : mapping'[Parts[i]] = mapping[Parts[i]]
    <2> TAKE i \in (part + 1 .. 4) \cup (1 .. part - 1)
    <2>1. i \in 1 .. 4 /\ i # part
      BY <1>2
    <2> QED
      BY <1>2, <1>5, <2>1, PartsAre DEF Current
  <1>7. Extracting'
    BY <1>1, <1>3, <1>5, <1>6, ExtractMoves
  <1> QED
    BY <1>1, <1>4, <1>5, <1>7 DEF LoadInv, Settled, Extracted

(* LoadInv is kept at a node without a spec (PassBy).                      *)
LEMMA LoadPassBy ==
    ASSUME LoadInv, NEW j \in Turns, PassBy(j)
    PROVE  LoadInv'
  <1> DEFINE answer == "nil"
  <1>1. /\ phase = "extract" /\ SpecOf(KidNode(j)) = NoSpec /\ Called(j, "nil")
        /\ Called(j, answer) /\ UNCHANGED <<heap, phase, part, roots, mapping, loaded>>
    BY DEF PassBy, partVars
  <1>2. /\ Formed(loaded) /\ heap = loaded /\ stack \in Seq(Frames(heap)) /\ Apart(heap, stack)
        /\ AllPlain => Gathered(mapping[Current], Current, stack)
    BY <1>1, ExtractingIs
  <1>3. AllPlain => Gathered(mapping'[Current], Current, stack')
    BY <1>1, <1>2, GatherPass
  <1> HIDE DEF answer
  <1>4. Extracting'
    BY <1>1, <1>3, ExtractMoves
  <1>5. Settled'
    BY <1>1, KeepsLoaded
  <1> QED
    BY <1>1, <1>4, <1>5 DEF LoadInv, Extracted

(* LoadInv is kept by the end of a range.                                  *)
LEMMA LoadLeave ==
    ASSUME LoadInv, ExtractLeave
    PROVE  LoadInv'
  <1>1. /\ phase = "extract" /\ Leave /\ UNCHANGED <<heap, phase, part, roots, mapping, loaded>>
    BY DEF ExtractLeave, partVars
  <1>2. /\ heap = loaded /\ stack \in Seq(Frames(heap)) /\ Apart(heap, stack)
        /\ Ahead(heap, stack) \subseteq Found(Current) /\ Extracting
        /\ AllPlain => Gathered(mapping[Current], Current, stack)
    BY <1>1, ExtractingIs DEF LoadInv
  <1>3. AllPlain => Gathered(mapping'[Current], Current, stack')
    BY <1>1, <1>2, GatherLeave
  <1>4. /\ stack' \in Seq(Frames(heap)) /\ Ahead(heap, stack') = Ahead(heap, stack)
        /\ Apart(heap, stack')
    BY <1>1, <1>2, AheadLeave, ApartLeave
  <1>5. AllPlain' = AllPlain /\ Current' = Current /\ Found(Current)' = Found(Current)
    BY <1>1 DEF AllPlain, Plain, Current, Found
  <1>6. \A p, m, s : GatherAt(loaded', roots'[p], m, s) = GatherAt(loaded, roots[p], m, s)
    BY <1>1
  <1>7. AllPlain' => GatherAt(loaded', roots'[Current'], mapping'[Current'], stack')
    BY <1>3, <1>5, <1>6 DEF Gathered
  <1>8. Extracting'
    BY <1>1, <1>2, <1>4, <1>5, <1>6, <1>7 DEF Extracting, Gathered
  <1>9. Settled'
    BY <1>1, KeepsLoaded
  <1> QED
    BY <1>1, <1>8, <1>9 DEF LoadInv, Extracted

(* LoadInv is kept from one part to the next, and to the defaults.         *)
LEMMA LoadDone ==
    ASSUME LoadInv, ExtractDone
    PROVE  LoadInv'
  <1>1. /\ phase = "extract" /\ stack = <<>> /\ UNCHANGED <<heap, roots, mapping, loaded>>
        /\ part < 4 => /\ part' = part + 1 /\ stack' = Entry(roots[Parts[part + 1]], <<>>)
                       /\ phase' = phase
        /\ ~(part < 4) => part' = 1 /\ phase' = "defaults"
    BY PartsAre DEF ExtractDone
  <1>2. /\ heap = loaded /\ Extracting /\ Settled /\ Formed(loaded) /\ Tree(loaded)
        /\ part \in 1 .. 4
        /\ AllPlain => Gathered(mapping[Current], Current, <<>>)
    BY <1>1, ExtractingIs DEF LoadInv
  <1>3. AllPlain' = AllPlain
    BY <1>1 DEF AllPlain, Plain
  <1>4. \A p, m, s : GatherAt(loaded', roots'[p], m, s) = GatherAt(loaded, roots[p], m, s)
    BY <1>1
  <1>5. AllPlain => \A i \in 1 .. part : GatherAt(loaded', roots'[Parts[i]], mapping'[Parts[i]], <<>>)
    <2> SUFFICES ASSUME AllPlain, NEW i \in 1 .. part
                 PROVE  GatherAt(loaded, roots[Parts[i]], mapping[Parts[i]], <<>>)
      BY <1>1
    <2>1. i = part \/ i \in 1 .. part - 1
      BY <1>2
    <2> QED
      BY <1>1, <1>2, <2>1 DEF Extracting, Gathered, Current
  <1>6. CASE part < 4
    <2> DEFINE p == Parts[part + 1]
               r == roots[p]
               e == <<>>
    <2>1. part' = part + 1 /\ part' \in 1 .. 4 /\ part' - 1 = part /\ p \in ToSet(Parts)
      <3>1. part + 1 \in 1 .. 4 /\ part + 1 - 1 = part
        BY <1>2, <1>6
      <3>2. p \in ToSet(Parts)
        BY <3>1, PartsAre
      <3>3. part' = part + 1
        BY <1>1, <1>6
      <3> HIDE DEF p
      <3>4. part' \in 1 .. 4
        BY <3>1, <3>3
      <3>5. part' - 1 = part
        <4>1. part \in Int
          BY <1>2
        <4> QED
          BY <3>3, <4>1
      <3> QED
        BY <3>2, <3>3, <3>4, <3>5
    <2>2. r \in DOMAIN loaded /\ Current' = p
      BY <1>1, <1>2, <2>1 DEF Settled, Current
    <2>3. stack' = Entry(r, e) /\ phase' = "extract"
      BY <1>1, <1>6
    <2>4. e \in Keys
      BY EmptySeq DEF Keys
    <2>5. GatherAt(loaded, r, NoneYet, Entry(r, <<>>))
      BY <1>2, <2>2, GatherStart
    <2>E. GatherAt(loaded, r, NoneYet, stack')
      BY <2>3, <2>5
    <2> HIDE DEF e, r
    <2>6. /\ stack' \in Seq(Frames(loaded)) /\ Ahead(loaded, stack') = Below(loaded, r, e)
          /\ Apart(loaded, stack')
      BY <1>2, <2>2, <2>3, <2>4, AheadEntry, ApartEntry
    <2>7. Found(Current)' = Below(loaded, r, e)
      BY <1>1, <2>2 DEF Found, e, r
    <2>8. /\ mapping[p] = NoneYet
          /\ \A i \in part' + 1 .. 4 : mapping[Parts[i]] = NoneYet
      <3>1. part + 1 \in part + 1 .. 4 /\ \A i \in part + 2 .. 4 : i \in part + 1 .. 4
        BY <1>2, <1>6
      <3>2. part' + 1 = part + 2
        BY <1>2, <2>1
      <3> QED
        BY <1>1, <1>2, <3>1, <3>2 DEF Extracting
    <2>9. AllPlain => GatherAt(loaded', roots'[Current'], mapping'[Current'], stack')
      BY <1>1, <2>2, <2>E, <2>8 DEF r
    <2>10. AllPlain => \A i \in 1 .. part' - 1 :
                         GatherAt(loaded', roots'[Parts[i]], mapping'[Parts[i]], <<>>)
      BY <1>5, <2>1
    <2>11. Extracting'
      BY <1>1, <1>2, <1>3, <2>3, <2>6, <2>7, <2>8, <2>9, <2>10 DEF Extracting, Gathered
    <2>12. Settled'
      BY <1>1, <1>2, <2>1, <2>3 DEF Settled
    <2> QED
      BY <2>3, <2>11, <2>12 DEF LoadInv, Extracted
  <1>7. CASE ~(part < 4)
    <2>1. part = 4 /\ part' = 1 /\ phase' = "defaults"
      BY <1>1, <1>2, <1>7
    <2>2. 1 \in 1 .. 4
      OBVIOUS
    <2>3. Settled'
      BY <1>1, <1>2, <2>1, <2>2 DEF Settled
    <2>4. AllPlain => \A p \in ToSet(Parts) : GatherAt(loaded', roots'[p], mapping'[p], <<>>)
      BY <1>5, <2>1, PartsAre
    <2>5. Extracted'
      BY <1>3, <2>4 DEF Extracted, Gathered
    <2> QED
      BY <2>1, <2>3, <2>5 DEF LoadInv, Extracting
  <1> QED
    BY <1>6, <1>7

(* LoadInv is kept by every step.                                          *)
LEMMA LoadNext == SeekInv /\ LoadInv /\ [Next]_vars => LoadInv'
  <1> SUFFICES ASSUME SeekInv, LoadInv, [Next]_vars PROVE LoadInv'
    OBVIOUS
  <1>1. CASE BeginWalk
    BY <1>1 DEF BeginWalk, LoadInv, Settled, Extracting, Extracted
  <1>2. CASE WalkOn
    <2>1. mode \in {"seek", "walk"} /\ phase' = phase
      BY <1>2 DEF WalkOn, Step, SeekCall, SeekLeave, SeekDone, WalkCall, WalkLeave, WalkDone
    <2>2. phase' = "idle"
      BY <2>1 DEF SeekInv
    <2> QED
      BY <2>2 DEF LoadInv, Settled, Extracting, Extracted
  <1>3. CASE LoadTemplateSource
    <2>1. "stats" \in ToSet(Parts)
      BY PartsAre
    <2> QED
      BY <1>3, <2>1 DEF LoadTemplateSource, LoadInv, Settled, Extracting, Extracted, NoMapping
  <1>4. CASE Panic
    BY <1>4 DEF Panic, LoadInv, Settled, Extracting, Extracted
  <1>5. CASE Split
    BY <1>5, LoadSplit
  <1>6. CASE \E j \in Turns : Extract(j) \/ ExtractPanics(j) \/ PassBy(j)
    BY <1>4, <1>6, LoadExtract, LoadPassBy DEF ExtractPanics
  <1>7. CASE ExtractLeave
    BY <1>7, LoadLeave
  <1>8. CASE ExtractDone
    BY <1>8, LoadDone
  <1>9. ASSUME phase = "defaults", phase' = phase, UNCHANGED <<loaded, roots, mapping, part>>
        PROVE  LoadInv'
    BY <1>9, KeepsLoaded DEF LoadInv, Extracting
  <1>10. CASE \E x \in left : ApplyDefault(x) \/ DefaultPanics(x)
    BY <1>4, <1>9, <1>10 DEF ApplyDefault, DefaultPanics
  <1>11. CASE DefaultsDone
    <2>1. phase = "defaults" /\ phase' \in {"defaults", "ready"} /\ UNCHANGED <<roots, mapping, loaded>>
      BY <1>11 DEF DefaultsDone
    <2>2. part' \in 1 .. 4
      <3>1. part \in 1 .. 4
        BY <2>1 DEF LoadInv, Settled
      <3>2. part' = part \/ (part < 4 /\ part' = part + 1)
        BY <1>11, PartsAre DEF DefaultsDone
      <3> QED
        BY <3>1, <3>2
    <2>3. Settled'
      BY <2>1, <2>2 DEF LoadInv, Settled
    <2>4. AllPlain' = AllPlain
      BY <2>1 DEF AllPlain, Plain
    <2>5. Extracted'
      BY <2>1, <2>4 DEF LoadInv, Extracted, Gathered
    <2> QED
      BY <2>1, <2>3, <2>5 DEF LoadInv, Extracting
  <1>12. CASE \E p \in ToSet(Parts), src \in Sources, matching \in SUBSET Patterns :
                 Insert(p, src, matching)
    <2>1. phase = "ready" /\ phase' = phase /\ UNCHANGED <<loaded, roots, mapping, part>>
      BY <1>12 DEF Insert, partVars
    <2> QED
      BY <2>1, KeepsLoaded DEF LoadInv, Extracting
  <1>13. CASE UNCHANGED vars
    <2>1. UNCHANGED <<heap, stack, phase, part, roots, mapping, left, loaded>>
      BY <1>13 DEF vars, partVars
    <2>2. AllPlain' = AllPlain /\ Current' = Current
      BY <2>1 DEF AllPlain, Plain, Current
    <2> QED
      BY <2>1, <2>2 DEF LoadInv, Settled, Extracting, Extracted, Gathered, Found
  <1> QED
    BY <1>1, <1>2, <1>3, <1>5, <1>6, <1>7, <1>8, <1>10, <1>11, <1>12, <1>13 DEF Next, Loading

(* However the maps are ranged over, every spec of a part is found by its  *)
(* source, through the aliases of its first one, and nothing else is       *)
(* (extractMapping).                                                       *)
LEMMA MappedAll ==
    ASSUME LoadInv, phase \in {"defaults", "ready"}, AllPlain, NEW p \in ToSet(Parts)
    PROVE  /\ SpecsOf(p) = {<<mapping[p][x].target, mapping[p][x].spec>> : x \in DOMAIN mapping[p]}
           /\ \A s \in SpecsOf(p) : \E x \in DOMAIN mapping[p] :
                 x[1] = s[2].src /\ s = <<mapping[p][x].target, mapping[p][x].spec>>
           /\ \A x \in DOMAIN mapping[p] : mapping[p][x].spec.src = x[1]
           /\ MapShape(mapping[p])
           /\ \A x, y \in DOMAIN mapping[p] : mapping[p][x].target = mapping[p][y].target => x = y
  <1> DEFINE m == mapping[p]
             F == Found(p)
  <1>1. Gathered(m, p, <<>>) /\ Formed(loaded) /\ roots[p] \in DOMAIN loaded
    BY DEF LoadInv, Settled, Extracted
  <1>2. \A z \in F : z = <<z[1], z[2]>>
    BY <1>1, FoundIs
  <1>3. Ahead(loaded, <<>>) = {}
    BY DEF Ahead
  <1>4. SpecsOf(p) = {<<z[1], loaded[z[2]].spec>> : z \in {z \in F : loaded[z[2]].spec # NoSpec}}
    BY DEF SpecsOf, Found
  <1> DEFINE e == <<>>
  <1>5. /\ MapShape(m)
        /\ \A x \in DOMAIN m : \E n \in DOMAIN loaded :
              /\ <<m[x].target, n>> \in F
              /\ loaded[n].spec = m[x].spec /\ m[x].spec # NoSpec
        /\ \A x, y \in DOMAIN m : m[x].target = m[y].target => x = y
        /\ \A z \in F : loaded[z[2]].spec # NoSpec =>
              \E x \in DOMAIN m : m[x].target = z[1] /\ m[x].spec = loaded[z[2]].spec
    BY <1>1, <1>3 DEF Gathered, GatherAt, Found
  <1>6. \A x \in DOMAIN m : m[x].spec.src = x[1]
    BY <1>5 DEF MapShape
  <1> HIDE DEF m, F
  <1>7. ASSUME NEW s \in SpecsOf(p)
        PROVE  \E x \in DOMAIN m : x[1] = s[2].src /\ s = <<m[x].target, m[x].spec>>
    <2>1. PICK z \in F : loaded[z[2]].spec # NoSpec /\ s = <<z[1], loaded[z[2]].spec>>
      BY <1>4, <1>7
    <2>2. PICK x \in DOMAIN m : m[x].target = z[1] /\ m[x].spec = loaded[z[2]].spec
      BY <1>5, <2>1
    <2>3. s = <<m[x].target, m[x].spec>> /\ s[2] = m[x].spec
      BY <2>1, <2>2
    <2>4. s[2].src = x[1]
      BY <1>6, <2>3
    <2> QED
      BY <2>3, <2>4
  <1>8. ASSUME NEW x \in DOMAIN m PROVE <<m[x].target, m[x].spec>> \in SpecsOf(p)
    <2>1. PICK n \in DOMAIN loaded : /\ <<m[x].target, n>> \in F
                                     /\ loaded[n].spec = m[x].spec /\ m[x].spec # NoSpec
      BY <1>5
    <2> DEFINE z == <<m[x].target, n>>
    <2>2. z \in F /\ z[1] = m[x].target /\ z[2] = n
      BY <2>1
    <2> HIDE DEF z
    <2> QED
      BY <1>4, <2>1, <2>2
  <1>9. SpecsOf(p) = {<<m[x].target, m[x].spec>> : x \in DOMAIN m}
    BY <1>7, <1>8
  <1> QED
    BY <1>5, <1>6, <1>7, <1>9 DEF m

(* Every spec of an ordinary template can be found by its source, through  *)
(* the aliases of the first one with that source, and the mappings have    *)
(* nothing else, in whatever order the maps are ranged over                *)
(* (extractMapping).                                                       *)
THEOREM EverySpecIsMapped == Spec => []AllMapped
  <1>1. LoadInv => AllMapped
    <2> SUFFICES ASSUME LoadInv, phase = "ready", AllPlain, NEW p \in ToSet(Parts)
                 PROVE
            /\ SpecsOf(p) = {<<mapping[p][x].target, mapping[p][x].spec>> :
                                x \in DOMAIN mapping[p]}
            /\ SpecsOf(p) = UNION {{<<mapping[p][x].target, mapping[p][x].spec>> :
                                       x \in ToSet(SourcePaths(p, src))}
                                     : src \in {s[2].src : s \in SpecsOf(p)}}
            /\ \A x, y \in DOMAIN mapping[p] :
                  mapping[p][x].target = mapping[p][y].target => x = y
      BY DEF AllMapped
    <2> DEFINE m == mapping[p]
               pair(x) == <<m[x].target, m[x].spec>>
               S == SpecsOf(p)
               Srcs == {s[2].src : s \in S}
               Keyed(src) == {pair(x) : x \in ToSet(SourcePaths(p, src))}
    <2>1. /\ S = {pair(x) : x \in DOMAIN m}
          /\ \A s \in S : \E x \in DOMAIN m : x[1] = s[2].src /\ s = pair(x)
          /\ \A x \in DOMAIN m : m[x].spec.src = x[1]
          /\ MapShape(m)
          /\ \A x, y \in DOMAIN m : m[x].target = m[y].target => x = y
      BY MappedAll
    <2>2. \A x \in DOMAIN m : ToSet(SourcePaths(p, x[1])) = KeysOf(m, x[1])
      <3> TAKE x \in DOMAIN m
      <3> HIDE DEF m
      <3>1. ToSet(Append(m[Main(x[1])].aliases, Main(x[1]))) = KeysOf(m, x[1])
        BY <2>1, ShapeFinds
      <3> QED
        BY <3>1 DEF SourcePaths, m
    <2> HIDE DEF m, S
    <2>3. \A src : KeysOf(m, src) = {x \in DOMAIN m : x[1] = src}
      BY DEF KeysOf
    <2>4. S \subseteq UNION {Keyed(src) : src \in Srcs}
      <3> SUFFICES ASSUME NEW s \in S PROVE s \in UNION {Keyed(src) : src \in Srcs}
        OBVIOUS
      <3>1. PICK x \in DOMAIN m : x[1] = s[2].src /\ s = pair(x)
        BY <2>1
      <3>2. s[2].src \in Srcs
        OBVIOUS
      <3>3. x \in ToSet(SourcePaths(p, s[2].src))
        BY <2>2, <2>3, <3>1
      <3>4. s \in Keyed(s[2].src)
        BY <3>1, <3>3
      <3> HIDE DEF Keyed, Srcs
      <3> QED
        BY <3>2, <3>4
    <2>5. ASSUME NEW src \in Srcs PROVE Keyed(src) \subseteq S
      <3>1. PICK s \in S : src = s[2].src
        OBVIOUS
      <3>2. PICK x \in DOMAIN m : x[1] = src
        BY <2>1, <3>1
      <3>3. ToSet(SourcePaths(p, src)) \subseteq DOMAIN m
        BY <2>2, <2>3, <3>2
      <3> QED
        BY <2>1, <3>3
    <2> HIDE DEF Keyed, Srcs
    <2>6. S = UNION {Keyed(src) : src \in Srcs}
      BY <2>4, <2>5
    <2> QED
      BY <2>1, <2>6 DEF Keyed, Srcs, S, m
  <1> QED
    BY <1>1, SeekInit, SeekNext, LoadInit, LoadNext, PTL DEF Spec

-----------------------------------------------------------------------------
(* An object made from a tree by changing the entries of one node.         *)
Reshaped(h, y, g) ==
    /\ Len(g) \in Nat /\ DOMAIN g = 1 .. Len(g) /\ Len(h) <= Len(g)
    /\ \A n \in DOMAIN g : g[n].kids # <<>> => g[n].kind \in {"map", "list"}
    /\ \A n \in DOMAIN g : n # y =>
          \/ n \in DOMAIN h /\ g[n].kids = h[n].kids
          \/ g[n].kids = <<>>
    /\ g[y].kids \in Seq([key : Keys, node : y + 1 .. Len(g)])
    /\ \A i \in DOMAIN g[y].kids :
          \/ g[y].kids[i].node \notin DOMAIN h
          \/ \E j \in DOMAIN h[y].kids : h[y].kids[j].node = g[y].kids[i].node
    /\ \A i, j \in DOMAIN g[y].kids : g[y].kids[i].node = g[y].kids[j].node => i = j

(* A tree remains one.                                                     *)
LEMMA TreeFrom ==
    ASSUME NEW h, Tree(h), NEW y \in DOMAIN h, NEW g, Reshaped(h, y, g)
    PROVE  Tree(g)
  <1> DEFINE N == Len(g)
             K(n) == [key : Keys, node : n + 1 .. N]
             e == <<>>
  <1>R. /\ N \in Nat /\ DOMAIN g = 1 .. N /\ Len(h) <= N
        /\ \A n \in DOMAIN g : g[n].kids # <<>> => g[n].kind \in {"map", "list"}
        /\ \A n \in DOMAIN g : n # y =>
              \/ n \in DOMAIN h /\ g[n].kids = h[n].kids
              \/ g[n].kids = <<>>
        /\ g[y].kids \in Seq([key : Keys, node : y + 1 .. N])
        /\ \A i \in DOMAIN g[y].kids :
              \/ g[y].kids[i].node \notin DOMAIN h
              \/ \E j \in DOMAIN h[y].kids : h[y].kids[j].node = g[y].kids[i].node
        /\ \A i, j \in DOMAIN g[y].kids : g[y].kids[i].node = g[y].kids[j].node => i = j
    BY DEF Reshaped
  <1>1. /\ Len(h) \in Nat \ {0} /\ DOMAIN h = 1 .. Len(h)
        /\ \A n \in DOMAIN h : h[n].kids \in Seq([key : Keys, node : n + 1 .. Len(h)])
    BY DEF Tree, Keys
  <1>2. DOMAIN e = {} /\ \A S : e \in Seq(S)
    BY EmptySeq
  <1>3. N \in Nat \ {0} /\ y \in DOMAIN g
    BY <1>1, <1>R
  <1>4. ASSUME NEW n \in DOMAIN g PROVE g[n].kids \in Seq(K(n))
    <2>1. CASE n = y
      BY <1>R, <2>1
    <2>2. CASE g[n].kids = e
      BY <1>2, <2>2
    <2>3. CASE n \in DOMAIN h /\ g[n].kids = h[n].kids
      <3> DEFINE s == h[n].kids
                 Old == [key : Keys, node : n + 1 .. Len(h)]
                 New == K(n)
      <3>1. Old \subseteq New
        BY <1>1, <1>R, <2>3
      <3>2. s \in Seq(Old)
        BY <1>1, <2>3
      <3> HIDE DEF Old, New, s
      <3>3. \A i \in 1 .. Len(s) : s[i] \in New
        BY <3>1, <3>2, ElementOfSeq
      <3>4. s \in Seq(New)
        BY <3>2, <3>3, Retyped
      <3> QED
        BY <2>3, <3>4 DEF s, New
    <2> QED
      BY <1>R, <2>1, <2>2, <2>3
  <1>5. ASSUME NEW m \in DOMAIN g, NEW k \in DOMAIN g,
               NEW i \in DOMAIN g[m].kids, NEW j \in DOMAIN g[k].kids,
               g[m].kids[i].node = g[k].kids[j].node
        PROVE  m = k /\ i = j
    <2>1. \A n \in DOMAIN g : \A x \in DOMAIN g[n].kids :
             n # y => /\ n \in DOMAIN h /\ g[n].kids = h[n].kids /\ x \in DOMAIN h[n].kids
                      /\ g[n].kids[x].node \in DOMAIN h
      <3> TAKE n \in DOMAIN g
      <3> TAKE x \in DOMAIN g[n].kids
      <3> HAVE n # y
      <3>1. g[n].kids # e
        BY <1>2
      <3>2. n \in DOMAIN h /\ g[n].kids = h[n].kids
        BY <1>R, <3>1
      <3>3. h[n].kids[x] \in Kids(h, n)
        BY <3>2 DEF Kids, ToSet
      <3> QED
        BY <3>2, <3>3, KidsAre
    <2>2. \A n, l \in DOMAIN h : \A x \in DOMAIN h[n].kids, z \in DOMAIN h[l].kids :
             h[n].kids[x].node = h[l].kids[z].node => n = l /\ x = z
      BY DEF Tree
    <2>3. CASE m # y /\ k # y
      <3>1. /\ m \in DOMAIN h /\ g[m].kids = h[m].kids /\ i \in DOMAIN h[m].kids
            /\ k \in DOMAIN h /\ g[k].kids = h[k].kids /\ j \in DOMAIN h[k].kids
        BY <2>1, <2>3
      <3>2. h[m].kids[i].node = h[k].kids[j].node
        BY <1>5, <3>1
      <3> QED
        BY <2>2, <3>1, <3>2
    <2>4. ASSUME NEW n \in DOMAIN g, n # y, NEW x \in DOMAIN g[n].kids, NEW z \in DOMAIN g[y].kids,
                 g[n].kids[x].node = g[y].kids[z].node
          PROVE  FALSE
      <3>1. /\ n \in DOMAIN h /\ x \in DOMAIN h[n].kids /\ g[n].kids = h[n].kids
            /\ g[y].kids[z].node \in DOMAIN h
        BY <2>1, <2>4
      <3>2. PICK l \in DOMAIN h[y].kids : h[y].kids[l].node = g[y].kids[z].node
        BY <1>R, <3>1
      <3> QED
        BY <2>2, <2>4, <3>1, <3>2
    <2> QED
      BY <1>5, <1>R, <2>3, <2>4
  <1> HIDE DEF N
  <1>6. \A n \in DOMAIN g : g[n].kids \in Seq([key : Seq(STRING), node : n + 1 .. N])
    BY <1>4 DEF Keys
  <1> QED
    BY <1>3, <1>5, <1>6, <1>R DEF Tree, N

(* The entries without that of a key.                                      *)
LEMMA WithoutKeyIs ==
    ASSUME NEW S, NEW kids \in Seq(S), NEW key,
           \A i, j \in DOMAIN kids : kids[i].key = kids[j].key => i = j,
           NEW w, w = WithoutKey(kids, key)
    PROVE  /\ w \in Seq(S)
           /\ \A i \in DOMAIN w : \E j \in DOMAIN kids : w[i] = kids[j] /\ kids[j].key # key
           /\ \A j \in DOMAIN kids : kids[j].key # key => \E i \in DOMAIN w : w[i] = kids[j]
           /\ \A i, j \in DOMAIN w : w[i].key = w[j].key => i = j
  <1> DEFINE old == EntriesOf(kids, key)
  <1>1. CASE old = {}
    <2>1. w = kids
      BY <1>1 DEF WithoutKey
    <2>2. \A j \in DOMAIN kids : kids[j].key # key
      BY <1>1 DEF EntriesOf
    <2> QED
      BY <2>1, <2>2
  <1>2. CASE old # {}
    <2> DEFINE x == CHOOSE z \in old : TRUE
               n == Len(kids)
    <2>1. x \in DOMAIN kids /\ kids[x].key = key
      BY <1>2 DEF EntriesOf
    <2>2. w = RemoveAt(kids, x)
      BY <1>2 DEF WithoutKey
    <2> HIDE DEF x
    <2>3. /\ w \in Seq(S) /\ Len(w) = n - 1
          /\ \A i \in 1 .. Len(w) : w[i] = IF i < x THEN kids[i] ELSE kids[i + 1]
      <3> DEFINE v == RemoveAt(kids, x)
      <3>1. /\ v \in Seq(S) /\ Len(v) = n - 1
            /\ \A i \in 1 .. Len(v) : v[i] = IF i < x THEN kids[i] ELSE kids[i + 1]
        BY <2>1, RemoveAtIs
      <3>2. w = v
        BY <2>2
      <3> HIDE DEF v
      <3> QED
        BY <3>1, <3>2
    <2>4. DOMAIN w = 1 .. n - 1 /\ DOMAIN kids = 1 .. n /\ n \in Nat /\ x \in 1 .. n
      BY <2>1, <2>3, LenProperties
    <2> HIDE DEF n
    <2> DEFINE f(i) == IF i < x THEN i ELSE i + 1
    <2>5. \A i \in 1 .. n - 1 : f(i) \in 1 .. n /\ f(i) # x /\ w[i] = kids[f(i)]
      BY <2>3, <2>4
    <2>6. \A j \in 1 .. n : j # x => \E i \in 1 .. n - 1 : f(i) = j
      <3> TAKE j \in 1 .. n
      <3> HAVE j # x
      <3>1. CASE j < x
        <4>1. j \in 1 .. n - 1 /\ f(j) = j
          BY <2>4, <3>1
        <4> QED
          BY <4>1
      <3>2. CASE ~(j < x)
        <4>1. j - 1 \in 1 .. n - 1 /\ f(j - 1) = j
          BY <2>4, <3>2
        <4> QED
          BY <4>1
      <3> QED
        BY <3>1, <3>2
    <2>7. \A i, j \in 1 .. n - 1 : f(i) = f(j) => i = j
      BY <2>4
    <2> HIDE DEF f
    <2>8. \A i \in DOMAIN w : f(i) \in DOMAIN kids /\ f(i) # x /\ w[i] = kids[f(i)]
      BY <2>4, <2>5
    <2>9. \A j \in DOMAIN kids : kids[j].key # key => \E i \in DOMAIN w : w[i] = kids[j]
      <3> TAKE j \in DOMAIN kids
      <3> HAVE kids[j].key # key
      <3>1. PICK i \in 1 .. n - 1 : f(i) = j
        BY <2>1, <2>4, <2>6
      <3> QED
        BY <2>4, <2>8, <3>1
    <2>10. \A i, j \in DOMAIN w : w[i].key = w[j].key => i = j
      <3> TAKE i, j \in DOMAIN w
      <3> HAVE w[i].key = w[j].key
      <3>1. f(i) = f(j)
        BY <2>8
      <3> QED
        BY <2>4, <2>7, <3>1
    <2>11. \A j \in DOMAIN kids : j # x => kids[j].key # key
      BY <2>1
    <2> QED
      BY <2>3, <2>8, <2>9, <2>10, <2>11
  <1> QED
    BY <1>1, <1>2

-----------------------------------------------------------------------------
(* Objects of ordinary parts: nodes A of h, with what is below them.       *)
Ordinary(h, A) ==
    /\ Formed(h) /\ A \subseteq DOMAIN h
    /\ \A y \in A :
          /\ Single(h, y)
          /\ h[y].spec # NoSpec => ~h[y].spec.broken
          /\ \A kid \in Kids(h, y) :
                /\ kid.node \in A
                /\ h[kid.node].spec # NoSpec => h[y].kind = "map" /\ h[y].spec = NoSpec

(* The entry of a spec in its map.                                         *)
Slot(h, A, y, k) ==
    y \in A /\ k \in Kids(h, y) /\ h[k.node].spec # NoSpec

Cleared(r) == r.kind = "leaf" /\ r.kids = <<>> /\ r.spec = NoSpec

(* A leaf that stands for a spec of g in h: the node of the spec, or a new *)
(* one.                                                                    *)
Fresh(g, h, n, U) ==
    /\ n \in DOMAIN h /\ Cleared(h[n])
    /\ n \in DOMAIN g => g[n].spec # NoSpec /\ n \notin U

FromOld(g, h, y, kid, U) ==
    \E k \in Kids(g, y) :
       /\ k.key = kid.key
       /\ \/ kid = k /\ (g[k.node].spec = NoSpec \/ k.node \in U)
          \/ g[k.node].spec # NoSpec /\ Fresh(g, h, kid.node, U)

(* What applyDefaults and the insertions make of the nodes A of g: h, with *)
(* the specs U still to be replaced.                                       *)
CleanNode(g, h, y, U) ==
    /\ h[y].kind = g[y].kind /\ h[y].spec = NoSpec /\ Single(h, y)
    /\ \A kid \in Kids(g, y) : g[kid.node].spec = NoSpec => kid \in Kids(h, y)
    /\ \A kid \in Kids(h, y) : FromOld(g, h, y, kid, U)

Clean(g, A, h, U) ==
    /\ Tree(h) /\ DOMAIN g \subseteq DOMAIN h /\ \A n \in DOMAIN h : Whole(h[n])
    /\ U \subseteq {n \in A : g[n].spec # NoSpec}
    /\ \A s \in U : h[s].kids = g[s].kids
    /\ \A y \in A : g[y].spec = NoSpec => CleanNode(g, h, y, U)

(* Nothing is replaced at first.                                           *)
LEMMA CleanStart ==
    ASSUME NEW g, NEW A, Ordinary(g, A)
    PROVE  Clean(g, A, g, {n \in A : g[n].spec # NoSpec})
  <1> DEFINE U == {n \in A : g[n].spec # NoSpec}
  <1>1. \A y \in A : \A kid \in Kids(g, y) : FromOld(g, g, y, kid, U)
    BY DEF Ordinary, FromOld
  <1> QED
    BY <1>1 DEF Clean, CleanNode, Ordinary, Formed

(* A kid of a map, by its key.                                             *)
LEMMA CleanKid ==
    ASSUME NEW g, NEW A, Ordinary(g, A), NEW h, NEW U, Clean(g, A, h, U),
           NEW y, NEW k, Slot(g, A, y, k), NEW kid \in Kids(h, y), kid.key = k.key
    PROVE  (kid = k /\ k.node \in U) \/ Fresh(g, h, kid.node, U)
  <1>1. CleanNode(g, h, y, U) /\ Single(g, y)
    BY DEF Slot, Clean, Ordinary
  <1>2. PICK k1 \in Kids(g, y) :
           /\ k1.key = kid.key
           /\ \/ kid = k1 /\ (g[k1.node].spec = NoSpec \/ k1.node \in U)
              \/ g[k1.node].spec # NoSpec /\ Fresh(g, h, kid.node, U)
    BY <1>1 DEF CleanNode, FromOld
  <1>3. k1 = k
    BY <1>1, <1>2, OneKey DEF Slot
  <1> QED
    BY <1>2, <1>3 DEF Slot

(* What is below a part then: what was, but leaves for the specs.          *)
UpTo(g, A, h, r, U, q, n) ==
    /\ n \in DOMAIN h
    /\ \/ /\ <<q, n>> \in Below(g, r, <<>>) /\ n \in A
          /\ g[n].spec = NoSpec \/ n \in U
       \/ /\ Fresh(g, h, n, U)
          /\ \E s \in A : <<q, s>> \in Below(g, r, <<>>) /\ g[s].spec # NoSpec

(* What is below a node is what was there or stands for a spec that was.   *)
LEMMA CleanBelow ==
    ASSUME NEW g, NEW A, Ordinary(g, A), NEW h, NEW U, Clean(g, A, h, U),
           NEW r \in A, g[r].spec = NoSpec,
           NEW q, NEW n, <<q, n>> \in Below(h, r, <<>>)
    PROVE  UpTo(g, A, h, r, U, q, n)
  <1> DEFINE e == <<>>
             B == Below(g, r, e)
             R == {z \in Keys \X DOMAIN h : UpTo(g, A, h, r, U, z[1], z[2])}
             v == <<q, n>>
  <1>1. /\ e \in Keys /\ r \in DOMAIN g /\ r \in DOMAIN h /\ Tree(g) /\ Tree(h)
        /\ DOMAIN g \subseteq DOMAIN h
    BY EmptySeq DEF Keys, Ordinary, Formed, Clean
  <1>2. <<e, r>> \in B
    BY <1>1, BelowHas
  <1>V. v \in Below(h, r, e) /\ v[1] = q /\ v[2] = n
    OBVIOUS
  <1>D. \A p, m : UpTo(g, A, h, r, U, p, m) <=>
           /\ m \in DOMAIN h
           /\ \/ <<p, m>> \in B /\ m \in A /\ (g[m].spec = NoSpec \/ m \in U)
              \/ /\ Fresh(g, h, m, U)
                 /\ \E s \in A : <<p, s>> \in B /\ g[s].spec # NoSpec
    BY DEF UpTo
  <1> HIDE DEF e, B, v
  <1>3. <<e, r>> \in R
    BY <1>1, <1>2, <1>D
  <1>4. ASSUME NEW p \in Keys, NEW y \in DOMAIN h, NEW kid \in Kids(h, y), <<p, y>> \in R
        PROVE  <<p \o kid.key, kid.node>> \in R
    <2> DEFINE t == p \o kid.key
               m == kid.node
    <2>1. kid.key \in Keys /\ m \in DOMAIN h
      BY <1>1, KidsAre
    <2>2. t \in Keys
      BY <2>1, ConcatProperties DEF Keys
    <2>3. UpTo(g, A, h, r, U, p, y)
      BY <1>4
    <2>4. \A k \in Kids(g, y) : y \in A /\ <<p, y>> \in B => <<p \o k.key, k.node>> \in B
      BY <1>1, BelowCloses DEF B
    <2> HIDE DEF t
    <2>5. CASE <<p, y>> \in B /\ y \in A /\ g[y].spec = NoSpec
      <3>1. PICK k \in Kids(g, y) :
               /\ k.key = kid.key
               /\ \/ kid = k /\ (g[k.node].spec = NoSpec \/ k.node \in U)
                  \/ g[k.node].spec # NoSpec /\ Fresh(g, h, m, U)
        BY <2>5 DEF Clean, CleanNode, FromOld
      <3>2. <<t, k.node>> \in B /\ k.node \in A
        BY <2>4, <2>5, <3>1 DEF t, Ordinary
      <3>3. UpTo(g, A, h, r, U, t, m)
        BY <1>D, <2>1, <3>1, <3>2
      <3> QED
        BY <2>1, <2>2, <3>3 DEF t
    <2>6. CASE <<p, y>> \in B /\ y \in A /\ g[y].spec # NoSpec /\ y \in U
      <3>1. kid \in Kids(g, y)
        BY <2>6 DEF Clean, Kids
      <3>2. <<t, m>> \in B /\ m \in A /\ g[m].spec = NoSpec
        BY <2>4, <2>6, <3>1 DEF t, Ordinary
      <3>3. UpTo(g, A, h, r, U, t, m)
        BY <1>D, <2>1, <3>2
      <3> QED
        BY <2>1, <2>2, <3>3 DEF t
    <2>7. CASE Fresh(g, h, y, U)
      <3>1. Kids(h, y) = {}
        BY <2>7, EmptySeq DEF Fresh, Cleared, Kids, ToSet
      <3> QED
        BY <3>1
    <2> QED
      BY <1>D, <2>3, <2>5, <2>6, <2>7
  <1> HIDE DEF R
  <1>5. Below(h, r, e) \subseteq R
    BY <1>1, <1>3, <1>4, BelowLeast
  <1>6. v \in R
    BY <1>5, <1>V
  <1> QED
    BY <1>6, <1>V DEF R

(* The directories of a part stay where they are.                          *)
LEMMA CleanStays ==
    ASSUME NEW g, NEW A, Ordinary(g, A), NEW h, NEW U, Clean(g, A, h, U),
           NEW r \in A, g[r].spec = NoSpec,
           NEW q, NEW n, <<q, n>> \in Below(g, r, <<>>), g[n].spec = NoSpec, g[n].kids # <<>>
    PROVE  <<q, n>> \in Below(h, r, <<>>)
  <1> DEFINE e == <<>>
             B == Below(h, r, e)
             R == {z \in Keys \X A : z \in B \/ g[z[2]].spec # NoSpec \/ g[z[2]].kids = e}
             v == <<q, n>>
  <1>1. /\ e \in Keys /\ r \in DOMAIN g /\ r \in DOMAIN h /\ Tree(g) /\ Tree(h)
        /\ DOMAIN g \subseteq DOMAIN h
    BY EmptySeq DEF Keys, Ordinary, Formed, Clean
  <1>2. <<e, r>> \in B
    BY <1>1, BelowHas
  <1>V. v \in Below(g, r, e) /\ v[2] = n /\ g[n].kids # e
    OBVIOUS
  <1> HIDE DEF e, B, v
  <1>3. <<e, r>> \in R
    BY <1>1, <1>2
  <1>4. ASSUME NEW p \in Keys, NEW y \in DOMAIN g, NEW kid \in Kids(g, y), <<p, y>> \in R
        PROVE  <<p \o kid.key, kid.node>> \in R
    <2> DEFINE t == p \o kid.key
               m == kid.node
               u == <<t, m>>
    <2>1. kid.key \in Keys /\ m \in A /\ y \in A
      BY <1>1, <1>4, KidsAre DEF Ordinary
    <2>2. t \in Keys /\ u[2] = m
      BY <2>1, ConcatProperties DEF Keys
    <2>3. g[y].kids # e
      <3>1. g[y].kids = e => Kids(g, y) = {}
        BY EmptySeq DEF Kids, ToSet, e
      <3> QED
        BY <3>1
    <2>U. u \in Keys \X A
      BY <2>1, <2>2
    <2> HIDE DEF t
    <2>4. CASE g[y].spec # NoSpec
      <3>1. g[m].kids = e
        BY <2>1, <2>4 DEF Ordinary, Formed, e
      <3> QED
        BY <2>2, <2>U, <3>1 DEF t
    <2>5. CASE g[y].spec = NoSpec
      <3>1. <<p, y>> \in B
        BY <1>4, <2>3, <2>5
      <3>2. CASE g[m].spec # NoSpec
        BY <2>2, <2>U, <3>2 DEF t
      <3>3. CASE g[m].spec = NoSpec
        <4>1. kid \in Kids(h, y)
          BY <2>1, <2>5, <3>3 DEF Clean, CleanNode
        <4>2. u \in B
          BY <1>1, <3>1, <4>1, BelowCloses DEF t, B
        <4> QED
          BY <2>U, <4>2 DEF t
      <3> QED
        BY <3>2, <3>3
    <2> QED
      BY <2>4, <2>5
  <1> HIDE DEF R
  <1>5. Below(g, r, e) \subseteq R
    BY <1>1, <1>3, <1>4, BelowLeast
  <1>6. v \in R
    BY <1>5, <1>V
  <1>7. v \in B
    BY <1>6, <1>V DEF R
  <1> QED
    BY <1>7 DEF v, B, e

-----------------------------------------------------------------------------
(* A node of a heap replaced, and a node more.                             *)
IsSequence(v) == \E S : v \in Seq(S)

AllWhole(h) == \A n \in DOMAIN h : Whole(h[n])

NodeSet(h, t, L) == [h EXCEPT ![t] = L]

(* What a replaced node leaves of the heap.                                *)
LEMMA NodeReplaced ==
    ASSUME NEW h, Tree(h), NEW t \in DOMAIN h, NEW L, NEW v, v = NodeSet(h, t, L)
    PROVE  /\ Len(v) = Len(h) /\ DOMAIN v = DOMAIN h /\ v[t] = L
           /\ \A m \in DOMAIN h : m # t => v[m] = h[m]
           /\ IsSequence(v)
  <1> DEFINE n == Len(h)
             G == {v[m] : m \in DOMAIN h}
  <1>1. n \in Nat /\ DOMAIN h = 1 .. n
    BY DEF Tree
  <1>2. /\ DOMAIN v = DOMAIN h /\ v[t] = L
        /\ \A m \in DOMAIN h : m # t => v[m] = h[m]
        /\ v = [m \in DOMAIN h |-> v[m]]
    BY DEF NodeSet
  <1> HIDE DEF n
  <1>3. v \in [1 .. n -> G]
    BY <1>1, <1>2
  <1> HIDE DEF G
  <1>4. v \in Seq(G)
    BY <1>1, <1>3, SeqDef
  <1>5. Len(v) = n
    <2>1. DOMAIN v = 1 .. Len(v) /\ Len(v) \in Nat
      BY <1>4, LenProperties
    <2> DEFINE l == Len(v)
    <2>2. l \in Nat /\ n \in Nat /\ 1 .. l = 1 .. n
      BY <1>1, <1>2, <2>1
    <2> HIDE DEF l
    <2>3. l = n
      BY ONLY <2>2
    <2> QED
      BY <2>3 DEF l
  <1> QED
    BY <1>2, <1>4, <1>5 DEF n, IsSequence

(* What a new node leaves of the heap.                                     *)
LEMMA NodeAdded ==
    ASSUME NEW u, IsSequence(u), NEW L, NEW v, v = Append(u, L), NEW n, n = Len(u)
    PROVE  /\ n \in Nat /\ Len(v) = n + 1 /\ DOMAIN v = 1 .. n + 1 /\ v[n + 1] = L
           /\ \A m \in 1 .. n : v[m] = u[m]
  <1>S. PICK S : u \in Seq(S)
    BY DEF IsSequence
  <1> DEFINE G == S \cup {L}
  <1>0. n \in Nat
    BY <1>S, LenProperties
  <1>1. \A i \in 1 .. Len(u) : u[i] \in G
    BY <1>S, ElementOfSeq
  <1>2. L \in G
    OBVIOUS
  <1> HIDE DEF G
  <1>3. u \in Seq(G)
    BY <1>1, <1>S, Retyped
  <1>4. /\ v \in Seq(G) /\ Len(v) = n + 1 /\ v[n + 1] = L
        /\ \A m \in 1 .. n : v[m] = u[m]
    BY <1>2, <1>3, AppendProperties
  <1>5. DOMAIN v = 1 .. n + 1
    BY <1>4, LenProperties
  <1> QED
    BY <1>0, <1>4, <1>5

-----------------------------------------------------------------------------
(* What a change to the map y, or to a leaf, leaves as it was.             *)
LEMMA FreshStays ==
    ASSUME NEW g, NEW h, NEW U, NEW n, Fresh(g, h, n, U), NEW v, NEW s,
           DOMAIN h \subseteq DOMAIN v, v[n] = h[n] \/ Cleared(v[n])
    PROVE  Fresh(g, v, n, U \ {s})
  BY DEF Fresh

Touched(g, h, U, y, s, v) ==
    /\ DOMAIN h \subseteq DOMAIN v
    /\ \A n \in DOMAIN h : n # y =>
          v[n] = h[n] \/ (Cleared(v[n]) /\ (n = s \/ Fresh(g, h, n, U)))

(* The nodes that are not touched stay clean.                              *)
LEMMA CleanCarry ==
    ASSUME NEW g, NEW A, Ordinary(g, A), NEW h, NEW U, Clean(g, A, h, U),
           NEW y, NEW k, Slot(g, A, y, k), NEW v, Touched(g, h, U, y, k.node, v),
           NEW b \in A, g[b].spec = NoSpec, b # y
    PROVE  CleanNode(g, v, b, U \ {k.node})
  <1> DEFINE s == k.node
  <1>1. /\ CleanNode(g, h, b, U) /\ b \in DOMAIN h /\ b \in DOMAIN g /\ y \in DOMAIN g
        /\ Tree(g) /\ Tree(h) /\ k \in Kids(g, y) /\ g[s].spec # NoSpec
    BY DEF Clean, Ordinary, Formed, Slot
  <1>T. /\ DOMAIN h \subseteq DOMAIN v
        /\ \A n \in DOMAIN h : n # y =>
              v[n] = h[n] \/ (Cleared(v[n]) /\ (n = k.node \/ Fresh(g, h, n, U)))
    BY DEF Touched
  <1>2. v[b] = h[b]
    BY <1>1, <1>T DEF Fresh
  <1>3. Kids(v, b) = Kids(h, b) /\ (Single(h, b) => Single(v, b))
    BY <1>2 DEF Kids, Single
  <1>4. ASSUME NEW kid \in Kids(h, b) PROVE FromOld(g, v, b, kid, U \ {s})
    <2>1. PICK l \in Kids(g, b) :
             /\ l.key = kid.key
             /\ \/ kid = l /\ (g[l.node].spec = NoSpec \/ l.node \in U)
                \/ g[l.node].spec # NoSpec /\ Fresh(g, h, kid.node, U)
      BY <1>1, <1>4 DEF CleanNode, FromOld
    <2>2. l.node # s
      BY <1>1, <2>1, OneParent
    <2>3. CASE kid = l /\ (g[l.node].spec = NoSpec \/ l.node \in U)
      BY <2>1, <2>2, <2>3 DEF FromOld
    <2>4. CASE g[l.node].spec # NoSpec /\ Fresh(g, h, kid.node, U)
      <3> DEFINE n == kid.node
      <3>1. n \in DOMAIN h /\ Cleared(h[n])
        BY <2>4 DEF Fresh
      <3>2. n # y
        <4>1. n \in DOMAIN g => g[n].spec # NoSpec
          BY <2>4 DEF Fresh
        <4>2. g[y].spec = NoSpec
          BY <1>1 DEF Slot, Ordinary
        <4> QED
          BY <1>1, <4>1, <4>2
      <3>3. v[n] = h[n] \/ Cleared(v[n])
        BY <1>T, <3>1, <3>2
      <3>4. Fresh(g, v, n, U \ {s})
        BY <1>T, <2>4, <3>3, FreshStays
      <3> QED
        BY <2>1, <2>4, <3>4 DEF FromOld
    <2> QED
      BY <2>1, <2>3, <2>4
  <1> QED
    BY <1>1, <1>2, <1>3, <1>4 DEF CleanNode

(* The default, or a value, in place of a spec or of an earlier value.     *)
LEMMA CleanReplace ==
    ASSUME NEW g, NEW A, Ordinary(g, A), NEW h, NEW U, Clean(g, A, h, U),
           NEW y, NEW k, Slot(g, A, y, k), NEW kid \in Kids(h, y), kid.key = k.key,
           NEW val, NEW v, v = NodeSet(h, kid.node, Leaf(val))
    PROVE  Clean(g, A, v, U \ {k.node})
  <1> DEFINE s == k.node
             t == kid.node
             L == Leaf(val)
             e == <<>>
  <1>1. /\ Tree(h) /\ Tree(g) /\ y \in A /\ y \in DOMAIN g /\ y \in DOMAIN h
        /\ A \subseteq DOMAIN g /\ DOMAIN g \subseteq DOMAIN h
        /\ k \in Kids(g, y) /\ g[s].spec # NoSpec /\ g[y].spec = NoSpec
        /\ U \subseteq {n \in A : g[n].spec # NoSpec}
        /\ CleanNode(g, h, y, U) /\ Single(h, y)
    BY DEF Clean, CleanNode, Ordinary, Formed, Slot
  <1>2. t \in DOMAIN h
    BY <1>1, KidsAre
  <1>3. L.kids = e /\ L.kind = "leaf" /\ L.spec = NoSpec /\ Whole(L) /\ Cleared(L)
    BY DEF Leaf, Whole, Cleared
  <1>N. v = NodeSet(h, t, L)
    OBVIOUS
  <1> HIDE DEF t, s, L
  <1>4. /\ Len(v) = Len(h) /\ DOMAIN v = DOMAIN h /\ v[t] = L
        /\ \A m \in DOMAIN h : m # t => v[m] = h[m]
    BY <1>1, <1>2, <1>N, NodeReplaced
  <1>5. (kid = k /\ s \in U) \/ Fresh(g, h, t, U)
    BY CleanKid DEF t, s
  <1>6. /\ t \notin U \ {s} /\ t # y
        /\ \A b \in A : g[b].spec = NoSpec => b # t
    BY <1>1, <1>5 DEF t, s, Fresh
  <1>7. Tree(v)
    <2>1. \A S : e \in Seq(S) /\ DOMAIN e = {}
      BY EmptySeq
    <2>2. Len(v) \in Nat /\ DOMAIN v = 1 .. Len(v) /\ Len(h) <= Len(v)
      BY <1>1, <1>4 DEF Tree
    <2>3. \A n \in DOMAIN v : v[n].kids # <<>> => v[n].kind \in {"map", "list"}
      BY <1>1, <1>3, <1>4 DEF Tree
    <2>4. \A n \in DOMAIN v : n # t => n \in DOMAIN h /\ v[n].kids = h[n].kids
      BY <1>4
    <2>5. v[t].kids = e
      BY <1>3, <1>4
    <2>6. v[t].kids \in Seq([key : Keys, node : t + 1 .. Len(v)]) /\ DOMAIN v[t].kids = {}
      BY <2>1, <2>5
    <2>7. \A n \in DOMAIN v : n # t =>
             \/ n \in DOMAIN h /\ v[n].kids = h[n].kids
             \/ v[n].kids = <<>>
      BY <2>4
    <2>8. /\ \A i \in DOMAIN v[t].kids :
                \/ v[t].kids[i].node \notin DOMAIN h
                \/ \E j \in DOMAIN h[t].kids : h[t].kids[j].node = v[t].kids[i].node
          /\ \A i, j \in DOMAIN v[t].kids : v[t].kids[i].node = v[t].kids[j].node => i = j
      BY <2>6
    <2> HIDE DEF e
    <2>9. Reshaped(h, t, v)
      BY <2>2, <2>3, <2>6, <2>7, <2>8 DEF Reshaped
    <2> QED
      BY <1>1, <1>2, <2>9, TreeFrom
  <1>8. \A n \in DOMAIN h : n # y =>
           v[n] = h[n] \/ (Cleared(v[n]) /\ (n = s \/ Fresh(g, h, n, U)))
    BY <1>3, <1>4, <1>5 DEF t, s
  <1>9. ASSUME NEW b \in A, g[b].spec = NoSpec, b # y
        PROVE  CleanNode(g, v, b, U \ {s})
    <2>1. DOMAIN h \subseteq DOMAIN v
      BY <1>4
    <2>2. \A n \in DOMAIN h : n # y =>
             v[n] = h[n] \/ (Cleared(v[n]) /\ (n = k.node \/ Fresh(g, h, n, U)))
      BY <1>8 DEF s
    <2>3. Touched(g, h, U, y, k.node, v)
      BY <2>1, <2>2 DEF Touched
    <2>4. CleanNode(g, v, b, U \ {k.node})
      BY <1>9, <2>3, CleanCarry
    <2> QED
      BY <2>4 DEF s
  <1>10. v[y] = h[y] /\ Kids(v, y) = Kids(h, y) /\ Single(v, y)
    BY <1>1, <1>4, <1>6 DEF Kids, Single
  <1>11. ASSUME NEW c \in Kids(h, y) PROVE FromOld(g, v, y, c, U \ {s})
    <2>1. PICK l \in Kids(g, y) :
             /\ l.key = c.key
             /\ \/ c = l /\ (g[l.node].spec = NoSpec \/ l.node \in U)
                \/ g[l.node].spec # NoSpec /\ Fresh(g, h, c.node, U)
      BY <1>1, <1>11 DEF CleanNode, FromOld
    <2>2. CASE g[l.node].spec # NoSpec /\ Fresh(g, h, c.node, U)
      <3>1. c.node \in DOMAIN h
        BY <2>2 DEF Fresh
      <3>2. v[c.node] = h[c.node] \/ Cleared(v[c.node])
        BY <1>3, <1>4, <3>1
      <3>3. Fresh(g, v, c.node, U \ {s})
        BY <1>4, <2>2, <3>2, FreshStays
      <3> QED
        BY <2>1, <2>2, <3>3 DEF FromOld
    <2>3. CASE c = l /\ l.node # s
      BY <2>1, <2>2, <2>3 DEF FromOld
    <2>4. CASE c = l /\ l.node = s
      <3>1. l = k
        BY <1>1, <2>4, OneParent DEF s
      <3>2. c = kid
        BY <1>1, <1>11, <2>4, <3>1, OneKey
      <3>3. v[s] = L /\ s \in DOMAIN v /\ c.node = s
        BY <1>2, <1>4, <2>4, <3>2 DEF t
      <3>4. Fresh(g, v, s, U \ {s})
        BY <1>1, <1>3, <3>3 DEF Fresh
      <3>5. g[l.node].spec # NoSpec
        BY <1>1, <2>4
      <3> QED
        BY <2>1, <3>3, <3>4, <3>5 DEF FromOld
    <2> QED
      BY <2>1, <2>2, <2>3, <2>4
  <1>12. CleanNode(g, v, y, U \ {s})
    BY <1>1, <1>10, <1>11 DEF CleanNode
  <1>13. \A n \in DOMAIN v : Whole(v[n])
    BY <1>3, <1>4 DEF Clean
  <1>14. \A n \in U \ {s} : v[n].kids = g[n].kids
    BY <1>1, <1>4, <1>6 DEF Clean
  <1>15. Clean(g, A, v, U \ {s})
    BY <1>1, <1>4, <1>7, <1>9, <1>12, <1>13, <1>14 DEF Clean
  <1> QED
    BY <1>15 DEF s

-----------------------------------------------------------------------------
(* The entries of one map changed.                                         *)
KidsSet(h, y, w) == [h EXCEPT ![y].kids = w]

(* What changed entries leave of the heap.                                 *)
LEMMA KidsChanged ==
    ASSUME NEW h, Tree(h), AllWhole(h), NEW y \in DOMAIN h, NEW w,
           NEW v, v = KidsSet(h, y, w)
    PROVE  /\ Len(v) = Len(h) /\ DOMAIN v = DOMAIN h /\ v[y].kids = w
           /\ v[y].kind = h[y].kind /\ v[y].spec = h[y].spec /\ v[y].val = h[y].val
           /\ AllWhole(v) /\ (\A n \in DOMAIN h : n # y => v[n] = h[n])
           /\ IsSequence(v)
  <1> DEFINE L == [h[y] EXCEPT !.kids = w]
  <1>1. v = NodeSet(h, y, L)
    BY DEF KidsSet, NodeSet
  <1>2. /\ L.kids = w /\ L.kind = h[y].kind /\ L.spec = h[y].spec /\ L.val = h[y].val /\ Whole(L)
    <2> DEFINE r == h[y]
    <2>1. Whole(r)
      BY DEF AllWhole
    <2>2. L = [r EXCEPT !.kids = w]
      OBVIOUS
    <2> HIDE DEF L, r
    <2>3. L.kids = w /\ L.kind = r.kind /\ L.spec = r.spec /\ L.val = r.val /\ Whole(L)
      BY <2>1, <2>2 DEF Whole
    <2> QED
      BY <2>3 DEF r
  <1> HIDE DEF L
  <1>3. /\ Len(v) = Len(h) /\ DOMAIN v = DOMAIN h /\ v[y] = L
        /\ \A m \in DOMAIN h : m # y => v[m] = h[m]
        /\ IsSequence(v)
    BY <1>1, NodeReplaced
  <1>4. AllWhole(v)
    BY <1>2, <1>3 DEF AllWhole
  <1> QED
    BY <1>2, <1>3, <1>4

(* The default of a spec that has none: its entry goes.                    *)
LEMMA CleanDelete ==
    ASSUME NEW g, NEW A, Ordinary(g, A), NEW h, NEW U, Clean(g, A, h, U),
           NEW y, NEW k, Slot(g, A, y, k), NEW target, <<Base(target)>> = k.key,
           NEW v, v = Delete(h, y, target)
    PROVE  Clean(g, A, v, U \ {k.node})
  <1> DEFINE s == k.node
             key == k.key
             w == WithoutKey(h[y].kids, key)
             kids == h[y].kids
  <1>1. /\ Tree(h) /\ Tree(g) /\ y \in A /\ y \in DOMAIN g /\ y \in DOMAIN h
        /\ A \subseteq DOMAIN g /\ DOMAIN g \subseteq DOMAIN h
        /\ k \in Kids(g, y) /\ g[s].spec # NoSpec /\ g[y].spec = NoSpec /\ g[y].kind = "map"
        /\ U \subseteq {n \in A : g[n].spec # NoSpec}
        /\ CleanNode(g, h, y, U) /\ Single(h, y) /\ h[y].kind = g[y].kind
        /\ AllWhole(h)
    BY DEF Clean, CleanNode, Ordinary, Formed, Slot, AllWhole
  <1>2. v = KidsSet(h, y, w)
    BY DEF Delete, KidsSet
  <1> DEFINE S == [key : Keys, node : y + 1 .. Len(h)]
  <1>3. /\ kids \in Seq(S)
        /\ \A i, j \in DOMAIN kids : kids[i].key = kids[j].key => i = j
    BY <1>1 DEF Tree, Single, Keys
  <1>4. w = WithoutKey(kids, key)
    OBVIOUS
  <1> HIDE DEF w, kids, S, s, key
  <1>5. /\ w \in Seq(S)
        /\ \A i \in DOMAIN w : \E j \in DOMAIN kids : w[i] = kids[j] /\ kids[j].key # key
        /\ \A j \in DOMAIN kids : kids[j].key # key => \E i \in DOMAIN w : w[i] = kids[j]
        /\ \A i, j \in DOMAIN w : w[i].key = w[j].key => i = j
    BY <1>3, <1>4, WithoutKeyIs
  <1>6. /\ Len(v) = Len(h) /\ DOMAIN v = DOMAIN h /\ v[y].kids = w
        /\ v[y].kind = h[y].kind /\ v[y].spec = h[y].spec
        /\ AllWhole(v) /\ \A n \in DOMAIN h : n # y => v[n] = h[n]
    BY <1>1, <1>2, KidsChanged
  <1>7. /\ Kids(v, y) = {c \in Kids(h, y) : c.key # key}
    <2>1. Kids(v, y) = {w[i] : i \in DOMAIN w} /\ Kids(h, y) = {kids[j] : j \in DOMAIN kids}
      BY <1>6 DEF Kids, ToSet, kids
    <2> QED
      BY <1>5, <2>1
  <1>8. Single(v, y)
    <2>1. \A c \in Kids(v, y) : Len(c.key) = 1
      BY <1>1, <1>7 DEF Single
    <2> QED
      BY <1>5, <1>6, <2>1 DEF Single
  <1>9. Tree(v)
    <2>1. Len(v) \in Nat /\ DOMAIN v = 1 .. Len(v) /\ Len(h) <= Len(v)
      BY <1>1, <1>6 DEF Tree
    <2>2. \A n \in DOMAIN v : v[n].kids # <<>> => v[n].kind \in {"map", "list"}
      BY <1>1, <1>6, ZenonT(60) DEF Tree
    <2>3. \A n \in DOMAIN v : n # y =>
             \/ n \in DOMAIN h /\ v[n].kids = h[n].kids
             \/ v[n].kids = <<>>
      BY <1>6
    <2>4. v[y].kids \in Seq([key : Keys, node : y + 1 .. Len(v)])
      BY <1>5, <1>6 DEF S
    <2>5. \A i \in DOMAIN v[y].kids : \E j \in DOMAIN h[y].kids : h[y].kids[j] = v[y].kids[i]
      BY <1>5, <1>6 DEF kids
    <2>6. \A i, j \in DOMAIN v[y].kids : v[y].kids[i].node = v[y].kids[j].node => i = j
      <3> SUFFICES ASSUME NEW i \in DOMAIN w, NEW j \in DOMAIN w, w[i].node = w[j].node
                   PROVE  i = j
        BY <1>6
      <3>1. w[i] \in Kids(h, y) /\ w[j] \in Kids(h, y)
        BY <1>5 DEF Kids, ToSet, kids
      <3>2. w[i] = w[j]
        BY <1>1, <3>1, OneParent
      <3> QED
        BY <1>5, <3>2
    <2>7. Reshaped(h, y, v)
      BY <2>1, <2>2, <2>3, <2>4, <2>5, <2>6 DEF Reshaped
    <2> QED
      BY <1>1, <2>7, TreeFrom
  <1>10. Touched(g, h, U, y, s, v)
    BY <1>6 DEF Touched
  <1>11. ASSUME NEW b \in A, g[b].spec = NoSpec, b # y
         PROVE  CleanNode(g, v, b, U \ {s})
    BY <1>10, <1>11, CleanCarry DEF s
  <1>12. ASSUME NEW c \in Kids(v, y) PROVE FromOld(g, v, y, c, U \ {s})
    <2>1. c \in Kids(h, y) /\ c.key # key
      BY <1>7
    <2>2. PICK l \in Kids(g, y) :
             /\ l.key = c.key
             /\ \/ c = l /\ (g[l.node].spec = NoSpec \/ l.node \in U)
                \/ g[l.node].spec # NoSpec /\ Fresh(g, h, c.node, U)
      BY <1>1, <2>1 DEF CleanNode, FromOld
    <2>3. l.node # s
      BY <1>1, <2>1, <2>2, OneParent DEF s, key
    <2>4. CASE c = l /\ (g[l.node].spec = NoSpec \/ l.node \in U)
      BY <2>2, <2>3, <2>4 DEF FromOld
    <2>5. CASE g[l.node].spec # NoSpec /\ Fresh(g, h, c.node, U)
      <3>1. c.node # y
        BY <1>1, <2>5 DEF Fresh
      <3>2. Fresh(g, v, c.node, U \ {s})
        BY <1>6, <2>5, <3>1 DEF Fresh
      <3> QED
        BY <2>2, <2>5, <3>2 DEF FromOld
    <2> QED
      BY <2>2, <2>4, <2>5
  <1>13. \A c \in Kids(g, y) : g[c.node].spec = NoSpec => c \in Kids(v, y)
    <2> SUFFICES ASSUME NEW c \in Kids(g, y), g[c.node].spec = NoSpec PROVE c \in Kids(v, y)
      OBVIOUS
    <2>1. c \in Kids(h, y)
      BY <1>1 DEF CleanNode
    <2>2. c.key # key
      <3>1. Single(g, y) /\ c # k
        BY <1>1 DEF Ordinary, s
      <3> QED
        BY <1>1, <3>1, OneKey DEF key
    <2> QED
      BY <1>7, <2>1, <2>2
  <1>14. CleanNode(g, v, y, U \ {s})
    BY <1>1, <1>6, <1>8, <1>12, <1>13 DEF CleanNode
  <1>15. \A n \in U \ {s} : n # y /\ v[n].kids = g[n].kids
    BY <1>1, <1>6 DEF Clean
  <1>16. Clean(g, A, v, U \ {s})
    BY <1>1, <1>6, <1>9, <1>11, <1>14, <1>15 DEF Clean, AllWhole
  <1> QED
    BY <1>16 DEF s

(* A value where there is none.                                            *)
Grown(h, y, key, val) ==
    Append(KidsSet(h, y, Append(h[y].kids, [key |-> key, node |-> Len(h) + 1])), Leaf(val))

Larger(h, y, N, new, L, v) ==
    /\ N \in Nat /\ N \notin DOMAIN h /\ DOMAIN v = DOMAIN h \cup {N} /\ Len(v) = N
    /\ DOMAIN v = 1 .. N /\ v[N] = L
    /\ v[y].kids = Append(h[y].kids, new)
    /\ v[y].kind = h[y].kind /\ v[y].spec = h[y].spec /\ v[y].val = h[y].val
    /\ AllWhole(v) /\ \A n \in DOMAIN h : n # y => v[n] = h[n]

(* What a map that has grown looks like, and the rest of its object.       *)
LEMMA GrownIs ==
    ASSUME NEW h, Tree(h), AllWhole(h), NEW y \in DOMAIN h,
           NEW key, NEW val, NEW v, v = Grown(h, y, key, val)
    PROVE  Larger(h, y, Len(h) + 1, [key |-> key, node |-> Len(h) + 1], Leaf(val), v)
  <1> DEFINE N == Len(h) + 1
             new == [key |-> key, node |-> N]
             w == Append(h[y].kids, new)
             u == KidsSet(h, y, w)
             n == Len(h)
             L == Leaf(val)
  <1>1. v = Append(u, L)
    BY DEF Grown
  <1>2. n \in Nat /\ DOMAIN h = 1 .. n
    BY DEF Tree
  <1> HIDE DEF w, L
  <1>3. /\ Len(u) = n /\ DOMAIN u = DOMAIN h /\ u[y].kids = w
        /\ u[y].kind = h[y].kind /\ u[y].spec = h[y].spec /\ u[y].val = h[y].val
        /\ AllWhole(u) /\ IsSequence(u) /\ \A m \in DOMAIN h : m # y => u[m] = h[m]
    BY KidsChanged
  <1> HIDE DEF u
  <1>4. /\ Len(v) = n + 1 /\ DOMAIN v = 1 .. n + 1 /\ v[n + 1] = L
        /\ \A m \in 1 .. n : v[m] = u[m]
    BY <1>1, <1>3, NodeAdded
  <1>5. n + 1 \in Nat /\ n + 1 \notin 1 .. n /\ 1 .. n + 1 = 1 .. n \cup {n + 1} /\ N = n + 1
    BY <1>2
  <1>6. Whole(L)
    BY DEF L, Leaf, Whole
  <1> HIDE DEF n
  <1>7. AllWhole(v)
    BY <1>2, <1>3, <1>4, <1>5, <1>6 DEF AllWhole
  <1> HIDE DEF N, new
  <1>8. Larger(h, y, N, new, L, v)
    BY <1>2, <1>3, <1>4, <1>5, <1>7 DEF w, Larger
  <1> QED
    BY <1>8 DEF L, N, new

(* A new leaf in the place of a spec leaves the object clean.              *)
LEMMA CleanGrow ==
    ASSUME NEW g, NEW A, Ordinary(g, A), NEW h, NEW U, Clean(g, A, h, U),
           NEW y, NEW k, Slot(g, A, y, k), \A c \in Kids(h, y) : c.key # k.key,
           NEW val, NEW v, v = Grown(h, y, k.key, val)
    PROVE  Clean(g, A, v, U \ {k.node})
  <1> DEFINE s == k.node
             key == k.key
             kids == h[y].kids
             N == Len(h) + 1
             new == [key |-> key, node |-> N]
             w == Append(kids, new)
             L == Leaf(val)
             e == <<>>
  <1>1. /\ Tree(h) /\ Tree(g) /\ y \in A /\ y \in DOMAIN g /\ y \in DOMAIN h
        /\ A \subseteq DOMAIN g /\ DOMAIN g \subseteq DOMAIN h
        /\ k \in Kids(g, y) /\ g[s].spec # NoSpec /\ g[y].spec = NoSpec /\ g[y].kind = "map"
        /\ U \subseteq {n \in A : g[n].spec # NoSpec}
        /\ CleanNode(g, h, y, U) /\ Single(h, y) /\ h[y].kind = g[y].kind
        /\ AllWhole(h) /\ Single(g, y)
    BY DEF Clean, CleanNode, Ordinary, Formed, Slot, AllWhole
  <1>2. key \in Keys /\ Len(key) = 1
    BY <1>1, KidsAre DEF Single
  <1>3. /\ N \in Nat /\ N \notin DOMAIN h /\ DOMAIN v = DOMAIN h \cup {N} /\ Len(v) = N
        /\ DOMAIN v = 1 .. N /\ v[N] = L /\ v[y].kids = w
        /\ v[y].kind = h[y].kind /\ v[y].spec = h[y].spec
        /\ AllWhole(v) /\ \A n \in DOMAIN h : n # y => v[n] = h[n]
    <2>1. Larger(h, y, N, new, L, v)
      BY <1>1, GrownIs
    <2> HIDE DEF N, new, L
    <2> QED
      BY <2>1 DEF Larger, kids
  <1>4. L.kids = e /\ L.kind = "leaf" /\ L.spec = NoSpec /\ Cleared(L)
    BY DEF Leaf, Cleared
  <1>5. new.key = key /\ new.node = N
    OBVIOUS
  <1> DEFINE S == [key : Keys, node : y + 1 .. N]
             m == Len(kids)
  <1>6. kids \in Seq(S) /\ new \in S
    <2> DEFINE Old == [key : Keys, node : y + 1 .. Len(h)]
    <2>1. kids \in Seq(Old)
      BY <1>1 DEF Tree, Keys
    <2>2. Len(h) \in Nat /\ DOMAIN h = 1 .. Len(h)
      BY <1>1 DEF Tree
    <2>3. Old \subseteq S /\ new \in S
      BY <1>1, <1>2, <2>2
    <2> HIDE DEF Old, S, kids
    <2>4. \A i \in 1 .. Len(kids) : kids[i] \in S
      BY <2>1, <2>3, ElementOfSeq
    <2> QED
      BY <2>1, <2>3, <2>4, Retyped
  <1> HIDE DEF s, key, kids, N, new, L, S
  <1>7. /\ w \in Seq(S) /\ Len(w) = m + 1 /\ w[m + 1] = new /\ \A i \in 1 .. m : w[i] = kids[i]
    BY <1>6, AppendProperties
  <1>8. DOMAIN w = 1 .. m + 1 /\ DOMAIN kids = 1 .. m /\ m \in Nat
    BY <1>6, <1>7, LenProperties
  <1>9. 1 .. m + 1 = (1 .. m) \cup {m + 1} /\ m + 1 \notin 1 .. m
    BY <1>8
  <1> HIDE DEF w, m
  <1>10. Kids(v, y) = Kids(h, y) \cup {new}
    <2>1. Kids(v, y) = {w[i] : i \in DOMAIN w} /\ Kids(h, y) = {kids[i] : i \in DOMAIN kids}
      BY <1>3 DEF Kids, ToSet, kids
    <2> QED
      BY <1>7, <1>8, <1>9, <2>1
  <1>11. \A i \in DOMAIN kids : kids[i] \in Kids(h, y) /\ kids[i].node \in DOMAIN h /\ kids[i].key # key
    <2> TAKE i \in DOMAIN kids
    <2>1. kids[i] \in Kids(h, y)
      BY DEF Kids, ToSet, kids
    <2> QED
      BY <1>1, <2>1, KidsAre DEF key
  <1>12. \A i \in DOMAIN w : (i \in DOMAIN kids /\ w[i] = kids[i]) \/ (i = m + 1 /\ w[i] = new)
    BY <1>7, <1>8, <1>9
  <1>13. Single(v, y)
    <2>1. \A c \in Kids(v, y) : Len(c.key) = 1
      BY <1>1, <1>2, <1>5, <1>10 DEF Single
    <2>2. \A i, j \in DOMAIN kids : kids[i].key = kids[j].key => i = j
      BY <1>1 DEF Single, kids
    <2>3. \A i, j \in DOMAIN w : w[i].key = w[j].key => i = j
      BY <1>5, <1>11, <1>12, <2>2
    <2> QED
      BY <1>3, <2>1, <2>3 DEF Single
  <1>14. Tree(v)
    <2>1. Len(v) \in Nat /\ DOMAIN v = 1 .. Len(v) /\ Len(h) <= Len(v)
      <3>1. Len(h) \in Nat
        BY <1>1 DEF Tree
      <3> QED
        BY <1>3, <3>1 DEF N
    <2>2. \A n \in DOMAIN v : v[n].kids # <<>> => v[n].kind \in {"map", "list"}
      <3> TAKE n \in DOMAIN v
      <3> HAVE v[n].kids # <<>>
      <3>1. CASE n = y
        BY <1>1, <1>3, <3>1
      <3>2. CASE n \in DOMAIN h /\ n # y
        BY <1>1, <1>3, <3>2 DEF Tree
      <3>3. CASE n = N
        BY <1>3, <1>4, <3>3
      <3> QED
        BY <1>3, <3>1, <3>2, <3>3
    <2>3. \A n \in DOMAIN v : n # y =>
             \/ n \in DOMAIN h /\ v[n].kids = h[n].kids
             \/ v[n].kids = <<>>
      BY <1>3, <1>4
    <2>4. v[y].kids \in Seq([key : Keys, node : y + 1 .. Len(v)])
      BY <1>3, <1>7 DEF S
    <2>5. \A i \in DOMAIN w :
             \/ w[i].node \notin DOMAIN h
             \/ \E j \in DOMAIN kids : kids[j].node = w[i].node
      BY <1>3, <1>5, <1>12
    <2>6. \A i, j \in DOMAIN kids : kids[i].node = kids[j].node => i = j
      BY <1>1 DEF Tree, kids
    <2>7. \A i, j \in DOMAIN w : w[i].node = w[j].node => i = j
      BY <1>3, <1>5, <1>11, <1>12, <2>6
    <2>8. Reshaped(h, y, v)
      BY <1>3, <2>1, <2>2, <2>3, <2>4, <2>5, <2>7, ZenonT(60) DEF Reshaped, kids
    <2> QED
      BY <1>1, <2>8, TreeFrom
  <1>15. Touched(g, h, U, y, s, v)
    BY <1>3 DEF Touched
  <1>16. ASSUME NEW b \in A, g[b].spec = NoSpec, b # y
         PROVE  CleanNode(g, v, b, U \ {s})
    BY <1>15, <1>16, CleanCarry DEF s
  <1>17. ASSUME NEW c \in Kids(h, y) PROVE FromOld(g, v, y, c, U \ {s})
    <2>1. c.key # key
      BY <1>17 DEF key
    <2>2. PICK l \in Kids(g, y) :
             /\ l.key = c.key
             /\ \/ c = l /\ (g[l.node].spec = NoSpec \/ l.node \in U)
                \/ g[l.node].spec # NoSpec /\ Fresh(g, h, c.node, U)
      BY <1>1, <1>17 DEF CleanNode, FromOld
    <2>3. l.node # s
      BY <1>1, <2>1, <2>2, OneParent DEF s, key
    <2>4. CASE c = l /\ (g[l.node].spec = NoSpec \/ l.node \in U)
      BY <2>2, <2>3, <2>4 DEF FromOld
    <2>5. CASE g[l.node].spec # NoSpec /\ Fresh(g, h, c.node, U)
      <3>1. c.node # y
        BY <1>1, <2>5 DEF Fresh
      <3>2. Fresh(g, v, c.node, U \ {s})
        BY <1>3, <2>5, <3>1 DEF Fresh
      <3> QED
        BY <2>2, <2>5, <3>2 DEF FromOld
    <2> QED
      BY <2>2, <2>4, <2>5
  <1>18. FromOld(g, v, y, new, U \ {s})
    <2>1. Fresh(g, v, N, U \ {s})
      BY <1>1, <1>3, <1>4 DEF Fresh
    <2> QED
      BY <1>1, <1>5, <2>1 DEF FromOld, s, key
  <1>19. CleanNode(g, v, y, U \ {s})
    BY <1>1, <1>3, <1>10, <1>13, <1>17, <1>18 DEF CleanNode
  <1>20. \A n \in U \ {s} : n # y /\ v[n].kids = g[n].kids
    BY <1>1, <1>3 DEF Clean
  <1>21. Clean(g, A, v, U \ {s})
    BY <1>1, <1>3, <1>14, <1>16, <1>19, <1>20 DEF Clean, AllWhole
  <1> QED
    BY <1>21 DEF s

(* What a value is put into: the entry of the spec, or a new one.          *)
Assigned(h, y, key, val, v) ==
    \/ \E kid \in Kids(h, y) : kid.key = key /\ v = NodeSet(h, kid.node, Leaf(val))
    \/ (\A kid \in Kids(h, y) : kid.key # key) /\ v = Grown(h, y, key, val)

(* What Assign does: one of the two.                                       *)
LEMMA AssignIs ==
    ASSUME NEW h, NEW y, NEW target, NEW val, NEW v, v = Assign(h, y, target, val)
    PROVE  Assigned(h, y, <<Base(target)>>, val, v)
  <1> DEFINE key == <<Base(target)>>
             kids == h[y].kids
             old == EntriesOf(kids, key)
  <1>1. CASE old = {}
    <2>1. \A kid \in Kids(h, y) : kid.key # key
      BY <1>1 DEF EntriesOf, Kids, ToSet
    <2>2. Put(kids, key, Len(h) + 1) = Append(kids, [key |-> key, node |-> Len(h) + 1])
      BY <1>1 DEF Put
    <2>3. v = Append([h EXCEPT ![y].kids = Put(@, key, Len(h) + 1)], Leaf(val))
      BY <1>1 DEF Assign
    <2>4. v = Grown(h, y, key, val)
      BY <2>2, <2>3 DEF Grown, KidsSet
    <2> HIDE DEF key
    <2>5. Assigned(h, y, key, val, v)
      BY <2>1, <2>4 DEF Assigned
    <2> QED
      BY <2>5 DEF key
  <1>2. CASE old # {}
    <2> DEFINE x == CHOOSE z \in old : TRUE
               kid == kids[x]
    <2>1. x \in DOMAIN kids /\ kids[x].key = key
      BY <1>2 DEF EntriesOf
    <2>2. v = NodeSet(h, kid.node, Leaf(val))
      BY <1>2 DEF Assign, NodeSet
    <2> HIDE DEF x
    <2>3. kid \in Kids(h, y) /\ kid.key = key
      BY <2>1 DEF Kids, ToSet
    <2> HIDE DEF key, kid
    <2>4. Assigned(h, y, key, val, v)
      BY <2>2, <2>3 DEF Assigned
    <2> QED
      BY <2>4 DEF key
  <1> QED
    BY <1>1, <1>2

(* A value assigned in the place of a spec leaves the object clean.        *)
LEMMA CleanAssign ==
    ASSUME NEW g, NEW A, Ordinary(g, A), NEW h, NEW U, Clean(g, A, h, U),
           NEW y, NEW k, Slot(g, A, y, k), NEW target, <<Base(target)>> = k.key,
           NEW val, NEW v, v = Assign(h, y, target, val)
    PROVE  Clean(g, A, v, U \ {k.node})
  <1> DEFINE key == k.key
             b == <<Base(target)>>
  <1>1. \/ \E kid \in Kids(h, y) : kid.key = key /\ v = NodeSet(h, kid.node, Leaf(val))
        \/ (\A kid \in Kids(h, y) : kid.key # key) /\ v = Grown(h, y, key, val)
    <2>1. Assigned(h, y, b, val, v)
      BY AssignIs
    <2>2. b = key
      OBVIOUS
    <2> HIDE DEF b, key
    <2> QED
      BY <2>1, <2>2 DEF Assigned
  <1>2. ASSUME NEW kid \in Kids(h, y), kid.key = key, v = NodeSet(h, kid.node, Leaf(val))
        PROVE  Clean(g, A, v, U \ {k.node})
    BY <1>2, CleanReplace
  <1>3. CASE (\A kid \in Kids(h, y) : kid.key # key) /\ v = Grown(h, y, key, val)
    BY <1>3, CleanGrow
  <1> QED
    BY <1>1, <1>2, <1>3

(* Where the target of a spec is sought: its map and no other.             *)
LEMMA ParentIs ==
    ASSUME NEW g, NEW A, Ordinary(g, A), NEW U, Clean(g, A, heap, U),
           NEW r \in A, g[r].spec = NoSpec, Singles(g, r),
           NEW y, NEW k, Slot(g, A, y, k), NEW q, <<q, y>> \in Below(g, r, <<>>)
    PROVE  Sought(r, q) = {y} /\ Is(y, "map")
  <1> DEFINE e == <<>>
             B == Below(heap, r, e)
             P == {x[2] : x \in {z \in B : z[1] = q}}
  <1>1. /\ e \in Keys /\ Tree(heap) /\ Tree(g) /\ r \in DOMAIN g /\ r \in DOMAIN heap
        /\ y \in A /\ g[y].spec = NoSpec /\ g[y].kind = "map" /\ heap[y].kind = g[y].kind
        /\ y \in DOMAIN g
    BY EmptySeq DEF Keys, Clean, CleanNode, Ordinary, Formed, Slot
  <1>2. g[y].kids # <<>>
    BY EmptySeq DEF Slot, Kids, ToSet
  <1>3. <<q, y>> \in B
    BY <1>1, <1>2, CleanStays
  <1>4. At(r, q) = P
    BY DEF At
  <1>5. B \subseteq Keys \X DOMAIN heap
    BY <1>1, BelowTyped
  <1>6. ASSUME NEW n, <<q, n>> \in B PROVE n = y
    <2>1. UpTo(g, A, heap, r, U, q, n)
      BY <1>6, CleanBelow
    <2>2. \A m : <<q, m>> \in Below(g, r, <<>>) => m = y
      BY <1>1, OneNode
    <2> QED
      BY <1>1, <2>1, <2>2 DEF UpTo
  <1> HIDE DEF B
  <1>7. \A z \in B : z = <<z[1], z[2]>>
    BY <1>5
  <1>8. P = {y}
    <2>1. y \in P
      <3> DEFINE z == <<q, y>>
      <3>1. z \in B /\ z[1] = q /\ z[2] = y
        BY <1>3
      <3> HIDE DEF z
      <3> QED
        BY <3>1
    <2>2. ASSUME NEW z \in B, z[1] = q PROVE z[2] = y
      BY <1>6, <1>7, <2>2
    <2> QED
      BY <2>1, <2>2
  <1> HIDE DEF P
  <1>9. Sought(r, q) = {y}
    BY <1>4, <1>8 DEF Sought
  <1>10. y # Nowhere
    BY <1>1 DEF Tree, Nowhere
  <1> QED
    BY <1>1, <1>9, <1>10 DEF Is

-----------------------------------------------------------------------------
(* The parts of an ordinary template, once their specs are recorded.       *)
All == UNION {Desc(loaded, roots[p]) : p \in ToSet(Parts)}

AllGathered ==
    /\ Formed(loaded) /\ roots \in [ToSet(Parts) -> DOMAIN loaded] /\ AllPlain
    /\ \A p \in ToSet(Parts) : Gathered(mapping[p], p, <<>>)

(* What is recorded of a part.                                             *)
LEMMA GatheredIs ==
    ASSUME AllGathered, NEW p \in ToSet(Parts)
    PROVE  /\ \A x \in DOMAIN mapping[p] : \E n \in DOMAIN loaded :
                 /\ <<mapping[p][x].target, n>> \in Found(p)
                 /\ loaded[n].spec = mapping[p][x].spec
                 /\ mapping[p][x].spec # NoSpec /\ ~mapping[p][x].spec.broken
           /\ \A x, y \in DOMAIN mapping[p] :
                 mapping[p][x].target = mapping[p][y].target => x = y
           /\ \A z \in Found(p) : loaded[z[2]].spec # NoSpec =>
                 \E x \in DOMAIN mapping[p] :
                    /\ mapping[p][x].target = z[1]
                    /\ mapping[p][x].spec = loaded[z[2]].spec
           /\ MapShape(mapping[p])
  <1> DEFINE m == mapping[p]
             e == <<>>
  <1>1. GatherAt(loaded, roots[p], m, e) /\ Ahead(loaded, e) = {}
    BY DEF AllGathered, Gathered, Ahead
  <1> HIDE DEF m, e
  <1>2. /\ \A x \in DOMAIN m : \E n \in DOMAIN loaded :
              /\ <<m[x].target, n>> \in Found(p)
              /\ loaded[n].spec = m[x].spec /\ m[x].spec # NoSpec /\ ~m[x].spec.broken
        /\ \A x, y \in DOMAIN m : m[x].target = m[y].target => x = y
        /\ \A z \in Found(p) : loaded[z[2]].spec # NoSpec =>
              \E x \in DOMAIN m : m[x].target = z[1] /\ m[x].spec = loaded[z[2]].spec
        /\ MapShape(m)
    BY <1>1 DEF GatherAt, Found
  <1> QED
    BY <1>2 DEF m

(* The four parts of an ordinary template are ordinary objects.            *)
LEMMA AllOrdinary ==
    ASSUME AllGathered
    PROVE  /\ Ordinary(loaded, All) /\ Tree(loaded)
           /\ \A p \in ToSet(Parts) :
                 /\ roots[p] \in All /\ roots[p] \in DOMAIN loaded
                 /\ loaded[roots[p]].spec = NoSpec /\ Singles(loaded, roots[p])
                 /\ \A z \in Found(p) : z[2] \in All
  <1>1. Formed(loaded) /\ Tree(loaded) /\ \A p \in ToSet(Parts) : roots[p] \in DOMAIN loaded /\ Plain(p)
    BY DEF AllGathered, Formed, AllPlain
  <1>2. ASSUME NEW p \in ToSet(Parts)
        PROVE  /\ Singles(loaded, roots[p]) /\ loaded[roots[p]].spec = NoSpec
               /\ \A y \in Desc(loaded, roots[p]) : \A kid \in Kids(loaded, y) :
                     loaded[kid.node].spec # NoSpec =>
                        loaded[y].kind = "map" /\ loaded[y].spec = NoSpec
    BY <1>1, PlainIs
  <1>3. ASSUME NEW p \in ToSet(Parts)
        PROVE  /\ roots[p] \in Desc(loaded, roots[p]) /\ Desc(loaded, roots[p]) \subseteq DOMAIN loaded
               /\ \A y \in Desc(loaded, roots[p]) : \A kid \in Kids(loaded, y) :
                     kid.node \in Desc(loaded, roots[p])
               /\ \A z \in Found(p) : z[2] \in Desc(loaded, roots[p])
               /\ \A y \in Desc(loaded, roots[p]) : \E q \in Keys : <<q, y>> \in Found(p)
    <2>1. \A z \in Found(p) : z[2] \in Desc(loaded, roots[p])
      BY <1>1, FoundIs
    <2>2. \A y \in Desc(loaded, roots[p]) : \E q \in Keys : <<q, y>> \in Found(p)
      BY <1>1, FoundIs
    <2> QED
      BY <1>1, <2>1, <2>2, DescIs
  <1>4. ASSUME NEW p \in ToSet(Parts), NEW y \in Desc(loaded, roots[p])
        PROVE  /\ y \in DOMAIN loaded /\ Single(loaded, y)
               /\ loaded[y].spec # NoSpec => ~loaded[y].spec.broken
               /\ \A kid \in Kids(loaded, y) :
                     /\ kid.node \in All
                     /\ loaded[kid.node].spec # NoSpec =>
                           loaded[y].kind = "map" /\ loaded[y].spec = NoSpec
    <2>1. \A kid \in Kids(loaded, y) : kid.node \in All
      BY <1>3, <1>4 DEF All
    <2>2. PICK q \in Keys : <<q, y>> \in Found(p)
      BY <1>3, <1>4
    <2> DEFINE z == <<q, y>>
    <2>3. z \in Found(p) /\ z[2] = y
      BY <2>2
    <2> HIDE DEF z
    <2>4. ASSUME loaded[y].spec # NoSpec PROVE ~loaded[y].spec.broken
      <3>1. PICK x \in DOMAIN mapping[p] : mapping[p][x].spec = loaded[y].spec
        BY <2>3, <2>4, GatheredIs
      <3>2. ~mapping[p][x].spec.broken
        BY GatheredIs
      <3> QED
        BY <3>1, <3>2
    <2> QED
      BY <1>2, <1>3, <1>4, <2>1, <2>4 DEF Singles
  <1>5. \A y \in All : \E p \in ToSet(Parts) : y \in Desc(loaded, roots[p])
    BY DEF All
  <1>6. Ordinary(loaded, All)
    BY <1>1, <1>4, <1>5 DEF Ordinary
  <1> QED
    BY <1>1, <1>2, <1>3, <1>6 DEF All

(* Where the spec of an entry is: in a map, under the end of the target.   *)
Place(p, t, y, k) ==
    /\ Slot(loaded, All, y, k) /\ <<Base(t)>> = k.key /\ t # <<>>
    /\ Dir(t) = Front(t) /\ Base(t) = Last(t) /\ t = Dir(t) \o k.key
    /\ <<t, k.node>> \in Found(p) /\ <<Dir(t), y>> \in Found(p)
    /\ \A n : <<t, n>> \in Found(p) => n = k.node

(* Every spec that is mapped has a place.                                  *)
LEMMA Placed ==
    ASSUME AllGathered, NEW p \in ToSet(Parts), NEW x \in DOMAIN mapping[p]
    PROVE  \E y, k : Place(p, mapping[p][x].target, y, k)
  <1> DEFINE t == mapping[p][x].target
             r == roots[p]
             e == <<>>
  <1>1. PICK s \in DOMAIN loaded :
           <<t, s>> \in Found(p) /\ loaded[s].spec = mapping[p][x].spec /\ mapping[p][x].spec # NoSpec
    BY GatheredIs
  <1> HIDE DEF t, r
  <1>2. /\ Tree(loaded) /\ r \in DOMAIN loaded /\ loaded[r].spec = NoSpec /\ Singles(loaded, r)
        /\ Found(p) = Below(loaded, r, e) /\ \A z \in Found(p) : z[2] \in All
    BY AllOrdinary DEF Found, r
  <1>3. s # r
    BY <1>1, <1>2
  <1>4. t # e /\ Before(loaded, r, t, s)
    BY <1>1, <1>2, <1>3, PathBefore
  <1>5. PICK y \in Desc(loaded, r) : \E k \in Kids(loaded, y) :
           /\ <<Front(t), y>> \in Found(p) /\ t = Front(t) \o k.key
           /\ k.node = s /\ k.key = <<Last(t)>>
    BY <1>2, <1>4 DEF Before
  <1>6. PICK k \in Kids(loaded, y) :
           /\ <<Front(t), y>> \in Found(p) /\ t = Front(t) \o k.key
           /\ k.node = s /\ k.key = <<Last(t)>>
    BY <1>5
  <1>7. Dir(t) = Front(t) /\ Base(t) = Last(t)
    BY <1>4 DEF Dir, Base
  <1>8. y \in All
    BY <1>5 DEF All, r
  <1>9. \A n : <<t, n>> \in Found(p) => n = s
    BY <1>1, <1>2, OneNode
  <1>10. Place(p, t, y, k)
    BY <1>1, <1>4, <1>6, <1>7, <1>8, <1>9 DEF Place, Slot
  <1> QED
    BY <1>10 DEF t

-----------------------------------------------------------------------------
(* Every spec that is still in its place is in the mappings still to be    *)
(* gone through.                                                           *)
Awaited(p, x) ==
    /\ phase = "defaults"
    /\ (p = Current /\ x \in left) \/ \E i \in part + 1 .. 4 : p = Parts[i]

Pending(U) ==
    \A p \in ToSet(Parts) : \A x \in DOMAIN mapping[p] : \A s \in U :
       <<mapping[p][x].target, s>> \in Found(p) => Awaited(p, x)

CleanInv ==
    /\ phase = "defaults" => left \subseteq DOMAIN mapping[Current]
    /\ phase \in {"defaults", "ready"} /\ AllPlain =>
          \E U : Clean(loaded, All, heap, U) /\ Pending(U)

(* The mapping of one part after the other.                                *)
LEMMA GatheredThen ==
    ASSUME LoadInv, phase \in {"defaults", "ready"}
    PROVE  /\ part \in 1 .. 4 /\ Current \in ToSet(Parts)
           /\ AllPlain => AllGathered
  <1>1. part \in 1 .. 4 /\ Formed(loaded) /\ roots \in [ToSet(Parts) -> DOMAIN loaded]
    BY DEF LoadInv, Settled
  <1>2. Current \in ToSet(Parts)
    BY <1>1, PartsAre DEF Current
  <1>3. AllPlain => \A p \in ToSet(Parts) : Gathered(mapping[p], p, <<>>)
    BY DEF LoadInv, Extracted
  <1> QED
    BY <1>1, <1>2, <1>3 DEF AllGathered

(* The only node at the parent of a target.                                *)
LEMMA OneParentOf ==
    ASSUME AllGathered, NEW U, Clean(loaded, All, heap, U), NEW p \in ToSet(Parts),
           NEW t, NEW y, NEW k, Place(p, t, y, k)
    PROVE  Parents(p, t) = {y} /\ Is(y, "map")
  <1> DEFINE r == roots[p]
             q == Dir(t)
  <1>1. /\ Ordinary(loaded, All) /\ r \in All /\ loaded[r].spec = NoSpec /\ Singles(loaded, r)
    BY AllOrdinary
  <1>2. Slot(loaded, All, y, k) /\ <<q, y>> \in Below(loaded, r, <<>>)
    BY DEF Place, Found
  <1>3. Sought(r, q) = {y} /\ Is(y, "map")
    BY <1>1, <1>2, ParentIs
  <1> QED
    BY <1>3 DEF Parents

-----------------------------------------------------------------------------
(* A default is put in the place of its spec, or the entry of the spec is  *)
(* taken away.                                                             *)
LEMMA CleanApply ==
    ASSUME LoadInv, CleanInv, NEW x \in left, ApplyDefault(x)
    PROVE  CleanInv'
  <1> DEFINE c == Current
             vs == mapping[c][x]
             t == vs.target
  <1>1. /\ phase = "defaults" /\ left' = left \ {x}
        /\ \E n \in Parents(c, t) :
              heap' = IF vs.spec.drop THEN Dropped(n, vs) ELSE Assign(heap, n, t, "default")
        /\ UNCHANGED <<stack, phase, part, roots, mapping, loaded>>
    BY DEF ApplyDefault
  <1>2. /\ part \in 1 .. 4 /\ c \in ToSet(Parts) /\ left \subseteq DOMAIN mapping[c]
        /\ AllPlain => AllGathered
        /\ AllPlain => \E U : Clean(loaded, All, heap, U) /\ Pending(U)
    BY <1>1, GatheredThen DEF CleanInv
  <1>3. /\ AllPlain' = AllPlain /\ Current' = Current /\ All' = All
        /\ \A p : Found(p)' = Found(p)
    BY <1>1 DEF AllPlain, Plain, Current, All, Found
  <1>4. left' \subseteq DOMAIN mapping'[Current']
    BY <1>1, <1>2, <1>3
  <1>5. ASSUME AllPlain
        PROVE  \E U : Clean(loaded, All, heap', U) /\ Pending(U)'
    <2>1. AllGathered /\ x \in DOMAIN mapping[c]
      BY <1>2, <1>5
    <2>2. PICK U : Clean(loaded, All, heap, U) /\ Pending(U)
      BY <1>2, <1>5
    <2>3. PICK y, k : Place(c, t, y, k)
      BY <1>2, <2>1, Placed
    <2> DEFINE V == U \ {k.node}
    <2> HIDE DEF c, vs, t
    <2>4. Parents(c, t) = {y} /\ Ordinary(loaded, All)
      BY <1>2, <2>1, <2>2, <2>3, OneParentOf, AllOrdinary
    <2>5. heap' = IF vs.spec.drop THEN Dropped(y, vs) ELSE Assign(heap, y, t, "default")
      BY <1>1, <2>4
    <2>6. Slot(loaded, All, y, k) /\ <<Base(t)>> = k.key
      BY <2>3 DEF Place
    <2> DEFINE g == loaded
               h == heap
               A == All
               v == heap'
    <2>7. Ordinary(g, A) /\ Clean(g, A, h, U) /\ Slot(g, A, y, k)
      BY <2>2, <2>4, <2>6
    <2>8. v = Delete(h, y, t) \/ v = Assign(h, y, t, "default")
      BY <2>5 DEF Dropped, t
    <2> HIDE DEF g, h, A, v
    <2>9. Clean(g, A, v, V)
      BY <2>6, <2>7, <2>8, CleanDelete, CleanAssign
    <2>10. Clean(loaded, All, heap', V)
      BY <2>9 DEF g, A, v
    <2>11. ASSUME NEW p \in ToSet(Parts), NEW z \in DOMAIN mapping[p], NEW s \in V,
                  <<mapping[p][z].target, s>> \in Found(p)
           PROVE  Awaited(p, z)'
      <3>1. Awaited(p, z) /\ s # k.node
        BY <2>2, <2>11 DEF Pending
      <3>2. ~(p = c /\ z = x)
        BY <2>3, <2>11, <3>1 DEF Place, t, vs
      <3> QED
        BY <1>1, <1>3, <3>1, <3>2 DEF Awaited, c
    <2>12. Pending(V)'
      BY <1>1, <1>3, <2>11 DEF Pending
    <2> QED
      BY <2>10, <2>12
  <1> QED
    BY <1>1, <1>3, <1>4, <1>5 DEF CleanInv

(* On to the next mapping.                                                 *)
LEMMA CleanDone ==
    ASSUME LoadInv, CleanInv, DefaultsDone
    PROVE  CleanInv'
  <1>1. /\ phase = "defaults" /\ left = {} /\ UNCHANGED <<heap, roots, mapping, loaded>>
        /\ part < 4 => /\ part' = part + 1 /\ left' = DOMAIN mapping[Parts[part + 1]]
                       /\ phase' = phase
        /\ ~(part < 4) => phase' = "ready" /\ part' = part /\ left' = left
    BY PartsAre DEF DefaultsDone
  <1>2. part \in 1 .. 4
    BY <1>1, GatheredThen
  <1>3. /\ AllPlain' = AllPlain /\ All' = All /\ \A p : Found(p)' = Found(p)
    BY <1>1 DEF AllPlain, Plain, All, Found
  <1>4. ASSUME NEW p \in ToSet(Parts), NEW z \in DOMAIN mapping[p], Awaited(p, z)
        PROVE  Awaited(p, z)'
    <2>1. PICK i \in part + 1 .. 4 : p = Parts[i]
      BY <1>1, <1>4 DEF Awaited
    <2>2. part < 4 /\ part + 1 \in 1 .. 4 /\ (i = part + 1 \/ i \in part + 2 .. 4)
      BY <1>2, <2>1
    <2>3. part' + 1 = part + 2
      BY <1>1, <1>2, <2>2
    <2> QED
      BY <1>1, <2>1, <2>2, <2>3 DEF Awaited, Current
  <1>5. \A U : Pending(U) => Pending(U)'
    <2> TAKE U
    <2> HAVE Pending(U)
    <2>1. \A p \in ToSet(Parts) : \A z \in DOMAIN mapping[p] : \A s \in U :
             <<mapping[p][z].target, s>> \in Found(p) => Awaited(p, z)'
      BY <1>4 DEF Pending
    <2> QED
      BY <1>1, <1>3, <2>1 DEF Pending
  <1>6. phase' = "defaults" => left' \subseteq DOMAIN mapping'[Current']
    BY <1>1 DEF Current
  <1>7. AllPlain => \E U : Clean(loaded, All, heap, U) /\ Pending(U)
    BY <1>1 DEF CleanInv
  <1> QED
    BY <1>1, <1>3, <1>5, <1>6, <1>7 DEF CleanInv

(* Nothing is replaced when the last part has been walked.                 *)
LEMMA CleanExtracted ==
    ASSUME LoadInv, CleanInv, ExtractDone
    PROVE  CleanInv'
  <1>1. /\ phase = "extract" /\ stack = <<>> /\ UNCHANGED <<heap, roots, mapping, loaded>>
        /\ part < 4 => phase' = phase
        /\ ~(part < 4) => part' = 1 /\ phase' = "defaults" /\ left' = DOMAIN mapping[Parts[1]]
    BY PartsAre DEF ExtractDone
  <1>2. /\ heap = loaded /\ Extracting /\ Settled /\ Formed(loaded) /\ part \in 1 .. 4
        /\ AllPlain => Gathered(mapping[Current], Current, <<>>)
    BY <1>1, ExtractingIs DEF LoadInv
  <1>3. /\ AllPlain' = AllPlain /\ All' = All /\ \A p : Found(p)' = Found(p)
    BY <1>1 DEF AllPlain, Plain, All, Found
  <1>4. CASE part < 4
    BY <1>1, <1>4 DEF CleanInv
  <1>5. CASE ~(part < 4)
    <2>1. part = 4 /\ Current = Parts[4] /\ Current' = Parts[1]
      BY <1>1, <1>2, <1>5 DEF Current
    <2>2. AllPlain => AllGathered
      <3> SUFFICES ASSUME AllPlain PROVE AllGathered
        OBVIOUS
      <3>1. \A i \in 1 .. 3 : Gathered(mapping[Parts[i]], Parts[i], <<>>)
        BY <1>1, <1>2, <2>1 DEF Extracting
      <3>2. Gathered(mapping[Parts[4]], Parts[4], <<>>)
        BY <1>2, <2>1
      <3>3. \A i \in 1 .. 4 : i \in 1 .. 3 \/ i = 4
        OBVIOUS
      <3>4. \A p \in ToSet(Parts) : Gathered(mapping[p], p, <<>>)
        BY <3>1, <3>2, <3>3, PartsAre
      <3> QED
        BY <1>1, <1>2, <3>4 DEF AllGathered, Settled
    <2>3. ASSUME AllPlain PROVE \E U : Clean(loaded, All, heap, U) /\ Pending(U)'
      <3>U. PICK U : U = {n \in All : loaded[n].spec # NoSpec}
        OBVIOUS
      <3>1. Ordinary(loaded, All)
        BY <2>2, <2>3, AllOrdinary
      <3>2. Clean(loaded, All, loaded, U)
        BY <3>1, <3>U, CleanStart
      <3>3. \A p \in ToSet(Parts) : \A z \in DOMAIN mapping[p] : Awaited(p, z)'
        <4> TAKE p \in ToSet(Parts)
        <4> TAKE z \in DOMAIN mapping[p]
        <4>1. PICK i \in 1 .. 4 : p = Parts[i]
          BY PartsAre
        <4>2. i = 1 \/ i \in 1 + 1 .. 4
          OBVIOUS
        <4> QED
          BY <1>1, <1>5, <2>1, <4>1, <4>2 DEF Awaited
      <3>4. Pending(U)'
        BY <1>1, <3>3 DEF Pending
      <3>5. heap = loaded
        BY <1>2
      <3>6. Clean(loaded, All, heap, U)
        BY <3>2, <3>5
      <3> QED
        BY <3>4, <3>6
    <2>4. left' \subseteq DOMAIN mapping'[Current']
      BY <1>1, <1>5, <2>1
    <2> QED
      BY <1>1, <1>3, <1>5, <2>3, <2>4 DEF CleanInv
  <1> QED
    BY <1>4, <1>5

(* All specs are replaced when the template is loaded.                     *)
LEMMA NoneLeft ==
    ASSUME LoadInv, CleanInv, phase = "ready", AllPlain
    PROVE  AllGathered /\ Clean(loaded, All, heap, {})
  <1>1. AllGathered
    BY GatheredThen
  <1>2. PICK U : Clean(loaded, All, heap, U) /\ Pending(U)
    BY DEF CleanInv
  <1>3. ASSUME NEW s \in U PROVE FALSE
    <2>1. s \in All /\ loaded[s].spec # NoSpec
      BY <1>2 DEF Clean
    <2>2. PICK p \in ToSet(Parts) : s \in Desc(loaded, roots[p])
      BY <2>1 DEF All
    <2>3. Formed(loaded) /\ roots[p] \in DOMAIN loaded
      BY <1>1 DEF AllGathered
    <2>4. PICK q \in Keys : <<q, s>> \in Found(p)
      BY <2>2, <2>3, FoundIs
    <2> DEFINE z == <<q, s>>
    <2>5. z \in Found(p) /\ z[2] = s /\ z = <<z[1], s>>
      BY <2>4
    <2> HIDE DEF z
    <2>6. PICK x \in DOMAIN mapping[p] : mapping[p][x].target = z[1]
      BY <1>1, <2>1, <2>5, GatheredIs
    <2>7. Awaited(p, x)
      BY <1>2, <2>5, <2>6 DEF Pending
    <2> QED
      BY <2>7 DEF Awaited
  <1>4. U = {}
    BY <1>3
  <1> QED
    BY <1>1, <1>2, <1>4

-----------------------------------------------------------------------------
(* The insertions, one target after the other.                             *)
FoldStep(p, base, f, s) ==
    IF s = {} THEN base
    ELSE LET x == CHOOSE z \in s : TRUE IN Written(f[s \ {x}], p, x)

Folded(iter, p, base, T) ==
    /\ iter[{}] = base
    /\ \A s \in SUBSET T : s # {} =>
          \E x \in s : iter[s] = Written(iter[s \ {x}], p, x)

(* Smaller sets of targets come before larger ones.                        *)
LEMMA FoldExists ==
    ASSUME NEW p, NEW base, NEW T, IsFiniteSet(T)
    PROVE  \E f : f = [s \in SUBSET T |-> FoldStep(p, base, f, s)]
  <1> DEFINE N == Cardinality(T)
             Built(t, f) == \A s \in SUBSET T : Cardinality(s) <= t => f[s] = FoldStep(p, base, f, s)
             S == {t \in 0 .. N : \E f : f = [s \in SUBSET T |-> f[s]] /\ Built(t, f)}
  <1>1. N \in Nat
    BY FS_CardinalityType
  <1>2. ASSUME NEW s \in SUBSET T
        PROVE  /\ IsFiniteSet(s) /\ Cardinality(s) \in Nat /\ Cardinality(s) <= N
               /\ Cardinality(s) = 0 <=> s = {}
               /\ \A x \in s : s \ {x} \in SUBSET T /\ Cardinality(s \ {x}) = Cardinality(s) - 1
    <2>1. IsFiniteSet(s) /\ Cardinality(s) <= N
      BY FS_Subset
    <2>2. Cardinality(s) \in Nat
      BY <2>1, FS_CardinalityType
    <2>3. Cardinality(s) = 0 <=> s = {}
      BY <2>1, FS_EmptySet
    <2>4. \A x \in s : Cardinality(s \ {x}) = Cardinality(s) - 1
      BY <2>1, FS_RemoveElement
    <2> QED
      BY <2>1, <2>2, <2>3, <2>4
  <1> HIDE DEF N
  <1>3. ASSUME NEW f, NEW g, NEW s \in SUBSET T,
               \A u \in SUBSET T : Cardinality(u) < Cardinality(s) => f[u] = g[u]
        PROVE  FoldStep(p, base, f, s) = FoldStep(p, base, g, s)
    <2>1. CASE s = {}
      BY <2>1 DEF FoldStep
    <2>2. CASE s # {}
      <3> DEFINE x == CHOOSE z \in s : TRUE
                 u == s \ {x}
      <3>1. x \in s
        BY <2>2
      <3> HIDE DEF x
      <3>2. u \in SUBSET T /\ Cardinality(u) = Cardinality(s) - 1 /\ Cardinality(s) \in Nat
        BY <1>2, <3>1
      <3>3. Cardinality(u) < Cardinality(s)
        BY <3>2
      <3>4. f[u] = g[u]
        BY <1>3, <3>2, <3>3
      <3> QED
        BY <2>2, <3>4 DEF FoldStep, x
    <2> QED
      BY <2>1, <2>2
  <1> HIDE DEF Built
  <1>B. \A t, f : Built(t, f) <=>
           \A s \in SUBSET T : Cardinality(s) <= t => f[s] = FoldStep(p, base, f, s)
    BY DEF Built
  <1>4. 0 \in S
    <2> DEFINE f == [s \in SUBSET T |-> base]
    <2>1. f = [s \in SUBSET T |-> f[s]] /\ \A s \in SUBSET T : f[s] = base
      OBVIOUS
    <2> HIDE DEF f
    <2>2. Built(0, f)
      <3> SUFFICES ASSUME NEW s \in SUBSET T, Cardinality(s) <= 0
                   PROVE  f[s] = FoldStep(p, base, f, s)
        BY <1>B
      <3>1. s = {}
        BY <1>2
      <3> QED
        BY <2>1, <3>1 DEF FoldStep
    <2> QED
      BY <1>1, <2>1, <2>2
  <1>5. ASSUME NEW t \in 1 .. N, t - 1 \in S PROVE t \in S
    <2>1. PICK f : f = [s \in SUBSET T |-> f[s]] /\ Built(t - 1, f)
      BY <1>5
    <2> DEFINE g == [s \in SUBSET T |-> IF Cardinality(s) = t THEN FoldStep(p, base, f, s) ELSE f[s]]
    <2>2. /\ g = [s \in SUBSET T |-> g[s]]
          /\ \A s \in SUBSET T :
                g[s] = IF Cardinality(s) = t THEN FoldStep(p, base, f, s) ELSE f[s]
      OBVIOUS
    <2> HIDE DEF g
    <2>3. t \in Nat /\ t > 0
      BY <1>1
    <2>4. ASSUME NEW s \in SUBSET T, Cardinality(s) <= t PROVE g[s] = FoldStep(p, base, g, s)
      <3>1. \A u \in SUBSET T : Cardinality(u) < Cardinality(s) => f[u] = g[u]
        <4> TAKE u \in SUBSET T
        <4> HAVE Cardinality(u) < Cardinality(s)
        <4>1. Cardinality(u) # t
          BY <1>2, <2>3, <2>4
        <4> QED
          BY <2>2, <4>1
      <3>2. FoldStep(p, base, f, s) = FoldStep(p, base, g, s)
        BY <1>3, <3>1
      <3>3. Cardinality(s) = t \/ Cardinality(s) <= t - 1
        BY <1>2, <2>3, <2>4
      <3>4. g[s] = FoldStep(p, base, f, s)
        BY <1>B, <2>1, <2>2, <3>3
      <3> QED
        BY <3>2, <3>4
    <2>5. Built(t, g)
      BY <1>B, <2>4
    <2> QED
      BY <2>2, <2>5
  <1>6. N \in S
    <2> HIDE DEF S
    <2> QED
      BY <1>1, <1>4, <1>5, TurnInduction
  <1>7. PICK f : f = [s \in SUBSET T |-> f[s]] /\ Built(N, f)
    BY <1>6
  <1>8. \A s \in SUBSET T : f[s] = FoldStep(p, base, f, s)
    BY <1>2, <1>7, <1>B
  <1>9. f = [s \in SUBSET T |-> FoldStep(p, base, f, s)]
    BY <1>7, <1>8
  <1> QED
    BY <1>9

(* The fold of an insertion unfolds so.                                    *)
LEMMA FoldIs ==
    ASSUME NEW p, NEW base, NEW T, IsFiniteSet(T)
    PROVE  \E iter :
              /\ FoldSet(LAMBDA t, h : Written(h, p, t), base, T) = iter[T]
              /\ Folded(iter, p, base, T)
  <1> DEFINE Rec(f) == [s \in SUBSET T |->
                          IF s = {} THEN base
                          ELSE LET x == CHOOSE z \in s : TRUE
                               IN  Written(f[s \ {x}], p, x)]
             g == CHOOSE f : f = Rec(f)
  <1>1. FoldSet(LAMBDA t, h : Written(h, p, t), base, T) = g[T]
    BY DEF FoldSet, MapThenFoldSet
  <1>2. \A f : Rec(f) = [s \in SUBSET T |-> FoldStep(p, base, f, s)]
    BY DEF FoldStep
  <1> HIDE DEF Rec
  <1>3. \E f : f = Rec(f)
    <2>1. PICK f : f = [s \in SUBSET T |-> FoldStep(p, base, f, s)]
      BY FoldExists, ZenonT(60)
    <2>2. f = Rec(f)
      BY <1>2, <2>1
    <2> QED
      BY <2>2
  <1>4. g = Rec(g)
    BY <1>3
  <1> HIDE DEF g
  <1>5. g = [s \in SUBSET T |-> FoldStep(p, base, g, s)]
    BY <1>2, <1>4
  <1>6. \A s \in SUBSET T : g[s] = FoldStep(p, base, g, s)
    BY <1>5
  <1>7. g[{}] = base
    BY <1>6 DEF FoldStep
  <1>8. ASSUME NEW s \in SUBSET T, s # {}
        PROVE  \E x \in s : g[s] = Written(g[s \ {x}], p, x)
    <2> DEFINE x == CHOOSE z \in s : TRUE
    <2>1. x \in s /\ g[s] = Written(g[s \ {x}], p, x)
      BY <1>6, <1>8 DEF FoldStep
    <2> QED
      BY <2>1
  <1>9. Folded(g, p, base, T)
    BY <1>7, <1>8 DEF Folded
  <1> QED
    BY <1>1, <1>9

-----------------------------------------------------------------------------
(* The values of an object.                                                *)
Values(h, r) ==
    {<<x[1], h[x[2]].val>> :
       x \in {y \in Below(h, r, <<>>) : h[y[2]].kind \notin {"map", "list"}}}

HasValue(h, r, q, a) ==
    \E n : /\ <<q, n>> \in Below(h, r, <<>>) /\ n \in DOMAIN h
           /\ h[n].kind \notin {"map", "list"} /\ a = h[n].val

Lands(V, W, t, a) == W = {x \in V : x[1] # t} \cup {<<t, a>>}

(* The values as pairs of a path and a value.                              *)
LEMMA ValuesAre ==
    ASSUME NEW h, Tree(h), NEW r \in DOMAIN h
    PROVE  /\ \A w \in Values(h, r) : w = <<w[1], w[2]>>
           /\ \A q, a : <<q, a>> \in Values(h, r) <=> HasValue(h, r, q, a)
  <1> DEFINE e == <<>>
             B == Below(h, r, e)
             D == {"map", "list"}
             L == {y \in B : h[y[2]].kind \notin D}
             V == {<<x[1], h[x[2]].val>> : x \in L}
  <1>1. e \in Keys
    BY EmptySeq DEF Keys
  <1> HIDE DEF e
  <1>2. B \subseteq Keys \X DOMAIN h
    BY <1>1, BelowTyped
  <1>3. Values(h, r) = V
    BY DEF Values, e
  <1>4. \A q, a : HasValue(h, r, q, a) <=>
           \E n : <<q, n>> \in B /\ n \in DOMAIN h /\ h[n].kind \notin D /\ a = h[n].val
    BY DEF HasValue, e
  <1> HIDE DEF B, D
  <1>5. \A y \in B : y = <<y[1], y[2]>> /\ y[2] \in DOMAIN h
    BY <1>2
  <1>6. \A w \in V : w = <<w[1], w[2]>>
    OBVIOUS
  <1>7. ASSUME NEW q, NEW a, <<q, a>> \in V
        PROVE  \E n : <<q, n>> \in B /\ n \in DOMAIN h /\ h[n].kind \notin D /\ a = h[n].val
    <2>1. PICK x \in L : <<q, a>> = <<x[1], h[x[2]].val>>
      BY <1>7
    <2>2. q = x[1] /\ a = h[x[2]].val
      BY <2>1
    <2>3. x \in B /\ h[x[2]].kind \notin D
      OBVIOUS
    <2>4. <<q, x[2]>> \in B /\ x[2] \in DOMAIN h
      BY <1>5, <2>2, <2>3
    <2> QED
      BY <2>2, <2>3, <2>4
  <1>8. ASSUME NEW q, NEW a, NEW n, <<q, n>> \in B, h[n].kind \notin D, a = h[n].val
        PROVE  <<q, a>> \in V
    <2> DEFINE x == <<q, n>>
    <2>1. x \in L /\ x[1] = q /\ x[2] = n
      BY <1>8
    <2> HIDE DEF x, L
    <2> QED
      BY <1>8, <2>1
  <1> HIDE DEF V, L
  <1>9. \A q, a : <<q, a>> \in V <=> HasValue(h, r, q, a)
    <2> TAKE q, a
    <2>1. ASSUME <<q, a>> \in V PROVE HasValue(h, r, q, a)
      BY <1>4, <1>7, <2>1
    <2>2. ASSUME HasValue(h, r, q, a) PROVE <<q, a>> \in V
      <3>1. PICK n : <<q, n>> \in B /\ n \in DOMAIN h /\ h[n].kind \notin D /\ a = h[n].val
        BY <1>4, <2>2
      <3> QED
        BY <1>8, <3>1
    <2> QED
      BY <2>1, <2>2
  <1> QED
    BY <1>3, <1>6, <1>9

(* A value lands where the others stay.                                    *)
LEMMA LandsIf ==
    ASSUME NEW h, Tree(h), NEW r \in DOMAIN h, NEW v, Tree(v), r \in DOMAIN v, NEW t, NEW b,
           \A q, a : HasValue(v, r, q, a) <=>
                       (q # t /\ HasValue(h, r, q, a)) \/ (q = t /\ a = b)
    PROVE  Lands(Values(h, r), Values(v, r), t, b)
  <1> DEFINE V == Values(h, r)
             W == Values(v, r)
             X == {x \in V : x[1] # t} \cup {<<t, b>>}
  <1>1. /\ \A w \in V : w = <<w[1], w[2]>>
        /\ \A q, a : <<q, a>> \in V <=> HasValue(h, r, q, a)
    BY ValuesAre
  <1>2. /\ \A w \in W : w = <<w[1], w[2]>>
        /\ \A q, a : <<q, a>> \in W <=> HasValue(v, r, q, a)
    BY ValuesAre
  <1> HIDE DEF V, W
  <1>3. ASSUME NEW w \in W PROVE w \in X
    <2> DEFINE q == w[1]
               a == w[2]
    <2>1. w = <<q, a>>
      BY <1>2
    <2> HIDE DEF q, a
    <2>2. (q # t /\ HasValue(h, r, q, a)) \/ (q = t /\ a = b)
      BY <1>2, <1>3, <2>1
    <2>3. w[1] = q
      BY <2>1
    <2> QED
      BY <1>1, <2>1, <2>2, <2>3
  <1>4. ASSUME NEW w \in X PROVE w \in W
    <2>1. CASE w = <<t, b>>
      BY <1>2, <2>1
    <2>2. CASE w \in V /\ w[1] # t
      <3> DEFINE q == w[1]
                 a == w[2]
      <3>1. w = <<q, a>> /\ q # t
        BY <1>1, <2>2
      <3> HIDE DEF q, a
      <3>2. HasValue(h, r, q, a)
        BY <1>1, <2>2, <3>1
      <3> QED
        BY <1>2, <3>1, <3>2
    <2> QED
      BY <1>4, <2>1, <2>2
  <1>5. W = X
    BY <1>3, <1>4
  <1> QED
    BY <1>5 DEF Lands, V, W

(* The keys of such an object are single elements, of their own in each    *)
(* directory.                                                              *)
LEMMA CleanSingles ==
    ASSUME NEW g, NEW A, Ordinary(g, A), NEW h, NEW U, Clean(g, A, h, U),
           NEW r \in A, g[r].spec = NoSpec
    PROVE  Tree(h) /\ r \in DOMAIN h /\ Singles(h, r)
  <1>1. Tree(h) /\ r \in DOMAIN h /\ r \in DOMAIN g
    BY DEF Clean, Ordinary
  <1>2. ASSUME NEW n \in Desc(h, r) PROVE Single(h, n)
    <2>1. PICK q \in Keys : <<q, n>> \in Below(h, r, <<>>)
      BY <1>1, <1>2, DescIs
    <2>2. UpTo(g, A, h, r, U, q, n)
      BY <2>1, CleanBelow
    <2>3. CASE n \in A /\ g[n].spec = NoSpec
      BY <2>3 DEF Clean, CleanNode
    <2>4. CASE n \in U
      <3>1. n \in A /\ h[n].kids = g[n].kids
        BY <2>4 DEF Clean
      <3> QED
        BY <3>1 DEF Ordinary, Single, Kids
    <2>5. CASE Fresh(g, h, n, U)
      <3>1. h[n].kids = <<>>
        BY <2>5 DEF Fresh, Cleared
      <3>2. DOMAIN h[n].kids = {} /\ Kids(h, n) = {}
        BY <3>1, EmptySeq DEF Kids, ToSet
      <3> QED
        BY <3>2 DEF Single
    <2> QED
      BY <2>2, <2>3, <2>4, <2>5 DEF UpTo
  <1> QED
    BY <1>1, <1>2 DEF Singles

-----------------------------------------------------------------------------
(* A value in place of an earlier one.                                     *)
LEMMA ValuesReplaced ==
    ASSUME NEW h, Tree(h), NEW r \in DOMAIN h, Singles(h, r), NEW v, Tree(v),
           NEW t, NEW n \in DOMAIN h, <<t, n>> \in Below(h, r, <<>>), h[n].kids = <<>>,
           NEW b, v = NodeSet(h, n, Leaf(b))
    PROVE  Lands(Values(h, r), Values(v, r), t, b)
  <1> DEFINE e == <<>>
             L == Leaf(b)
             D == {"map", "list"}
  <1>1. L.kids = <<>> /\ L.kind \notin D /\ L.val = b
    BY DEF Leaf
  <1>N. v = NodeSet(h, n, L)
    OBVIOUS
  <1> HIDE DEF L
  <1>2. DOMAIN v = DOMAIN h /\ v[n] = L /\ \A m \in DOMAIN h : m # n => v[m] = h[m]
    BY <1>N, NodeReplaced
  <1>3. \A m \in DOMAIN h : v[m].kids = h[m].kids
    BY <1>1, <1>2
  <1>4. e \in Keys
    BY EmptySeq DEF Keys
  <1>5. Desc(h, r) \subseteq DOMAIN h
    BY DescIs
  <1>6. Below(v, r, e) = Below(h, r, e)
    BY <1>2, <1>3, <1>4, <1>5, BelowSame
  <1>7. \A q, m : <<q, m>> \in Below(h, r, <<>>) => (q = t <=> m = n)
    BY OneNode
  <1>8. ASSUME NEW q, NEW a, HasValue(v, r, q, a)
        PROVE  (q # t /\ HasValue(h, r, q, a)) \/ (q = t /\ a = b)
    <2>1. PICK m : <<q, m>> \in Below(v, r, <<>>) /\ m \in DOMAIN v /\ v[m].kind \notin D /\ a = v[m].val
      BY <1>8 DEF HasValue
    <2>2. <<q, m>> \in Below(h, r, <<>>)
      BY <1>6, <2>1
    <2>3. CASE m = n
      BY <1>1, <1>2, <1>7, <2>1, <2>2, <2>3
    <2>4. CASE m # n
      BY <1>2, <1>7, <2>1, <2>2, <2>4 DEF HasValue
    <2> QED
      BY <2>3, <2>4
  <1>9. ASSUME NEW q, NEW a, HasValue(h, r, q, a), q # t
        PROVE  HasValue(v, r, q, a)
    <2>1. PICK m : <<q, m>> \in Below(h, r, <<>>) /\ m \in DOMAIN h /\ h[m].kind \notin D /\ a = h[m].val
      BY <1>9 DEF HasValue
    <2>2. <<q, m>> \in Below(v, r, <<>>) /\ m # n
      BY <1>6, <1>7, <1>9, <2>1
    <2> QED
      BY <1>2, <2>1, <2>2 DEF HasValue
  <1>10. HasValue(v, r, t, b)
    <2>1. <<t, n>> \in Below(v, r, <<>>)
      BY <1>6
    <2> QED
      BY <1>1, <1>2, <2>1 DEF HasValue
  <1>11. \A q, a : HasValue(v, r, q, a) <=>
                     (q # t /\ HasValue(h, r, q, a)) \/ (q = t /\ a = b)
    BY <1>8, <1>9, <1>10
  <1> QED
    BY <1>2, <1>11, LandsIf

(* A map that has grown by a leaf.                                         *)
GrownBy(h, y, N, new, v) ==
    /\ N \notin DOMAIN h /\ DOMAIN v = DOMAIN h \cup {N} /\ new.node = N
    /\ Kids(v, y) = Kids(h, y) \cup {new} /\ v[N].kids = <<>>
    /\ \A n \in DOMAIN h : n # y => v[n] = h[n]
    /\ v[y].kind = h[y].kind /\ v[y].val = h[y].val

Longer(h, v, r, t, N) ==
    \A q, m : <<q, m>> \in Below(v, r, <<>>) <=>
                  <<q, m>> \in Below(h, r, <<>>) \/ (q = t /\ m = N)

(* A new leaf is below its parent and nothing else is.                     *)
LEMMA BelowGrown ==
    ASSUME NEW h, Tree(h), NEW r \in DOMAIN h, Singles(h, r), NEW v, Tree(v),
           NEW y \in DOMAIN h, NEW N, NEW new, GrownBy(h, y, N, new, v),
           NEW d, <<d, y>> \in Below(h, r, <<>>)
    PROVE  Longer(h, v, r, d \o new.key, N)
  <1> DEFINE e == <<>>
             B == Below(h, r, e)
             C == Below(v, r, e)
             t == d \o new.key
             u == <<t, N>>
             R == B \cup {u}
  <1>1. /\ N \notin DOMAIN h /\ DOMAIN v = DOMAIN h \cup {N} /\ new.node = N
        /\ Kids(v, y) = Kids(h, y) \cup {new} /\ Kids(v, N) = {}
        /\ \A n \in DOMAIN h : n # y => v[n] = h[n]
    <2>1. Kids(v, N) = {}
      BY EmptySeq DEF GrownBy, Kids, ToSet
    <2> QED
      BY <2>1 DEF GrownBy
  <1>2. e \in Keys /\ r \in DOMAIN v
    BY <1>1, EmptySeq DEF Keys
  <1>3. \A q, m : <<q, m>> \in B => (m = y => q = d)
    BY OneNode
  <1>4. <<d, y>> \in B
    OBVIOUS
  <1> HIDE DEF e
  <1>5. B \subseteq Keys \X DOMAIN h /\ <<e, r>> \in B /\ <<e, r>> \in C
    BY <1>2, BelowTyped, BelowHas
  <1>6. \A n \in DOMAIN h : n # y => Kids(v, n) = Kids(h, n)
    BY <1>1 DEF Kids
  <1>7. \A q, m : <<q, m>> \in B => \A kid \in Kids(h, m) : <<q \o kid.key, kid.node>> \in B
    BY <1>2, BelowCloses
  <1>8. \A q, m : <<q, m>> \in C => \A kid \in Kids(v, m) : <<q \o kid.key, kid.node>> \in C
    BY <1>2, BelowCloses
  <1>9. ASSUME NEW q \in Keys, NEW m \in DOMAIN v, NEW kid \in Kids(v, m), <<q, m>> \in R
        PROVE  <<q \o kid.key, kid.node>> \in R
    <2>1. CASE m = N
      BY <1>1, <2>1
    <2>2. CASE m # N
      <3>1. <<q, m>> \in B /\ m \in DOMAIN h
        <4>1. <<q, m>> # u
          BY <2>2
        <4> QED
          BY <1>1, <1>9, <2>2, <4>1
      <3>2. CASE kid \in Kids(h, m)
        BY <1>7, <3>1, <3>2
      <3>3. CASE kid \notin Kids(h, m)
        <4>1. m = y /\ kid = new
          BY <1>1, <1>6, <3>1, <3>3
        <4>2. q = d
          BY <1>3, <3>1, <4>1
        <4> QED
          BY <1>1, <4>1, <4>2
      <3> QED
        BY <3>2, <3>3
    <2> QED
      BY <2>1, <2>2
  <1>10. ASSUME NEW q \in Keys, NEW m \in DOMAIN h, NEW kid \in Kids(h, m), <<q, m>> \in C
         PROVE  <<q \o kid.key, kid.node>> \in C
    <2>1. kid \in Kids(v, m)
      BY <1>1, <1>6
    <2> QED
      BY <1>8, <1>10, <2>1
  <1> HIDE DEF B, C, u
  <1>11. <<e, r>> \in R
    BY <1>5
  <1> HIDE DEF R
  <1>12. C \subseteq R
    BY <1>2, <1>9, <1>11, BelowLeast DEF C
  <1>13. B \subseteq C
    BY <1>2, <1>5, <1>10, BelowLeast DEF B
  <1>14. u \in C
    BY <1>1, <1>4, <1>8, <1>13 DEF u
  <1>15. C = B \cup {u}
    BY <1>12, <1>13, <1>14 DEF R
  <1>16. \A q, m : <<q, m>> = u <=> q = t /\ m = N
    BY DEF u
  <1>17. \A q, m : <<q, m>> \in C <=> <<q, m>> \in B \/ (q = t /\ m = N)
    BY <1>15, <1>16
  <1> QED
    BY <1>17 DEF B, C, e, Longer

-----------------------------------------------------------------------------
(* A path that no entry leads along.                                       *)
LEMMA PathFree ==
    ASSUME NEW h, Tree(h), NEW r \in DOMAIN h, Singles(h, r),
           NEW d, NEW y, <<d, y>> \in Below(h, r, <<>>), NEW key \in Keys, Len(key) = 1,
           \A kid \in Kids(h, y) : kid.key # key, NEW t, t = d \o key
    PROVE  \A m : <<t, m>> \notin Below(h, r, <<>>)
  <1>1. <<>> \in Keys
    BY EmptySeq DEF Keys
  <1>2. Below(h, r, <<>>) \subseteq Keys \X DOMAIN h
    BY <1>1, BelowTyped
  <1>3. d \in Keys
    BY <1>2
  <1>4. t # <<>> /\ Front(t) = d /\ <<Last(t)>> = key
    <2>1. /\ d \o key # <<>> /\ Front(d \o key) = d /\ <<Last(d \o key)>> = key
      BY <1>3, KeysSplit
    <2> QED
      BY <2>1
  <1>5. ASSUME NEW m, <<t, m>> \in Below(h, r, <<>>) PROVE FALSE
    <2>1. Before(h, r, t, m)
      BY <1>4, <1>5, PathBefore
    <2>2. PICK x \in Desc(h, r) : \E kid \in Kids(h, x) :
             <<Front(t), x>> \in Below(h, r, <<>>) /\ kid.key = <<Last(t)>>
      BY <2>1 DEF Before
    <2>3. x = y
      BY <1>4, <2>2, OneNode
    <2> QED
      BY <1>4, <2>2, <2>3
  <1> QED
    BY <1>5

(* A value where there was none.                                           *)
LEMMA ValuesGrown ==
    ASSUME NEW h, Tree(h), NEW r \in DOMAIN h, Singles(h, r), NEW v, Tree(v),
           NEW y \in DOMAIN h, NEW N, NEW new, GrownBy(h, y, N, new, v), h[y].kind = "map",
           NEW d, <<d, y>> \in Below(h, r, <<>>), new.key \in Keys, Len(new.key) = 1,
           \A kid \in Kids(h, y) : kid.key # new.key,
           NEW t, t = d \o new.key, NEW b, v[N] = Leaf(b)
    PROVE  Lands(Values(h, r), Values(v, r), t, b)
  <1> DEFINE D == {"map", "list"}
             B(q, m) == <<q, m>> \in Below(h, r, <<>>)
             C(q, m) == <<q, m>> \in Below(v, r, <<>>)
  <1>1. /\ N \notin DOMAIN h /\ DOMAIN v = DOMAIN h \cup {N}
        /\ \A n \in DOMAIN h : n # y => v[n] = h[n]
        /\ v[y].kind = h[y].kind /\ v[y].val = h[y].val
    BY DEF GrownBy
  <1>2. \A q, m : C(q, m) <=> B(q, m) \/ (q = t /\ m = N)
    <2>1. Longer(h, v, r, d \o new.key, N)
      BY BelowGrown
    <2>2. Longer(h, v, r, t, N)
      BY <2>1
    <2> HIDE DEF B, C
    <2> QED
      BY <2>2 DEF B, C, Longer
  <1>3. \A m : ~B(t, m)
    BY PathFree
  <1>4. v[N].kind \notin D /\ v[N].val = b
    BY DEF Leaf
  <1>5. \A q, a : HasValue(h, r, q, a) <=>
           \E n : B(q, n) /\ n \in DOMAIN h /\ h[n].kind \notin D /\ a = h[n].val
    BY DEF HasValue
  <1>6. \A q, a : HasValue(v, r, q, a) <=>
           \E n : C(q, n) /\ n \in DOMAIN v /\ v[n].kind \notin D /\ a = v[n].val
    BY DEF HasValue
  <1>7. h[y].kind \in D
    OBVIOUS
  <1>8. \A n \in DOMAIN h : v[n].kind = h[n].kind /\ v[n].val = h[n].val
    BY <1>1
  <1> HIDE DEF B, C, D
  <1>9. ASSUME NEW q, NEW a, HasValue(v, r, q, a)
        PROVE  (q # t /\ HasValue(h, r, q, a)) \/ (q = t /\ a = b)
    <2>1. PICK n : C(q, n) /\ n \in DOMAIN v /\ v[n].kind \notin D /\ a = v[n].val
      BY <1>6, <1>9
    <2>2. CASE n \in DOMAIN h
      <3>1. B(q, n) /\ q # t
        BY <1>1, <1>2, <1>3, <2>1, <2>2
      <3> QED
        BY <1>5, <1>8, <2>1, <2>2, <3>1
    <2>3. CASE n = N
      <3>1. q = t \/ B(q, n)
        BY <1>2, <2>1
      <3>2. CASE q = t
        BY <1>4, <2>1, <2>3, <3>2
      <3>3. CASE B(q, n)
        <4>1. n \in DOMAIN h
          <5> DEFINE e == <<>>
                     E == Below(h, r, e)
          <5>1. e \in Keys
            BY EmptySeq DEF Keys
          <5>2. <<q, n>> \in E
            BY <3>3 DEF B
          <5>3. E \subseteq Keys \X DOMAIN h
            BY <5>1, BelowTyped
          <5> HIDE DEF E
          <5> QED
            BY <5>2, <5>3
        <4> QED
          BY <1>1, <2>3, <4>1
      <3> QED
        BY <3>1, <3>2, <3>3
    <2> QED
      BY <1>1, <2>1, <2>2, <2>3
  <1>10. ASSUME NEW q, NEW a, HasValue(h, r, q, a)
         PROVE  q # t /\ HasValue(v, r, q, a)
    <2>1. PICK n : B(q, n) /\ n \in DOMAIN h /\ h[n].kind \notin D /\ a = h[n].val
      BY <1>5, <1>10
    <2>2. C(q, n) /\ n \in DOMAIN v /\ q # t
      BY <1>1, <1>2, <1>3, <2>1
    <2> QED
      BY <1>6, <1>8, <2>1, <2>2
  <1>11. HasValue(v, r, t, b)
    <2>1. C(t, N) /\ N \in DOMAIN v
      BY <1>1, <1>2
    <2> QED
      BY <1>4, <1>6, <2>1
  <1>12. \A q, a : HasValue(v, r, q, a) <=>
                     (q # t /\ HasValue(h, r, q, a)) \/ (q = t /\ a = b)
    BY <1>9, <1>10, <1>11
  <1>13. r \in DOMAIN v
    BY <1>1
  <1> QED
    BY <1>12, <1>13, LandsIf

-----------------------------------------------------------------------------
(* An entry more.                                                          *)
LEMMA KidsAppended ==
    ASSUME NEW h, Tree(h), NEW y \in DOMAIN h, NEW N, NEW new, NEW L, NEW v,
           Larger(h, y, N, new, L, v)
    PROVE  Kids(v, y) = Kids(h, y) \cup {new}
  <1> DEFINE kids == h[y].kids
             Old == [key : Keys, node : y + 1 .. Len(h)]
             S == Old \cup {new}
             w == Append(kids, new)
             m == Len(kids)
  <1>1. kids \in Seq(Old)
    BY DEF Tree, Keys
  <1>V. v[y].kids = w
    BY DEF Larger
  <1> HIDE DEF kids, Old
  <1>2. \A i \in 1 .. Len(kids) : kids[i] \in S
    BY <1>1, ElementOfSeq
  <1>3. kids \in Seq(S) /\ new \in S
    BY <1>1, <1>2, Retyped
  <1> HIDE DEF S
  <1>4. /\ w \in Seq(S) /\ Len(w) = m + 1 /\ w[m + 1] = new
        /\ \A i \in 1 .. m : w[i] = kids[i]
    BY <1>3, AppendProperties
  <1>5. DOMAIN w = 1 .. m + 1 /\ DOMAIN kids = 1 .. m /\ m \in Nat
    BY <1>3, <1>4, LenProperties
  <1>6. 1 .. m + 1 = (1 .. m) \cup {m + 1}
    BY <1>5
  <1> HIDE DEF w, m
  <1>7. Kids(v, y) = {w[i] : i \in DOMAIN w}
    BY <1>V DEF Kids, ToSet
  <1>8. Kids(h, y) = {kids[i] : i \in DOMAIN kids}
    BY DEF Kids, ToSet, kids
  <1> QED
    BY <1>4, <1>5, <1>6, <1>7, <1>8

(* A value is put under the target of a spec.                              *)
LEMMA WriteStep ==
    ASSUME NEW g, NEW A, Ordinary(g, A), NEW h, Clean(g, A, h, {}),
           NEW r \in A, g[r].spec = NoSpec, NEW y, NEW k, Slot(g, A, y, k),
           NEW d, <<d, y>> \in Below(g, r, <<>>), NEW t, t = d \o k.key,
           <<Base(t)>> = k.key, NEW b, NEW v, v = Assign(h, y, t, b)
    PROVE  Clean(g, A, v, {}) /\ Lands(Values(h, r), Values(v, r), t, b)
  <1> DEFINE key == k.key
             bs == <<Base(t)>>
             e == <<>>
  <1>1. /\ y \in A /\ y \in DOMAIN g /\ y \in DOMAIN h /\ k \in Kids(g, y)
        /\ g[y].spec = NoSpec /\ g[y].kind = "map" /\ h[y].kind = g[y].kind
        /\ Tree(g) /\ AllWhole(h) /\ Single(g, y)
    BY DEF Clean, CleanNode, Ordinary, Formed, Slot, AllWhole
  <1>2. key \in Keys /\ Len(key) = 1
    BY <1>1, KidsAre DEF Single
  <1>3. g[y].kids # <<>>
    BY EmptySeq DEF Slot, Kids, ToSet
  <1>4. <<d, y>> \in Below(h, r, <<>>)
    BY <1>1, <1>3, CleanStays
  <1>5. Tree(h) /\ r \in DOMAIN h /\ Singles(h, r)
    BY CleanSingles
  <1>6. Clean(g, A, v, {})
    <2> DEFINE U == {}
               V == U \ {k.node}
    <2>1. Clean(g, A, h, U) /\ V = {}
      OBVIOUS
    <2> HIDE DEF U
    <2>2. Clean(g, A, v, V)
      BY <2>1, CleanAssign
    <2> QED
      BY <2>1, <2>2
  <1>7. Tree(v)
    BY <1>6 DEF Clean
  <1>8. Assigned(h, y, key, b, v)
    <2>1. Assigned(h, y, bs, b, v)
      BY AssignIs
    <2>2. bs = key
      OBVIOUS
    <2> HIDE DEF bs, key
    <2> QED
      BY <2>1, <2>2
  <1>9. ASSUME NEW kid \in Kids(h, y), kid.key = key, v = NodeSet(h, kid.node, Leaf(b))
        PROVE  Lands(Values(h, r), Values(v, r), t, b)
    <2>1. Fresh(g, h, kid.node, {})
      <3> DEFINE U == {}
      <3>1. Clean(g, A, h, U) /\ \A s : s \notin U
        OBVIOUS
      <3> HIDE DEF U
      <3>2. (kid = k /\ k.node \in U) \/ Fresh(g, h, kid.node, U)
        BY <1>9, <3>1, CleanKid
      <3> QED
        BY <3>1, <3>2 DEF U
    <2>2. h[kid.node].kids = <<>> /\ kid.node \in DOMAIN h
      BY <2>1 DEF Fresh, Cleared
    <2>3. e \in Keys
      BY EmptySeq DEF Keys
    <2>4. <<d \o kid.key, kid.node>> \in Below(h, r, <<>>)
      BY <1>4, <1>5, <2>3, BelowCloses
    <2>5. d \o kid.key = t
      BY <1>9
    <2>6. <<t, kid.node>> \in Below(h, r, <<>>)
      BY <2>4, <2>5
    <2> QED
      BY <1>5, <1>7, <1>9, <2>2, <2>6, ValuesReplaced
  <1>10. ASSUME \A kid \in Kids(h, y) : kid.key # key, v = Grown(h, y, key, b)
         PROVE  Lands(Values(h, r), Values(v, r), t, b)
    <2> DEFINE N == Len(h) + 1
               new == [key |-> key, node |-> N]
               L == Leaf(b)
    <2>1. Larger(h, y, N, new, L, v)
      BY <1>1, <1>5, <1>10, GrownIs
    <2>2. new.key = key /\ new.node = N /\ L.kids = <<>>
      BY DEF Leaf
    <2> HIDE DEF N, new, L, key
    <2>3. Kids(v, y) = Kids(h, y) \cup {new}
      BY <1>1, <1>5, <2>1, KidsAppended
    <2>4. GrownBy(h, y, N, new, v) /\ v[N] = L
      BY <2>1, <2>2, <2>3 DEF GrownBy, Larger
    <2>5. new.key \in Keys /\ Len(new.key) = 1 /\ h[y].kind = "map" /\ v[N] = Leaf(b)
      BY <1>1, <1>2, <2>2, <2>4 DEF L
    <2>6. \A kid \in Kids(h, y) : kid.key # new.key
      BY <1>10, <2>2
    <2>7. t = d \o new.key
      BY <2>2 DEF key
    <2> QED
      BY <1>1, <1>4, <1>5, <1>7, <2>4, <2>5, <2>6, <2>7, ValuesGrown
  <1> QED
    BY <1>6, <1>8, <1>9, <1>10 DEF Assigned

-----------------------------------------------------------------------------
(* All targets get the value, and nothing else changes.                    *)
Landed(V, W, T, a) == W = {x \in V : x[1] \notin T} \cup {<<t, a>> : t \in T}

(* One target more.                                                        *)
LEMMA LandedNext ==
    ASSUME NEW V, NEW W, NEW X, NEW a, NEW s, NEW t \in s,
           Landed(V, W, s \ {t}, a), Lands(W, X, t, a)
    PROVE  Landed(V, X, s, a)
  <1> DEFINE u == s \ {t}
             P(T) == {<<z, a>> : z \in T}
  <1>1. W = {x \in V : x[1] \notin u} \cup P(u)
    BY DEF Landed
  <1>2. X = {x \in W : x[1] # t} \cup {<<t, a>>}
    BY DEF Lands
  <1>3. \A T : \A w : w \in P(T) <=> \E z \in T : w = <<z, a>>
    OBVIOUS
  <1> HIDE DEF P
  <1>4. {x \in W : x[1] # t} = {x \in V : x[1] \notin s} \cup P(u)
    <2>1. \A w \in P(u) : w[1] \in u /\ w[1] # t
      BY <1>3
    <2> QED
      BY <1>1, <2>1
  <1>5. P(u) \cup {<<t, a>>} = P(s)
    BY <1>3
  <1>6. X = {x \in V : x[1] \notin s} \cup P(s)
    BY <1>2, <1>4, <1>5
  <1> QED
    BY <1>6 DEF Landed, P

-----------------------------------------------------------------------------
(* The targets of an insertion, each with its map.                         *)
Targets(p, src, matching) == {mapping[p][x].target : x \in Hits(p, src, matching)}

(* The specs an insertion hits are those of its source that match.         *)
LEMMA HitsAre ==
    ASSUME AllGathered, NEW p \in ToSet(Parts), NEW src, Main(src) \in DOMAIN mapping[p],
           NEW matching
    PROVE  Hits(p, src, matching) =
             {x \in DOMAIN mapping[p] :
                x[1] = src /\ mapping[p][x].spec.ptrn \in matching \cup {NoPattern}}
  <1> DEFINE m == mapping[p]
             x0 == Main(src)
             K == KeysOf(m, src)
  <1>1. MapShape(m)
    BY GatheredIs
  <1>2. x0[1] = src /\ x0 \in DOMAIN m
    BY DEF Main
  <1> HIDE DEF m, x0
  <1>3. ToSet(Append(m[Main(x0[1])].aliases, Main(x0[1]))) = KeysOf(m, x0[1])
    BY <1>1, <1>2, ShapeFinds
  <1>4. ToSet(SourcePaths(p, src)) = K
    BY <1>2, <1>3 DEF SourcePaths, m
  <1>5. K = {x \in DOMAIN m : x[1] = src}
    BY DEF KeysOf
  <1> HIDE DEF K
  <1>6. Hits(p, src, matching) = {x \in K : m[x].spec.ptrn \in matching \cup {NoPattern}}
    BY <1>4 DEF Hits, m
  <1> QED
    BY <1>5, <1>6 DEF m

(* They are finitely many, and each has a place.                           *)
LEMMA TargetsFinite ==
    ASSUME AllGathered, NEW p \in ToSet(Parts), NEW src, Main(src) \in DOMAIN mapping[p],
           NEW matching
    PROVE  /\ IsFiniteSet(Targets(p, src, matching))
           /\ \A t \in Targets(p, src, matching) : \E y, k : Place(p, t, y, k)
  <1> DEFINE m == mapping[p]
             H == Hits(p, src, matching)
             T == Targets(p, src, matching)
             f == [x \in H |-> m[x].target]
  <1>1. H \subseteq DOMAIN m
    BY HitsAre
  <1>2. IsFiniteSet(DOMAIN m)
    BY GatheredIs DEF MapShape
  <1>3. IsFiniteSet(H)
    BY <1>1, <1>2, FS_Subset
  <1>4. T = {m[x].target : x \in H}
    BY DEF Targets
  <1>5. ASSUME NEW t \in T PROVE \E y, k : Place(p, t, y, k)
    <2>1. PICK x \in H : t = m[x].target
      BY <1>4
    <2> QED
      BY <1>1, <2>1, Placed
  <1> HIDE DEF H, T, m
  <1>6. f \in Surjection(H, T)
    <2>1. f \in [H -> T]
      BY <1>4
    <2>2. \A t \in T : \E x \in H : f[x] = t
      BY <1>4
    <2> HIDE DEF f
    <2> QED
      BY <2>1, <2>2 DEF Surjection
  <1> HIDE DEF f
  <1>7. IsFiniteSet(T)
    BY <1>3, <1>6, FS_Surjection
  <1> QED
    BY <1>5, <1>7 DEF T

(* What the insertions make of the object.                                 *)
Filled(h, r, s) ==
    Clean(loaded, All, h, {}) /\ Landed(Values(heap, r), Values(h, r), s, "data")

(* One target more is written.                                             *)
LEMMA FilledNext ==
    ASSUME AllGathered, Clean(loaded, All, heap, {}), NEW p \in ToSet(Parts),
           NEW h, NEW s, NEW t \in s, Filled(h, roots[p], s \ {t}),
           NEW y, NEW k, Place(p, t, y, k)
    PROVE  Filled(Written(h, p, t), roots[p], s)
  <1> DEFINE r == roots[p]
             d == Dir(t)
             v == Written(h, p, t)
             g == loaded
             A == All
             a == "data"
             u == s \ {t}
  <1>1. Parents(p, t) = {y}
    BY OneParentOf
  <1>2. v = Assign(h, y, t, a)
    BY <1>1 DEF Written
  <1>3. Ordinary(g, A) /\ r \in A /\ g[r].spec = NoSpec
    BY AllOrdinary
  <1>4. /\ Slot(g, A, y, k) /\ <<Base(t)>> = k.key /\ t = d \o k.key
        /\ <<d, y>> \in Below(g, r, <<>>)
    BY DEF Place, Found
  <1>5. Clean(g, A, h, {}) /\ Landed(Values(heap, r), Values(h, r), u, a)
    BY DEF Filled
  <1> HIDE DEF r, d, v, g, A, a
  <1>6. Clean(g, A, v, {}) /\ Lands(Values(h, r), Values(v, r), t, a)
    BY <1>2, <1>3, <1>4, <1>5, WriteStep
  <1>7. Landed(Values(heap, r), Values(v, r), s, a)
    BY <1>5, <1>6, LandedNext
  <1>8. Clean(loaded, All, v, {}) /\ Landed(Values(heap, r), Values(v, r), s, "data")
    BY <1>6, <1>7 DEF g, A, a
  <1> QED
    BY <1>8 DEF Filled, v, r

(* However many targets there are, each is written.                        *)
LEMMA FoldFills ==
    ASSUME AllGathered, Clean(loaded, All, heap, {}), NEW p \in ToSet(Parts),
           NEW T, IsFiniteSet(T), \A t \in T : \E y, k : Place(p, t, y, k),
           NEW f, Folded(f, p, heap, T)
    PROVE  Filled(f[T], roots[p], T)
  <1> DEFINE N == Cardinality(T)
             r == roots[p]
             S == {n \in 0 .. N : \A s \in SUBSET T : Cardinality(s) = n => Filled(f[s], r, s)}
  <1>1. N \in Nat
    BY FS_CardinalityType
  <1>2. ASSUME NEW s \in SUBSET T
        PROVE  /\ Cardinality(s) \in Nat
               /\ Cardinality(s) = 0 <=> s = {}
               /\ \A x \in s : s \ {x} \in SUBSET T /\ Cardinality(s \ {x}) = Cardinality(s) - 1
    <2>1. IsFiniteSet(s)
      BY FS_Subset
    <2>2. Cardinality(s) \in Nat
      BY <2>1, FS_CardinalityType
    <2>3. Cardinality(s) = 0 <=> s = {}
      BY <2>1, FS_EmptySet
    <2>4. \A x \in s : Cardinality(s \ {x}) = Cardinality(s) - 1
      BY <2>1, FS_RemoveElement
    <2> QED
      BY <2>2, <2>3, <2>4
  <1> HIDE DEF N
  <1>3. Filled(heap, r, {})
    BY DEF Filled, Landed
  <1>4. 0 \in S
    BY <1>1, <1>2, <1>3 DEF Folded
  <1>5. ASSUME NEW n \in 1 .. N, n - 1 \in S PROVE n \in S
    <2> SUFFICES ASSUME NEW s \in SUBSET T, Cardinality(s) = n PROVE Filled(f[s], r, s)
      BY <1>1
    <2>1. s # {}
      BY <1>1, <1>2
    <2>2. PICK t \in s : f[s] = Written(f[s \ {t}], p, t)
      BY <2>1 DEF Folded
    <2>3. s \ {t} \in SUBSET T /\ Cardinality(s \ {t}) = n - 1
      BY <1>2
    <2>4. Filled(f[s \ {t}], r, s \ {t})
      BY <1>5, <2>3
    <2>5. PICK y, k : Place(p, t, y, k)
      OBVIOUS
    <2> DEFINE h == f[s \ {t}]
    <2>6. Filled(h, roots[p], s \ {t})
      BY <2>4
    <2> HIDE DEF h
    <2>7. Filled(Written(h, p, t), roots[p], s)
      BY <2>5, <2>6, FilledNext
    <2> QED
      BY <2>2, <2>7 DEF h
  <1>6. N \in S
    <2> HIDE DEF S
    <2> QED
      BY <1>1, <1>4, <1>5, TurnInduction
  <1> QED
    BY <1>6 DEF N

(* What an insertion makes of the object (insertIntoStats).                *)
LEMMA InsertFills ==
    ASSUME LoadInv, CleanInv, AllPlain, NEW p \in ToSet(Parts), NEW src, NEW matching,
           Insert(p, src, matching)
    PROVE  Filled(heap', roots[p], Targets(p, src, matching))
  <1> DEFINE T == Targets(p, src, matching)
  <1>1. /\ phase = "ready" /\ Main(src) \in DOMAIN mapping[p]
        /\ heap' = FoldSet(LAMBDA t, h : Written(h, p, t), heap, T)
    BY DEF Insert, Targets
  <1>2. AllGathered /\ Clean(loaded, All, heap, {})
    BY <1>1, NoneLeft
  <1>3. IsFiniteSet(T) /\ \A t \in T : \E y, k : Place(p, t, y, k)
    BY <1>1, <1>2, TargetsFinite
  <1> HIDE DEF T
  <1>4. PICK f : /\ FoldSet(LAMBDA t, h : Written(h, p, t), heap, T) = f[T]
                 /\ Folded(f, p, heap, T)
    BY <1>3, FoldIs
  <1>5. heap' = f[T]
    BY <1>1, <1>4
  <1>6. Filled(f[T], roots[p], T)
    BY <1>2, <1>3, <1>4, FoldFills
  <1> QED
    BY <1>5, <1>6 DEF T

-----------------------------------------------------------------------------
(* An insertion leaves nothing to be replaced, either.                     *)
LEMMA CleanInsert ==
    ASSUME LoadInv, CleanInv, NEW p \in ToSet(Parts), NEW src, NEW matching,
           Insert(p, src, matching)
    PROVE  CleanInv'
  <1>1. phase = "ready" /\ phase' = "ready" /\ UNCHANGED <<stack, part, roots, mapping, left, loaded>>
    BY DEF Insert, partVars
  <1>2. /\ AllPlain' = AllPlain /\ All' = All
    BY <1>1 DEF AllPlain, Plain, All
  <1>3. ASSUME AllPlain PROVE Clean(loaded, All, heap', {})
    BY <1>3, InsertFills DEF Filled
  <1>4. Pending({})'
    BY DEF Pending
  <1> QED
    BY <1>1, <1>2, <1>3, <1>4 DEF CleanInv

(* CleanInv holds before any template is loaded.                           *)
LEMMA CleanInit == Init => CleanInv
  BY DEF Init, CleanInv

(* CleanInv is kept by every step.                                         *)
LEMMA CleanNext == SeekInv /\ LoadInv /\ CleanInv /\ [Next]_vars => CleanInv'
  <1> SUFFICES ASSUME SeekInv, LoadInv, CleanInv, [Next]_vars PROVE CleanInv'
    OBVIOUS
  <1>A. phase' \notin {"defaults", "ready"} => CleanInv'
    BY DEF CleanInv
  <1>1. CASE BeginWalk
    BY <1>1, <1>A DEF BeginWalk
  <1>2. CASE WalkOn
    <2>1. mode \in {"seek", "walk"} /\ phase' = phase
      BY <1>2 DEF WalkOn, Step, SeekCall, SeekLeave, SeekDone, WalkCall, WalkLeave, WalkDone
    <2>2. phase' = "idle"
      BY <2>1 DEF SeekInv
    <2> QED
      BY <1>A, <2>2
  <1>3. CASE LoadTemplateSource
    BY <1>3, <1>A DEF LoadTemplateSource
  <1>4. CASE Panic
    BY <1>4, <1>A DEF Panic
  <1>5. CASE Split
    BY <1>4, <1>5, <1>A DEF Split, Divide
  <1>6. CASE \E j \in Turns : Extract(j) \/ ExtractPanics(j) \/ PassBy(j)
    BY <1>4, <1>6, <1>A DEF Extract, ExtractPanics, PassBy
  <1>7. CASE ExtractLeave
    BY <1>7, <1>A DEF ExtractLeave
  <1>8. CASE ExtractDone
    BY <1>8, CleanExtracted
  <1>9. CASE \E x \in left : ApplyDefault(x) \/ DefaultPanics(x)
    BY <1>4, <1>9, CleanApply DEF DefaultPanics
  <1>10. CASE DefaultsDone
    BY <1>10, CleanDone
  <1>11. CASE \E p \in ToSet(Parts), src \in Sources, matching \in SUBSET Patterns :
                 Insert(p, src, matching)
    BY <1>11, CleanInsert
  <1>12. CASE UNCHANGED vars
    <2>1. UNCHANGED <<heap, stack, phase, part, roots, mapping, left, loaded>>
      BY <1>12 DEF vars, partVars
    <2>2. AllPlain' = AllPlain /\ Current' = Current /\ All' = All /\ \A p : Found(p)' = Found(p)
      BY <2>1 DEF AllPlain, Plain, Current, All, Found
    <2>3. \A U : Pending(U)' = Pending(U)
      BY <2>1, <2>2 DEF Pending, Awaited
    <2> QED
      BY <2>1, <2>2, <2>3 DEF CleanInv
  <1> QED
    BY <1>1, <1>2, <1>3, <1>5, <1>6, <1>7, <1>8, <1>9, <1>10, <1>11, <1>12 DEF Next, Loading

(* No spec of an ordinary template is left to be served as a value when it *)
(* is loaded, and every target has a map to be put into, so that no later  *)
(* insertion can panic (applyDefaults).                                    *)
THEOREM NoSpecIsLeft == Spec => []LoadedClean
  <1>1. LoadInv /\ CleanInv => LoadedClean
    <2> SUFFICES ASSUME LoadInv, CleanInv, phase = "ready", AllPlain, NEW p \in ToSet(Parts)
                 PROVE  /\ \A x \in Below(heap, roots[p], <<>>) : SpecOf(x[2]) = NoSpec
                        /\ \A x \in DOMAIN mapping[p] :
                              \A n \in Parents(p, mapping[p][x].target) : Is(n, "map")
      BY DEF LoadedClean
    <2> DEFINE r == roots[p]
               e == <<>>
               B == Below(heap, r, e)
               U == {}
    <2>1. AllGathered /\ Clean(loaded, All, heap, U)
      BY NoneLeft
    <2>2. Ordinary(loaded, All) /\ r \in All /\ loaded[r].spec = NoSpec
      BY <2>1, AllOrdinary
    <2>3. e \in Keys /\ Tree(heap) /\ r \in DOMAIN heap
      BY <2>1, <2>2, EmptySeq DEF Keys, Clean, Ordinary
    <2> HIDE DEF r, U
    <2>4. B \subseteq Keys \X DOMAIN heap
      BY <2>3, BelowTyped
    <2>5. ASSUME NEW q, NEW n, <<q, n>> \in B PROVE heap[n].spec = NoSpec
      <3>1. UpTo(loaded, All, heap, r, U, q, n)
        BY <2>1, <2>2, <2>5, CleanBelow
      <3>2. CASE n \in All /\ loaded[n].spec = NoSpec
        BY <2>1, <3>2 DEF Clean, CleanNode
      <3>3. CASE Fresh(loaded, heap, n, U)
        BY <3>3 DEF Fresh, Cleared
      <3> QED
        BY <3>1, <3>2, <3>3 DEF UpTo, U
    <2> HIDE DEF B
    <2>6. ASSUME NEW x \in B PROVE heap[x[2]].spec = NoSpec
      <3>1. x = <<x[1], x[2]>>
        BY <2>4
      <3> QED
        BY <2>5, <3>1
    <2>7. ASSUME NEW x \in DOMAIN mapping[p]
          PROVE  \A n \in Parents(p, mapping[p][x].target) : Is(n, "map")
      <3> DEFINE t == mapping[p][x].target
      <3>1. PICK y, k : Place(p, t, y, k)
        BY <2>1, Placed
      <3> HIDE DEF t
      <3>2. Parents(p, t) = {y} /\ Is(y, "map")
        BY <2>1, <3>1, OneParentOf
      <3> QED
        BY <3>2 DEF t
    <2> QED
      BY <2>6, <2>7 DEF SpecOf, B, r
  <1> QED
    BY <1>1, SeekInit, SeekNext, LoadInit, LoadNext, CleanInit, CleanNext, PTL DEF Spec

-----------------------------------------------------------------------------
(* What an insertion asks for.                                             *)
Asked(p, src, matching) ==
    {s[1] : s \in {s \in SpecsOf(p) :
                     /\ s[2].src = src
                     /\ s[2].ptrn \in matching \cup {NoPattern}}}

(* It asks for the targets it writes to.                                   *)
LEMMA TargetsAsked ==
    ASSUME LoadInv, phase = "ready", AllPlain, NEW p \in ToSet(Parts), NEW src,
           Main(src) \in DOMAIN mapping[p], NEW matching
    PROVE  Asked(p, src, matching) = Targets(p, src, matching)
  <1> DEFINE m == mapping[p]
             M == matching \cup {NoPattern}
             pair(x) == <<m[x].target, m[x].spec>>
             H == {x \in DOMAIN m : x[1] = src /\ m[x].spec.ptrn \in M}
  <1>1. /\ SpecsOf(p) = {pair(x) : x \in DOMAIN m}
        /\ \A x \in DOMAIN m : m[x].spec.src = x[1]
    BY MappedAll
  <1>2. Hits(p, src, matching) = H
    BY GatheredThen, HitsAre
  <1>3. Targets(p, src, matching) = {m[x].target : x \in H}
    BY <1>2 DEF Targets
  <1>4. \A x \in DOMAIN m : pair(x)[1] = m[x].target /\ pair(x)[2] = m[x].spec
    OBVIOUS
  <1>5. Asked(p, src, matching) =
           {s[1] : s \in {s \in SpecsOf(p) : s[2].src = src /\ s[2].ptrn \in M}}
    BY DEF Asked
  <1> HIDE DEF m, M, pair
  <1> QED
    BY <1>1, <1>3, <1>4, <1>5

(* A metric changes the values of an ordinary template that its specs ask  *)
(* for, and no others (the insertions of MetricProcessor).                 *)
THEOREM InsertionsLand == Spec => InsertLands
  <1>1. ASSUME LoadInv, CleanInv, NEW p \in ToSet(Parts), NEW src, NEW matching,
               AllPlain, Insert(p, src, matching)
        PROVE  ValuesOf(p)' = {x \in ValuesOf(p) : x[1] \notin Asked(p, src, matching)}
                              \cup {<<t, "data">> : t \in Asked(p, src, matching)}
    <2> DEFINE T == Targets(p, src, matching)
               r == roots[p]
    <2>1. phase = "ready" /\ Main(src) \in DOMAIN mapping[p] /\ roots' = roots
      BY <1>1 DEF Insert, partVars
    <2>2. Asked(p, src, matching) = T
      BY <1>1, <2>1, TargetsAsked
    <2>3. Landed(Values(heap, r), Values(heap', r), T, "data")
      BY <1>1, InsertFills DEF Filled
    <2>4. ValuesOf(p) = Values(heap, r) /\ ValuesOf(p)' = Values(heap', r)
      BY <2>1 DEF ValuesOf, Values, IsDir
    <2> HIDE DEF T, r
    <2> QED
      BY <2>2, <2>3, <2>4 DEF Landed
  <1>2. LoadInv /\ CleanInv =>
          \A p \in ToSet(Parts), src \in Sources, matching \in SUBSET Patterns :
             AllPlain /\ Insert(p, src, matching) =>
                LET asked == {s[1] : s \in {s \in SpecsOf(p) :
                                /\ s[2].src = src
                                /\ s[2].ptrn \in matching \cup {NoPattern}}}
                IN  ValuesOf(p)' = {x \in ValuesOf(p) : x[1] \notin asked}
                                   \cup {<<t, "data">> : t \in asked}
    BY <1>1 DEF Asked
  <1> QED
    BY <1>2, SeekInit, SeekNext, LoadInit, LoadNext, CleanInit, CleanNext, PTL
    DEF Spec, InsertLands

-----------------------------------------------------------------------------
(* What is wrong with the template.                                        *)
Faulty(s) ==
    \/ s.broken
    \/ IF s.type = "time" THEN ~s.fits
       ELSE \/ s.type \notin DOMAIN Parsed
            \/ s.default \notin Parsed[s.type] \cup {NoText}

Explained ==
    \/ roots["stats"] = 1
    \/ ~AllPlain
    \/ \E p \in ToSet(Parts) : \E s \in SpecsOf(p) : Faulty(s[2])

(* The defaults of the types parse.                                        *)
LEMMA NoDefault ==
    ASSUME NEW s, ~HasDefault(s)
    PROVE  Faulty(s)
  <1>1. DOMAIN Parsed = {"str", "int", "bool", "float64", "ktime"}
    BY DEF Parsed
  <1>2. /\ Defaults["str"] \in Parsed["str"] /\ Defaults["int"] \in Parsed["int"]
        /\ Defaults["bool"] \in Parsed["bool"]
        /\ Defaults["float64"] \in Parsed["float64"]
        /\ Defaults["ktime"] \in Parsed["ktime"]
    BY DEF Parsed, Defaults, Texts
  <1>3. CASE s.type = "time"
    BY <1>3 DEF HasDefault, Faulty
  <1>4. CASE s.type # "time" /\ s.type \notin DOMAIN Parsed
    BY <1>4 DEF Faulty
  <1>5. CASE s.type # "time" /\ s.type \in DOMAIN Parsed
    <2>1. Defaults[s.type] \in Parsed[s.type]
      BY <1>1, <1>2, <1>5
    <2>2. ~(s.default = NoText \/ s.drop) /\ s.default \notin Parsed[s.type]
      BY <1>5, <2>1 DEF HasDefault
    <2> QED
      BY <1>5, <2>2 DEF Faulty
  <1> QED
    BY <1>3, <1>4, <1>5

(* A spec that is not well formed is one of its part.                      *)
LEMMA BrokenExplained ==
    ASSUME LoadInv, NEW j \in Turns, ExtractPanics(j)
    PROVE  Explained
  <1> DEFINE n == KidNode(j)
             q == KidPath(j)
             u == <<q, n>>
  <1>1. phase = "extract" /\ loaded = heap /\ SpecOf(n) # NoSpec /\ SpecOf(n).broken
    BY ExtractingIs DEF ExtractPanics
  <1>2. /\ Tree(heap) /\ stack \in Seq(Frames(heap))
        /\ Current \in ToSet(Parts) /\ Ahead(heap, stack) \subseteq Found(Current)
    BY <1>1, ExtractingIs
  <1>3. /\ n \in DOMAIN heap /\ q \in Keys /\ Top = stack[Len(stack)]
        /\ Len(stack) \in Nat \ {0} /\ Top \in Frames(heap)
    BY <1>2, TurnIs
  <1>4. u \in Below(heap, n, q)
    BY <1>2, <1>3, BelowHas
  <1>5. u \in UnderKids(heap, Top)
    BY <1>2, <1>4, UnderTop
  <1>6. u \in Ahead(heap, stack)
    BY <1>2, <1>3, <1>5, AheadLast
  <1>7. u \in Found(Current) /\ u[1] = q /\ u[2] = n
    BY <1>2, <1>6
  <1> HIDE DEF u
  <1> DEFINE F == Found(Current)
  <1>8. SpecsOf(Current) =
           {<<x[1], loaded[x[2]].spec>> : x \in {y \in F : loaded[y[2]].spec # NoSpec}}
    BY DEF SpecsOf, Found
  <1>9. loaded[n].spec # NoSpec /\ loaded[n].spec.broken
    BY <1>1 DEF SpecOf
  <1> HIDE DEF F, n, q
  <1> DEFINE s == <<u[1], loaded[u[2]].spec>>
  <1>10. s \in SpecsOf(Current)
    BY <1>7, <1>8, <1>9 DEF F
  <1>11. s[2] = loaded[n].spec
    BY <1>7
  <1> HIDE DEF s
  <1>12. Faulty(s[2])
    BY <1>9, <1>11 DEF Faulty
  <1> QED
    BY <1>2, <1>10, <1>12 DEF Explained

(* Every target of an ordinary template has a map; a spec without a        *)
(* default is one of its part.                                             *)
LEMMA DefaultExplained ==
    ASSUME LoadInv, CleanInv, NEW x \in left, DefaultPanics(x)
    PROVE  Explained
  <1> SUFFICES ASSUME AllPlain PROVE Explained
    BY DEF Explained
  <1> DEFINE c == Current
             m == mapping[c]
             t == m[x].target
             s == m[x].spec
             w == <<t, s>>
  <1>1. phase = "defaults" /\ (~HasDefault(s) \/ \E n \in Parents(c, t) : ~Is(n, "map"))
    BY DEF DefaultPanics
  <1>2. /\ c \in ToSet(Parts) /\ AllGathered /\ x \in DOMAIN m
        /\ \E U : Clean(loaded, All, heap, U)
    BY <1>1, GatheredThen DEF CleanInv
  <1>3. PICK U : Clean(loaded, All, heap, U)
    BY <1>2
  <1>4. PICK y, k : Place(c, t, y, k)
    BY <1>2, Placed
  <1>5. SpecsOf(c) = {<<m[z].target, m[z].spec>> : z \in DOMAIN m}
    BY <1>1, <1>2, MappedAll
  <1>6. w \in SpecsOf(c) /\ w[2] = s
    BY <1>2, <1>5
  <1> HIDE DEF c, m, t, s, w
  <1>7. Parents(c, t) = {y} /\ Is(y, "map")
    BY <1>2, <1>3, <1>4, OneParentOf
  <1>8. ~HasDefault(s)
    BY <1>1, <1>7
  <1>9. Faulty(w[2])
    BY <1>6, <1>8, NoDefault
  <1> QED
    BY <1>2, <1>6, <1>9 DEF Explained

(* What explains a panic stays true of what was loaded.                    *)
LEMMA ExplainedStays ==
    ASSUME UNCHANGED <<roots, loaded>>, Explained
    PROVE  Explained'
  <1>1. AllPlain' = AllPlain /\ \A p : SpecsOf(p)' = SpecsOf(p)
    BY DEF AllPlain, Plain, SpecsOf
  <1>2. (\E p \in ToSet(Parts) : \E s \in SpecsOf(p) : Faulty(s[2]))' =
        (\E p \in ToSet(Parts) : \E s \in SpecsOf(p) : Faulty(s[2]))
    BY DEF SpecsOf
  <1> QED
    BY <1>1, <1>2 DEF Explained

(* PanicExplained is kept by every step.                                   *)
LEMMA ExplainedNext ==
    SeekInv /\ LoadInv /\ CleanInv /\ PanicExplained /\ [Next]_vars => PanicExplained'
  <1> SUFFICES ASSUME SeekInv, LoadInv, CleanInv, PanicExplained, [Next]_vars,
                      phase' = "panicked"
               PROVE  Explained'
    BY DEF PanicExplained, Explained, Faulty
  <1>A. phase = "panicked" => Explained
    BY DEF PanicExplained, Explained, Faulty
  <1>B. ASSUME Panic, Explained PROVE Explained'
    BY <1>B, ExplainedStays DEF Panic, partVars
  <1>1. CASE BeginWalk
    BY <1>1, <1>A, ExplainedStays DEF BeginWalk, partVars
  <1>2. CASE WalkOn
    BY <1>2, <1>A, ExplainedStays DEF WalkOn, partVars
  <1>3. CASE LoadTemplateSource
    BY <1>3 DEF LoadTemplateSource
  <1>4. CASE Split
    <2>1. Explained
      BY <1>4 DEF Split, LoadInv, Explained
    <2>2. Panic
      BY <1>4 DEF Split, Divide
    <2> QED
      BY <1>B, <2>1, <2>2
  <1>5. ASSUME NEW j \in Turns, ExtractPanics(j) PROVE Explained'
    BY <1>5, <1>B, BrokenExplained DEF ExtractPanics
  <1>6. CASE \E j \in Turns : Extract(j) \/ PassBy(j)
    BY <1>6, <1>A, ExplainedStays DEF Extract, PassBy, partVars
  <1>7. CASE ExtractLeave
    BY <1>7 DEF ExtractLeave
  <1>8. CASE ExtractDone
    BY <1>8 DEF ExtractDone
  <1>9. ASSUME NEW x \in left, DefaultPanics(x) PROVE Explained'
    BY <1>9, <1>B, DefaultExplained DEF DefaultPanics
  <1>10. CASE \E x \in left : ApplyDefault(x)
    BY <1>10 DEF ApplyDefault
  <1>11. CASE DefaultsDone
    BY <1>11 DEF DefaultsDone
  <1>12. CASE \E p \in ToSet(Parts), src \in Sources, matching \in SUBSET Patterns :
                 Insert(p, src, matching)
    BY <1>12 DEF Insert
  <1>13. CASE UNCHANGED vars
    BY <1>13, <1>A, ExplainedStays DEF vars, partVars
  <1> QED
    BY <1>1, <1>2, <1>3, <1>4, <1>5, <1>6, <1>7, <1>8, <1>9, <1>10, <1>11, <1>12, <1>13
    DEF Next, Loading

(* A template only fails to load for what it says: a part that is missing, *)
(* a spec that is not well formed or has no default that parses, or specs  *)
(* where they cannot be replaced (the panics of template.go).              *)
THEOREM PanicsAreExplained == Spec => []PanicExplained
  <1>1. Init => PanicExplained
    BY DEF Init, PanicExplained
  <1> QED
    BY <1>1, SeekInit, SeekNext, LoadInit, LoadNext, CleanInit, CleanNext, ExplainedNext, PTL
    DEF Spec
=============================================================================

----------------------------- MODULE LoopLemmas -----------------------------
(***************************************************************************)
(* What the proofs need to reason about loops: induction over the turns of *)
(* a loop, for a set of turns instead of a predicate, and the existence of *)
(* the function that a loop computes turn by turn; and what a loop leaves  *)
(* that appends some entries of a list to another list.                    *)
(***************************************************************************)
EXTENDS Integers, Sequences, FiniteSets, TLAPS, FiniteSetTheorems,
        SequenceTheorems, WellFoundedInduction

(* A nonempty set of naturals has a least element.                         *)
LEMMA LeastElement ==
    ASSUME NEW S, S \subseteq Nat, S # {}
    PROVE  \E x \in S : \A y \in S : x <= y
  <1> DEFINE Below(x) == {y \in S : y < x}
             F == {Below(x) : x \in S}
  <1>1. \A x \in S : IsFiniteSet(Below(x))
    <2> TAKE x \in S
    <2>1. x \in Nat /\ \A y \in S : y \in Nat
      OBVIOUS
    <2>2. Below(x) \subseteq Nat
      BY <2>1
    <2>3. \A y \in Below(x) : y <= x
      BY <2>1
    <2> HIDE DEF Below
    <2> QED
      BY <2>1, <2>2, <2>3, FS_BoundedSetOfNaturals
  <1>2. F \subseteq FiniteSubsetsOf(S) /\ F # {}
    BY <1>1 DEF FiniteSubsetsOf
  <1>3. PICK T \in F : \A U \in F : <<U, T>> \notin StrictSubsetOrdering(S)
    BY <1>2, FS_StrictSubsetOrderingWellFounded, WFMin
  <1>4. PICK x \in S : T = Below(x)
    BY <1>3
  <1>5. ASSUME NEW y \in S, y < x PROVE FALSE
    <2>1. Below(y) \subseteq Below(x) /\ y \in Below(x) /\ y \notin Below(y)
      <3>1. x \in Nat /\ y \in Nat /\ \A z \in S : z \in Nat
        OBVIOUS
      <3>2. \A z \in S : z < y => z < x
        BY <1>5, <3>1
      <3>3. ~(y < y)
        BY <3>1
      <3> QED
        BY <1>5, <3>2, <3>3
    <2>2. Below(y) \in SUBSET S /\ Below(x) \in SUBSET S /\ Below(y) \in F
      BY <1>5
    <2>3. <<Below(y), T>> \in StrictSubsetOrdering(S)
      <3> HIDE DEF Below
      <3> QED
        BY <1>4, <2>1, <2>2 DEF StrictSubsetOrdering
    <2> QED
      BY <1>3, <2>2, <2>3
  <1> QED
    BY <1>5

(* Induction over the turns of a loop.                                     *)
LEMMA TurnInduction ==
    ASSUME NEW n \in Nat, NEW S, 0 \in S,
           \A i \in 1 .. n : i - 1 \in S => i \in S
    PROVE  \A i \in 0 .. n : i \in S
  <1> SUFFICES ASSUME NEW j \in 0 .. n, j \notin S PROVE FALSE
    OBVIOUS
  <1> DEFINE C == {i \in 0 .. n : i \notin S}
  <1>1. C \subseteq Nat /\ C # {}
    OBVIOUS
  <1>2. PICK i \in C : \A k \in C : i <= k
    BY <1>1, LeastElement
  <1>3. i \in 1 .. n /\ i - 1 \in 0 .. n /\ ~(i <= i - 1)
    BY <1>2
  <1> QED
    BY <1>2, <1>3

(* f is what the loop has computed after each of n turns, if it starts from *)
(* base and turn i goes from x to step[<<i, x>>].                          *)
Runs(n, T, base, step, f) ==
    /\ f \in [0 .. n -> T]
    /\ f[0] = base
    /\ \A i \in 1 .. n : f[i] = step[<<i, f[i - 1]>>]

LEMMA LoopRuns ==
    ASSUME NEW n, NEW T, NEW base, NEW step,
           n \in Nat, base \in T, step \in [(1 .. n) \X T -> T]
    PROVE  \E f : Runs(n, T, base, step, f)
  <1> DEFINE First(m) == {f \in [0 .. m -> T] :
                 f[0] = base /\ \A i \in 1 .. m : f[i] = step[<<i, f[i - 1]>>]}
             S == {m \in 0 .. n : First(m) # {}}
  <1>1. 0 \in S
    <2>1. [i \in 0 .. 0 |-> base] \in First(0)
      OBVIOUS
    <2> QED
      BY <2>1
  <1>2. ASSUME NEW m \in 1 .. n, m - 1 \in S PROVE m \in S
    <2>1. PICK f \in [0 .. m - 1 -> T] :
             /\ f[0] = base
             /\ \A i \in 1 .. m - 1 : f[i] = step[<<i, f[i - 1]>>]
      BY <1>2
    <2> DEFINE x == step[<<m, f[m - 1]>>]
               g == [i \in 0 .. m |-> IF i = m THEN x ELSE f[i]]
    <2>2. f[m - 1] \in T /\ x \in T
      BY <2>1
    <2>3. g \in [0 .. m -> T] /\ g[0] = base
      <3>1. ASSUME NEW i \in 0 .. m, i # m PROVE f[i] \in T
        BY <2>1, <3>1
      <3> HIDE DEF x
      <3> QED
        BY <2>1, <2>2, <3>1
    <2>4. ASSUME NEW i \in 1 .. m PROVE g[i] = step[<<i, g[i - 1]>>]
      <3>1. CASE i = m
        <4>1. g[m] = x /\ g[m - 1] = f[m - 1]
          OBVIOUS
        <4> QED
          BY <3>1, <4>1
      <3>2. CASE i # m
        <4>1. i \in 1 .. m - 1 /\ i - 1 # m /\ i - 1 \in 0 .. m
          BY <3>2
        <4> QED
          BY <2>1, <3>2, <4>1
      <3> QED
        BY <3>1, <3>2
    <2>5. g \in First(m)
      BY <2>3, <2>4
    <2> HIDE DEF First
    <2> QED
      BY <2>5
  <1>3. n \in S
    <2> HIDE DEF S
    <2> QED
      BY <1>1, <1>2, TurnInduction
  <1> QED
    BY <1>3 DEF Runs

-----------------------------------------------------------------------------
(* w was taken from the positions in C: f tells from which, in their       *)
(* order, and those that were left out come after all that were taken.     *)
TakenFrom(list, C, w, f) ==
    /\ f \in [1 .. Len(w) -> C]
    /\ \A x, y \in 1 .. Len(w) : x < y => f[x] < f[y]
    /\ \A x \in 1 .. Len(w) : w[x] = list[f[x]]
    /\ \A k \in C : \/ \E x \in 1 .. Len(w) : f[x] = k
                    \/ \A x \in 1 .. Len(w) : f[x] < k

AllTaken(C, w, f) == \A k \in C : \E x \in 1 .. Len(w) : f[x] = k

(* A turn that takes nothing.                                              *)
LEMMA TakenStays ==
    ASSUME NEW S, NEW list, NEW w \in Seq(S), NEW f, NEW C, NEW D, NEW i \in Nat,
           C \subseteq 1 .. i - 1, TakenFrom(list, C, w, f), D = C \/ D = C \cup {i}
    PROVE  TakenFrom(list, D, w, f)
  <1>1. Len(w) \in Nat
    OBVIOUS
  <1>2. \A x \in 1 .. Len(w) : f[x] \in C /\ f[x] < i
    <2>1. \A x \in 1 .. Len(w) : f[x] \in C
      BY DEF TakenFrom
    <2>2. \A y \in C : y < i
      OBVIOUS
    <2> QED
      BY <2>1, <2>2
  <1>3. f \in [1 .. Len(w) -> D]
    BY DEF TakenFrom
  <1> QED
    BY <1>2, <1>3 DEF TakenFrom

(* A turn that takes the entry at i.                                       *)
LEMMA TakenGrows ==
    ASSUME NEW S, NEW list \in Seq(S), NEW w \in Seq(S), NEW f, NEW C,
           NEW i \in 1 .. Len(list),
           C \subseteq 1 .. i - 1, TakenFrom(list, C, w, f), AllTaken(C, w, f)
    PROVE  \E g : /\ TakenFrom(list, C \cup {i}, Append(w, list[i]), g)
                 /\ AllTaken(C \cup {i}, Append(w, list[i]), g)
  <1> DEFINE n == Len(w)
             v == Append(w, list[i])
             g == [x \in 1 .. n + 1 |-> IF x = n + 1 THEN i ELSE f[x]]
  <1>1. n \in Nat /\ list[i] \in S
    BY ElementOfSeq
  <1>2. /\ Len(v) = n + 1 /\ v[n + 1] = list[i]
        /\ \A x \in 1 .. n : v[x] = w[x]
    BY <1>1, AppendProperties
  <1>3. \A x \in 1 .. n : f[x] \in C /\ f[x] < i
    <2>1. i \in Nat /\ \A k \in C : k < i
      OBVIOUS
    <2>2. f \in [1 .. n -> C]
      BY DEF TakenFrom
    <2> QED
      BY <2>1, <2>2
  <1> HIDE DEF n, v
  <1>4. \A x \in 1 .. n + 1 : x # n + 1 => x \in 1 .. n
    BY <1>1
  <1>5. /\ g \in [1 .. n + 1 -> C \cup {i}] /\ g[n + 1] = i
        /\ \A x \in 1 .. n : g[x] = f[x]
    BY <1>1, <1>3, <1>4
  <1> HIDE DEF g
  <1>6. \A x, y \in 1 .. n + 1 : x < y => g[x] < g[y]
    <2> TAKE x, y \in 1 .. n + 1
    <2> HAVE x < y
    <2>1. x \in 1 .. n
      BY <1>1
    <2> QED
      BY <1>3, <1>4, <1>5, <2>1 DEF TakenFrom, n
  <1>7. \A x \in 1 .. n + 1 : v[x] = list[g[x]]
    BY <1>2, <1>4, <1>5 DEF TakenFrom, n
  <1>8. \A k \in C \cup {i} : \E x \in 1 .. n + 1 : g[x] = k
    <2> TAKE k \in C \cup {i}
    <2>1. CASE k = i
      BY <1>1, <1>5, <2>1
    <2>2. CASE k \in C
      <3>1. PICK x \in 1 .. n : f[x] = k
        BY <2>2 DEF n, AllTaken
      <3> QED
        BY <1>1, <1>5, <3>1
    <2> QED
      BY <2>1, <2>2
  <1>9. TakenFrom(list, C \cup {i}, v, g)
    BY <1>2, <1>5, <1>6, <1>7, <1>8 DEF TakenFrom
  <1> QED
    BY <1>2, <1>8, <1>9 DEF v, AllTaken
=============================================================================

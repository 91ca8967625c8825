--------------------------- MODULE CountersProofs ---------------------------
(***************************************************************************)
(* Theorems of ServerCounters for every number of requests that run at the *)
(* same time and all amounts.                                              *)
(***************************************************************************)
EXTENDS ServerCounters, TLAPS

Counter == [max : Nat, last : Nat, total : Nat]

Places == (Kinds \X Steps) \cup {Idle}

TypeOK ==
    /\ pc \in [Handlers -> Places]
    /\ amount \in [Handlers -> [Kinds -> Nat]]
    /\ seen \in [Handlers -> Nat]
    /\ counters \in [Kinds -> Counter]
    /\ begun \in [Kinds -> Nat] /\ added \in [Kinds -> Nat]
    /\ served \subseteq [Kinds -> Nat]
    /\ overlap \in BOOLEAN

(* A total, and what a request has read of it, is covered by what was      *)
(* added up to now.                                                        *)
Covered ==
    \A k \in Kinds :
        /\ counters[k].total <= added[k]
        /\ \A h \in Handlers : pc[h] = <<k, "write">> => seen[h] <= added[k]

(* The last and the largest amount are those of requests that began.       *)
Real ==
    /\ \A h \in Busy : amount[h] \in served
    /\ \A k \in Kinds :
          {counters[k].max, counters[k].last} \subseteq Had(k) \cup {0}

(* The request has its amount still to add to the total; to compare with   *)
(* the maximum.                                                            *)
ToAdd(h, k) == pc[h] # Idle /\ (k = "tx" \/ pc[h][1] = "dd")

ToCompare(h, k) ==
    ToAdd(h, k) /\ (pc[h][1] # k \/ pc[h][2] \in {"compare", "max"})

(* With one request at a time only that one is ahead of the counters.      *)
SumKept(k) ==
    /\ (\A h \in Handlers : ~ToAdd(h, k)) => counters[k].total = begun[k]
    /\ \A h \in Handlers : ToAdd(h, k) => counters[k].total + amount[h][k] = begun[k]
    /\ \A h \in Handlers : pc[h] = <<k, "write">> => seen[h] = counters[k].total

MaxKept(k) ==
    /\ \A a \in served : \/ a[k] <= counters[k].max
                         \/ \E h \in Handlers : ToCompare(h, k) /\ a = amount[h]
    /\ \A h \in Handlers : pc[h] = <<k, "max">> => amount[h][k] > counters[k].max

Alone ==
    /\ \A g, h \in Busy : g = h
    /\ \A k \in Kinds : SumKept(k) /\ MaxKept(k)

CInv == TypeOK /\ Covered /\ Real /\ (~overlap => Alone)

-----------------------------------------------------------------------------
(* A place is its kind and its step, and nobody is idle at one.            *)
LEMMA PlacesDiffer ==
    \A k, s : /\ s \in Steps => <<k, s>> # Idle
              /\ <<k, s>>[1] = k /\ <<k, s>>[2] = s
              /\ \A j, t : <<k, s>> = <<j, t>> => k = j /\ s = t
  BY DEF Idle, Steps

LEMMA CountersInit == Init => CInv
  <1> SUFFICES ASSUME Init PROVE CInv
    OBVIOUS
  <1>1. TypeOK
    BY DEF Init, TypeOK, Places, NoCounts, NoAmounts, Counter
  <1>2. Covered /\ Real
    <2>1. \A h \in Handlers : pc[h] = Idle
      BY DEF Init
    <2>2. \A k \in Kinds : /\ counters[k].total = 0 /\ added[k] = 0
                           /\ counters[k].max = 0 /\ counters[k].last = 0
      BY DEF Init, NoCounts, NoAmounts
    <2>3. \A h \in Handlers, k \in Kinds : pc[h] # <<k, "write">>
      BY <2>1, PlacesDiffer DEF Steps
    <2>4. Covered
      BY <2>2, <2>3 DEF Covered
    <2>5. Real
      BY <2>1, <2>2 DEF Real, Busy
    <2> QED
      BY <2>4, <2>5
  <1>3. Alone
    BY DEF Init, Alone, Busy, SumKept, MaxKept, ToAdd, NoCounts, NoAmounts, Idle
  <1> QED
    BY <1>1, <1>2, <1>3 DEF CInv

LEMMA BeginType == ASSUME TypeOK, NEW h \in Handlers, Begin(h) PROVE TypeOK'
  <1>1. PICK a \in [Kinds -> Amounts] :
           /\ amount' = [amount EXCEPT ![h] = a]
           /\ served' = served \cup {a}
           /\ begun' = [k \in Kinds |-> begun[k] + a[k]]
    BY DEF Begin
  <1>2. a \in [Kinds -> Nat]
    BY CountersAssumption
  <1>3. <<"dd", "compare">> \in Places
    BY DEF Places, Kinds, Steps
  <1> QED
    BY <1>1, <1>2, <1>3 DEF TypeOK, Begin

LEMMA BeginInv == ASSUME CInv, NEW h \in Handlers, Begin(h) PROVE CInv'
  <1>1. PICK a \in [Kinds -> Amounts] :
           /\ amount' = [amount EXCEPT ![h] = a]
           /\ served' = served \cup {a}
           /\ begun' = [k \in Kinds |-> begun[k] + a[k]]
    BY DEF Begin
  <1>2. TypeOK /\ TypeOK'
    BY BeginType DEF CInv
  <1>3. /\ pc[h] = Idle /\ pc' = [pc EXCEPT ![h] = <<"dd", "compare">>]
        /\ UNCHANGED <<seen, counters, added>>
        /\ overlap' = (overlap \/ Busy # {})
    BY DEF Begin
  <1>4. /\ \A g \in Handlers : g # h => pc'[g] = pc[g] /\ amount'[g] = amount[g]
        /\ pc'[h] = <<"dd", "compare">> /\ amount'[h] = a
        /\ a \in [Kinds -> Nat] /\ pc'[h] # Idle
        /\ \A k, s : pc'[h] = <<k, s>> => s = "compare"
    <2>1. <<"dd", "compare">> # Idle
      BY PlacesDiffer DEF Steps
    <2>2. \A k, s : <<"dd", "compare">> = <<k, s>> => s = "compare"
      BY PlacesDiffer
    <2> QED
      BY <1>1, <1>2, <1>3, <2>1, <2>2, CountersAssumption DEF TypeOK
  <1>5. Covered'
    BY <1>3, <1>4 DEF CInv, Covered
  <1>6. Real'
    <2>1. \A k \in Kinds : Had(k) \subseteq Had(k)'
      BY <1>1 DEF Had
    <2> QED
      BY <1>1, <1>3, <1>4, <2>1 DEF CInv, Real, Busy
  <1>7. ASSUME ~overlap' PROVE Alone'
    <2>1. Alone /\ Busy = {}
      BY <1>2, <1>3, <1>7 DEF CInv, TypeOK
    <2>2. Busy' = {h}
      BY <1>3, <1>4, <2>1 DEF Busy
    <2>3. \A g \in Handlers : pc[g] = Idle
      BY <2>1 DEF Busy
    <2>4. ASSUME NEW k \in Kinds PROVE SumKept(k)' /\ MaxKept(k)'
      <3>1. /\ counters[k].total = begun[k] /\ \A b \in served : b[k] <= counters[k].max
        BY <2>1, <2>3 DEF Alone, SumKept, MaxKept, ToAdd, ToCompare
      <3>2. /\ begun'[k] = begun[k] + a[k] /\ begun[k] \in Nat /\ a[k] \in Nat
            /\ counters[k].total \in Nat
        BY <1>1, <1>2, <1>4 DEF TypeOK, Counter
      <3>3. ToAdd(h, k)' /\ ToCompare(h, k)'
        BY <1>4, PlacesDiffer DEF ToAdd, ToCompare, Kinds
      <3>4. \A g \in Handlers : g # h => ~ToAdd(g, k)' /\ pc'[g] = Idle
        BY <1>4, <2>3 DEF ToAdd
      <3>5. \A g \in Handlers, s \in Steps : pc'[g] = <<k, s>> => g = h
        BY <3>4, PlacesDiffer
      <3>6. SumKept(k)'
        <4>1. \A g \in Handlers : pc'[g] # <<k, "write">>
          BY <1>4, <3>5 DEF Steps
        <4> QED
          BY <1>3, <1>4, <3>1, <3>2, <3>3, <3>4, <4>1 DEF SumKept
      <3>7. MaxKept(k)'
        <4>1. \A g \in Handlers : pc'[g] # <<k, "max">>
          BY <1>4, <3>5 DEF Steps
        <4>2. \A b \in served' : \/ b[k] <= counters'[k].max
                                 \/ ToCompare(h, k)' /\ b = amount'[h]
          BY <1>1, <1>3, <1>4, <3>1, <3>3
        <4> QED
          BY <4>1, <4>2 DEF MaxKept
      <3> QED
        BY <3>6, <3>7
    <2> QED
      BY <2>2, <2>4 DEF Alone
  <1> QED
    BY <1>2, <1>5, <1>6, <1>7 DEF CInv

-----------------------------------------------------------------------------
(* A step of the updates: h is at step s of kind k and goes on to q.       *)
Moves(h, k, s, q) ==
    /\ pc[h] = <<k, s>> /\ pc' = [pc EXCEPT ![h] = q]
    /\ UNCHANGED <<amount, served, begun, overlap>>

LEMMA MoveEffect ==
    ASSUME CInv, NEW h \in Handlers, NEW k \in Kinds, NEW s \in Steps,
           NEW q \in Places, Moves(h, k, s, q)
    PROVE  /\ pc'[h] = q /\ \A g \in Handlers : g # h => pc'[g] = pc[g]
           /\ h \in Busy /\ Busy' \subseteq Busy
           /\ Alone => \A g \in Handlers : g # h => pc[g] = Idle
  <1>1. /\ pc'[h] = q /\ \A g \in Handlers : g # h => pc'[g] = pc[g]
    BY DEF CInv, TypeOK, Moves
  <1>2. h \in Busy
    BY PlacesDiffer DEF Moves, Busy
  <1> QED
    BY <1>1, <1>2 DEF Busy, Alone

(* The steps before the total is written.                                  *)
LEMMA CompareInv ==
    ASSUME CInv, NEW h \in Handlers, NEW k \in Kinds, Compare(h, k)
    PROVE  CInv'
  <1> DEFINE q == IF amount[h][k] > counters[k].max THEN <<k, "max">> ELSE <<k, "last">>
  <1>1. q \in Places /\ Moves(h, k, "compare", q) /\ UNCHANGED <<seen, counters, added>>
    BY DEF Compare, Step, Places, Steps, Moves, histVars
  <1>2. /\ q \in {<<k, "max">>, <<k, "last">>}
        /\ q = <<k, "max">> => amount[h][k] > counters[k].max
        /\ q = <<k, "last">> => ~(amount[h][k] > counters[k].max)
    BY PlacesDiffer
  <1> HIDE DEF q
  <1>3. /\ pc'[h] = q /\ \A g \in Handlers : g # h => pc'[g] = pc[g]
        /\ h \in Busy /\ Busy' \subseteq Busy
        /\ Alone => \A g \in Handlers : g # h => pc[g] = Idle
    BY <1>1, MoveEffect DEF Steps
  <1>4. TypeOK'
    BY <1>1 DEF CInv, TypeOK, Moves
  <1>5. \A g \in Handlers, j \in Kinds : pc'[g] = <<j, "write">> => pc[g] = pc'[g]
    BY <1>2, <1>3, PlacesDiffer
  <1>6. Covered'
    BY <1>1, <1>5 DEF CInv, Covered
  <1>7. Real'
    BY <1>1, <1>3 DEF CInv, Real, Had, Moves
  <1>8. ASSUME ~overlap' PROVE Alone'
    <2>1. Alone /\ \A g \in Handlers : g # h => pc[g] = Idle
      BY <1>1, <1>3, <1>8 DEF CInv, Moves
    <2>2. ASSUME NEW j \in Kinds PROVE SumKept(j)' /\ MaxKept(j)'
      <3>1. \A g \in Handlers : ToAdd(g, j)' <=> ToAdd(g, j)
        BY <1>1, <1>2, <1>3, PlacesDiffer DEF ToAdd, Steps, Moves
      <3>2. SumKept(j)'
        BY <1>1, <1>5, <2>1, <3>1 DEF Alone, SumKept, Moves
      <3>3. \A g \in Handlers : g # h => (ToCompare(g, j)' <=> ToCompare(g, j))
        BY <1>3 DEF ToCompare, ToAdd
      <3>4. ToCompare(h, j) => ToCompare(h, j)' \/ (j = k /\ q = <<k, "last">>)
        BY <1>1, <1>2, <1>3, <3>1, PlacesDiffer DEF ToCompare, Moves
      <3>5. MaxKept(j)'
        <4>1. \A g \in Handlers : pc'[g] = <<j, "max">> =>
                 amount'[g][j] > counters'[j].max
          BY <1>1, <1>2, <1>3, <2>1, PlacesDiffer DEF Steps, Moves
        <4>2. ASSUME NEW a \in served
              PROVE  \/ a[j] <= counters[j].max
                     \/ \E g \in Handlers : ToCompare(g, j)' /\ a = amount[g]
          <5>1. \/ a[j] <= counters[j].max
                \/ \E g \in Handlers : ToCompare(g, j) /\ a = amount[g]
            BY <2>1 DEF Alone, MaxKept
          <5>2. amount[h][k] \in Nat /\ counters[k].max \in Nat
            BY DEF CInv, TypeOK, Counter
          <5> QED
            BY <1>2, <3>3, <3>4, <5>1, <5>2
        <4> QED
          BY <1>1, <4>1, <4>2 DEF MaxKept, Moves
      <3> QED
        BY <3>2, <3>5
    <2>3. \A f, g \in Busy' : f = g
      BY <1>3, <2>1 DEF Alone
    <2> QED
      BY <2>2, <2>3 DEF Alone
  <1> QED
    BY <1>4, <1>6, <1>7, <1>8 DEF CInv

LEMMA SetMaxInv ==
    ASSUME CInv, NEW h \in Handlers, NEW k \in Kinds, SetMax(h, k)
    PROVE  CInv'
  <1>1. /\ <<k, "last">> \in Places /\ Moves(h, k, "max", <<k, "last">>)
        /\ counters' = [counters EXCEPT ![k].max = amount[h][k]]
        /\ UNCHANGED <<seen, added>>
    BY DEF SetMax, Step, Places, Steps, Moves, histVars
  <1>2. /\ pc'[h] = <<k, "last">> /\ \A g \in Handlers : g # h => pc'[g] = pc[g]
        /\ h \in Busy /\ Busy' \subseteq Busy
        /\ Alone => \A g \in Handlers : g # h => pc[g] = Idle
    BY <1>1, MoveEffect DEF Steps
  <1>3. amount[h][k] \in Nat
    BY DEF CInv, TypeOK
  <1>4. /\ counters'[k].max = amount[h][k]
        /\ \A j \in Kinds : /\ counters'[j].total = counters[j].total
                            /\ counters'[j].last = counters[j].last
                            /\ j # k => counters'[j].max = counters[j].max
    BY <1>1 DEF CInv, TypeOK, Counter
  <1>5. TypeOK'
    BY <1>1, <1>3 DEF CInv, TypeOK, Moves, Counter
  <1>6. \A g \in Handlers, j \in Kinds : pc'[g] = <<j, "write">> => pc[g] = pc'[g]
    BY <1>2, PlacesDiffer
  <1>7. Covered'
    BY <1>1, <1>4, <1>6 DEF CInv, Covered
  <1>8. Real'
    <2>1. amount[h][k] \in Had(k)
      BY <1>2 DEF CInv, Real, Had
    <2>2. \A j \in Kinds : Had(j)' = Had(j)
      BY <1>1 DEF Had, Moves
    <2> QED
      BY <1>1, <1>2, <1>4, <2>1, <2>2 DEF CInv, Real, Moves
  <1>9. ASSUME ~overlap' PROVE Alone'
    <2>1. Alone /\ \A g \in Handlers : g # h => pc[g] = Idle
      BY <1>1, <1>2, <1>9 DEF CInv, Moves
    <2>2. ASSUME NEW j \in Kinds PROVE SumKept(j)' /\ MaxKept(j)'
      <3>1. \A g \in Handlers : ToAdd(g, j)' <=> ToAdd(g, j)
        BY <1>1, <1>2, PlacesDiffer DEF ToAdd, Steps, Moves
      <3>2. SumKept(j)'
        BY <1>1, <1>4, <1>6, <2>1, <3>1 DEF Alone, SumKept, Moves
      <3>3. \A g \in Handlers : pc'[g] # <<j, "max">>
        BY <1>2, <2>1, PlacesDiffer DEF Steps
      <3>4. ASSUME NEW a \in served
            PROVE  \/ a[j] <= counters'[j].max
                   \/ \E g \in Handlers : ToCompare(g, j)' /\ a = amount[g]
        <4>1. \/ a[j] <= counters[j].max
              \/ \E g \in Handlers : ToCompare(g, j) /\ a = amount[g]
          BY <2>1 DEF Alone, MaxKept
        <4>2. \A g \in Handlers : ToCompare(g, j) => g = h
          BY <2>1 DEF ToCompare, ToAdd
        <4>3. CASE j = k
          <5>1. amount[h][k] > counters[k].max
            BY <1>1, <2>1 DEF Alone, MaxKept, Moves
          <5>2. a[k] \in Nat /\ counters[k].max \in Nat
            BY DEF CInv, TypeOK, Counter
          <5> QED
            BY <1>3, <1>4, <4>1, <4>2, <4>3, <5>1, <5>2
        <4>4. CASE j # k
          <5>1. ToCompare(h, j) => ToCompare(h, j)'
            BY <1>2, <3>1, <4>4, PlacesDiffer DEF ToCompare
          <5> QED
            BY <1>4, <4>1, <4>2, <4>4, <5>1
        <4> QED
          BY <4>3, <4>4
      <3>5. MaxKept(j)'
        BY <1>1, <3>3, <3>4 DEF MaxKept, Moves
      <3> QED
        BY <3>2, <3>5
    <2>3. \A f, g \in Busy' : f = g
      BY <1>2, <2>1 DEF Alone
    <2> QED
      BY <2>2, <2>3 DEF Alone
  <1> QED
    BY <1>5, <1>7, <1>8, <1>9 DEF CInv

(* The steps after the maximum leave it as it is.                          *)
LEMMA MaxSettled ==
    ASSUME CInv, Alone, NEW h \in Handlers, NEW k \in Kinds,
           NEW s \in {"last", "read", "write"}, NEW q \in Places,
           Moves(h, k, s, q), \A j \in Kinds : q # <<j, "max">>,
           \A j \in Kinds : j # k /\ ToCompare(h, j) =>
              \/ q # Idle /\ q[1] = j /\ q[2] = "compare"
              \/ q[1] = k,
           q[1] = k => q # Idle,
           \A j \in Kinds : counters'[j].max = counters[j].max
    PROVE  \A j \in Kinds : MaxKept(j)'
  <1>1. s \in Steps
    BY DEF Steps
  <1>2. /\ pc'[h] = q /\ \A g \in Handlers : g # h => pc'[g] = pc[g] /\ pc[g] = Idle
    BY <1>1, MoveEffect
  <1>3. ASSUME NEW j \in Kinds PROVE MaxKept(j)'
    <2>1. \A g \in Handlers : pc'[g] # <<j, "max">>
      BY <1>2, PlacesDiffer DEF Steps
    <2>2. ToCompare(h, j) => ToCompare(h, j)'
      <3>1. CASE j = k
        BY <3>1, PlacesDiffer DEF ToCompare, Moves
      <3>2. CASE j # k
        <4> SUFFICES ASSUME ToCompare(h, j) PROVE ToCompare(h, j)'
          OBVIOUS
        <4>1. k = "dd" /\ j = "tx"
          BY <3>2, PlacesDiffer DEF ToCompare, ToAdd, Moves, Kinds
        <4>2. q # Idle /\ (q[1] # j \/ q[2] = "compare")
          BY <3>2
        <4> QED
          BY <1>2, <4>1, <4>2 DEF ToCompare, ToAdd
      <3> QED
        BY <3>1, <3>2
    <2>3. \A g \in Handlers : ToCompare(g, j) => g = h
      BY <1>2 DEF ToCompare, ToAdd
    <2>4. \A a \in served : \/ a[j] <= counters[j].max
                            \/ \E g \in Handlers : ToCompare(g, j)' /\ a = amount[g]
      BY <2>2, <2>3 DEF Alone, MaxKept
    <2> QED
      BY <2>1, <2>4 DEF MaxKept, Moves
  <1> QED
    BY <1>3

LEMMA SetLastInv ==
    ASSUME CInv, NEW h \in Handlers, NEW k \in Kinds, SetLast(h, k)
    PROVE  CInv'
  <1> DEFINE q == <<k, "read">>
  <1>1. /\ q \in Places /\ Moves(h, k, "last", q)
        /\ counters' = [counters EXCEPT ![k].last = amount[h][k]]
        /\ UNCHANGED <<seen, added>>
    BY DEF SetLast, Step, Places, Steps, Moves, histVars
  <1>2. q # Idle /\ q[1] = k /\ \A j, s : q = <<j, s>> => j = k /\ s = "read"
    BY PlacesDiffer DEF Steps
  <1> HIDE DEF q
  <1>3. /\ pc'[h] = q /\ \A g \in Handlers : g # h => pc'[g] = pc[g]
        /\ h \in Busy /\ Busy' \subseteq Busy
        /\ Alone => \A g \in Handlers : g # h => pc[g] = Idle
    BY <1>1, MoveEffect DEF Steps
  <1>4. amount[h][k] \in Nat
    BY DEF CInv, TypeOK
  <1>5. /\ counters'[k].last = amount[h][k]
        /\ \A j \in Kinds : /\ counters'[j].total = counters[j].total
                            /\ counters'[j].max = counters[j].max
                            /\ j # k => counters'[j].last = counters[j].last
    BY <1>1 DEF CInv, TypeOK, Counter
  <1>6. TypeOK'
    BY <1>1, <1>4 DEF CInv, TypeOK, Moves, Counter
  <1>7. \A g \in Handlers, j \in Kinds : pc'[g] = <<j, "write">> => pc[g] = pc'[g]
    BY <1>2, <1>3
  <1>8. Covered'
    BY <1>1, <1>5, <1>7 DEF CInv, Covered
  <1>9. Real'
    <2>1. amount[h][k] \in Had(k)
      BY <1>3 DEF CInv, Real, Had
    <2>2. \A j \in Kinds : Had(j)' = Had(j)
      BY <1>1 DEF Had, Moves
    <2> QED
      BY <1>1, <1>3, <1>5, <2>1, <2>2 DEF CInv, Real, Moves
  <1>10. ASSUME ~overlap' PROVE Alone'
    <2>1. Alone /\ \A g \in Handlers : g # h => pc[g] = Idle
      BY <1>1, <1>3, <1>10 DEF CInv, Moves
    <2>2. ASSUME NEW j \in Kinds PROVE SumKept(j)'
      <3>1. \A g \in Handlers : ToAdd(g, j)' <=> ToAdd(g, j)
        BY <1>1, <1>2, <1>3, PlacesDiffer DEF ToAdd, Steps, Moves
      <3> QED
        BY <1>1, <1>5, <1>7, <2>1, <3>1 DEF Alone, SumKept, Moves
    <2>3. \A j \in Kinds : MaxKept(j)'
      BY <1>1, <1>2, <1>5, <2>1, MaxSettled
    <2>4. \A f, g \in Busy' : f = g
      BY <1>3, <2>1 DEF Alone
    <2> QED
      BY <2>2, <2>3, <2>4 DEF Alone
  <1> QED
    BY <1>6, <1>8, <1>9, <1>10 DEF CInv

LEMMA ReadTotalInv ==
    ASSUME CInv, NEW h \in Handlers, NEW k \in Kinds, ReadTotal(h, k)
    PROVE  CInv'
  <1> DEFINE q == <<k, "write">>
  <1>1. /\ q \in Places /\ Moves(h, k, "read", q)
        /\ seen' = [seen EXCEPT ![h] = counters[k].total]
        /\ UNCHANGED <<counters, added>>
    BY DEF ReadTotal, Step, Places, Steps, Moves, histVars
  <1>2. q # Idle /\ q[1] = k /\ \A j, s : q = <<j, s>> => j = k /\ s = "write"
    BY PlacesDiffer DEF Steps
  <1> HIDE DEF q
  <1>3. /\ pc'[h] = q /\ \A g \in Handlers : g # h => pc'[g] = pc[g]
        /\ h \in Busy /\ Busy' \subseteq Busy
        /\ Alone => \A g \in Handlers : g # h => pc[g] = Idle
    BY <1>1, MoveEffect DEF Steps
  <1>4. /\ seen'[h] = counters[k].total /\ counters[k].total \in Nat
        /\ \A g \in Handlers : g # h => seen'[g] = seen[g]
    BY <1>1 DEF CInv, TypeOK, Counter
  <1>5. TypeOK'
    BY <1>1, <1>4 DEF CInv, TypeOK, Moves
  <1>6. \A g \in Handlers, j \in Kinds : pc'[g] = <<j, "write">> =>
           (g = h /\ j = k) \/ (g # h /\ pc[g] = <<j, "write">>)
    BY <1>2, <1>3
  <1>7. Covered'
    BY <1>1, <1>4, <1>6 DEF CInv, Covered
  <1>8. Real'
    BY <1>1, <1>3 DEF CInv, Real, Had, Moves
  <1>9. ASSUME ~overlap' PROVE Alone'
    <2>1. Alone /\ \A g \in Handlers : g # h => pc[g] = Idle
      BY <1>1, <1>3, <1>9 DEF CInv, Moves
    <2>2. ASSUME NEW j \in Kinds PROVE SumKept(j)'
      <3>1. \A g \in Handlers : ToAdd(g, j)' <=> ToAdd(g, j)
        BY <1>1, <1>2, <1>3, PlacesDiffer DEF ToAdd, Steps, Moves
      <3> QED
        BY <1>1, <1>4, <1>6, <2>1, <3>1 DEF Alone, SumKept, Moves
    <2>3. \A j \in Kinds : MaxKept(j)'
      BY <1>1, <1>2, <2>1, MaxSettled
    <2>4. \A f, g \in Busy' : f = g
      BY <1>3, <2>1 DEF Alone
    <2> QED
      BY <2>2, <2>3, <2>4 DEF Alone
  <1> QED
    BY <1>5, <1>7, <1>8, <1>9 DEF CInv

LEMMA WriteTotalInv ==
    ASSUME CInv, NEW h \in Handlers, NEW k \in Kinds, WriteTotal(h, k)
    PROVE  CInv'
  <1> DEFINE q == IF k = "dd" THEN <<"tx", "compare">> ELSE Idle
  <1>1. /\ q \in Places /\ Moves(h, k, "write", q)
        /\ counters' = [counters EXCEPT ![k].total = seen[h] + amount[h][k]]
        /\ added' = [added EXCEPT ![k] = @ + amount[h][k]]
        /\ UNCHANGED seen
    BY DEF WriteTotal, NewTotal, Step, Places, Kinds, Steps, Moves, histVars
  <1>2. /\ k = "dd" => q = <<"tx", "compare">> /\ q # Idle /\ q[1] = "tx" /\ q[2] = "compare"
        /\ k # "dd" => k = "tx" /\ q = Idle /\ q[1] # k
        /\ \A j \in Kinds : q # <<j, "max">> /\ q # <<j, "write">>
    BY PlacesDiffer DEF Steps, Idle, Kinds
  <1> HIDE DEF q
  <1>3. /\ pc'[h] = q /\ \A g \in Handlers : g # h => pc'[g] = pc[g]
        /\ h \in Busy /\ Busy' \subseteq Busy
        /\ Alone => \A g \in Handlers : g # h => pc[g] = Idle
    BY <1>1, MoveEffect DEF Steps
  <1>4. /\ amount[h][k] \in Nat /\ seen[h] \in Nat
        /\ \A j \in Kinds : /\ added[j] \in Nat /\ counters[j].total \in Nat
                            /\ begun[j] \in Nat
    BY DEF CInv, TypeOK, Counter
  <1>5. /\ counters'[k].total = seen[h] + amount[h][k]
        /\ added'[k] = added[k] + amount[h][k]
        /\ \A j \in Kinds :
              /\ counters'[j].max = counters[j].max
              /\ counters'[j].last = counters[j].last
              /\ j # k => counters'[j].total = counters[j].total /\ added'[j] = added[j]
    BY <1>1 DEF CInv, TypeOK, Counter
  <1>6. TypeOK'
    <2>1. seen[h] + amount[h][k] \in Nat /\ added[k] + amount[h][k] \in Nat
      BY <1>4
    <2>2. added' = [added EXCEPT ![k] = added[k] + amount[h][k]]
      BY <1>1
    <2>3. counters' \in [Kinds -> Counter] /\ added' \in [Kinds -> Nat]
      BY <1>1, <2>1, <2>2 DEF CInv, TypeOK, Counter
    <2> QED
      BY <1>1, <2>3 DEF CInv, TypeOK, Moves
  <1>7. \A g \in Handlers, j \in Kinds : pc'[g] = <<j, "write">> =>
           g # h /\ pc[g] = <<j, "write">>
    BY <1>2, <1>3
  <1>8. Covered'
    <2>1. seen[h] <= added[k]
      BY <1>1 DEF CInv, Covered, Moves
    <2>2. ASSUME NEW j \in Kinds
          PROVE  /\ counters'[j].total <= added'[j]
                 /\ \A g \in Handlers : pc'[g] = <<j, "write">> => seen'[g] <= added'[j]
      <3>1. /\ counters[j].total <= added[j]
            /\ \A g \in Handlers : pc[g] = <<j, "write">> =>
                  seen[g] <= added[j] /\ seen[g] \in Nat
        BY DEF CInv, Covered, TypeOK
      <3>2. CASE j = k
        BY <1>1, <1>4, <1>5, <1>7, <2>1, <3>1, <3>2
      <3>3. CASE j # k
        BY <1>1, <1>5, <1>7, <3>1, <3>3
      <3> QED
        BY <3>2, <3>3
    <2> QED
      BY <2>2 DEF Covered
  <1>9. Real'
    BY <1>1, <1>3, <1>5 DEF CInv, Real, Had, Moves
  <1>10. ASSUME ~overlap' PROVE Alone'
    <2>1. Alone /\ \A g \in Handlers : g # h => pc[g] = Idle
      BY <1>1, <1>3, <1>10 DEF CInv, Moves
    <2>2. \A g \in Handlers, j \in Kinds : g # h => ~ToAdd(g, j) /\ ~ToAdd(g, j)'
      BY <1>3, <2>1 DEF ToAdd
    <2>3. ASSUME NEW j \in Kinds PROVE SumKept(j)'
      <3>1. \A g \in Handlers : pc'[g] # <<j, "write">>
        BY <1>7, <2>1, PlacesDiffer DEF Steps
      <3>2. CASE j = k
        <4>1. seen[h] = counters[k].total
          BY <1>1, <2>1 DEF Alone, SumKept, Moves
        <4>2. ToAdd(h, k) /\ ~ToAdd(h, k)'
          BY <1>1, <1>2, <1>3, PlacesDiffer DEF ToAdd, Moves, Kinds, Steps
        <4>3. counters[k].total + amount[h][k] = begun[k]
          BY <2>1, <4>2 DEF Alone, SumKept
        <4> QED
          BY <1>1, <1>5, <2>2, <3>1, <3>2, <4>1, <4>2, <4>3 DEF SumKept, Moves
      <3>3. CASE j # k
        <4>1. ToAdd(h, j)' <=> ToAdd(h, j)
          BY <1>1, <1>2, <1>3, <3>3, PlacesDiffer DEF ToAdd, Moves, Kinds, Steps
        <4> QED
          BY <1>1, <1>5, <2>1, <2>2, <3>1, <3>3, <4>1 DEF Alone, SumKept, Moves
      <3> QED
        BY <3>2, <3>3
    <2>4. \A j \in Kinds : MaxKept(j)'
      <3>1. \A j \in Kinds : j # k /\ ToCompare(h, j) =>
               \/ q # Idle /\ q[1] = j /\ q[2] = "compare"
               \/ q[1] = k
        BY <1>1, <1>2, PlacesDiffer DEF ToCompare, ToAdd, Moves, Kinds
      <3>2. q[1] # k
        BY <1>2
      <3> QED
        BY <1>1, <1>2, <1>5, <2>1, <3>1, <3>2, MaxSettled
    <2>5. \A f, g \in Busy' : f = g
      BY <1>3, <2>1 DEF Alone
    <2> QED
      BY <2>3, <2>4, <2>5 DEF Alone
  <1> QED
    BY <1>6, <1>8, <1>9, <1>10 DEF CInv

LEMMA CountersRestart == ASSUME CInv, Restart PROVE CInv'
  <1>1. /\ counters' = NoCounts /\ added' = NoAmounts /\ begun' = NoAmounts
        /\ served' = {} /\ overlap' = FALSE /\ Busy = {}
        /\ UNCHANGED <<pc, amount, seen>>
    BY DEF Restart
  <1>2. \A h \in Handlers : pc[h] = Idle
    BY <1>1 DEF Busy
  <1>3. \A k \in Kinds : /\ counters'[k].total = 0 /\ added'[k] = 0
                         /\ counters'[k].max = 0 /\ counters'[k].last = 0
                         /\ begun'[k] = 0
    BY <1>1 DEF NoCounts, NoAmounts
  <1>4. \A h \in Handlers, k \in Kinds :
           pc[h] # <<k, "write">> /\ pc[h] # <<k, "max">> /\ ~ToAdd(h, k)'
    BY <1>1, <1>2, PlacesDiffer DEF Steps, ToAdd
  <1>5. TypeOK'
    BY <1>1 DEF CInv, TypeOK, NoCounts, NoAmounts, Counter
  <1>6. Covered'
    BY <1>1, <1>3, <1>4 DEF Covered
  <1>7. Real'
    BY <1>1, <1>2, <1>3 DEF Real, Busy
  <1>8. Alone'
    BY <1>1, <1>2, <1>3, <1>4 DEF Alone, Busy, SumKept, MaxKept
  <1> QED
    BY <1>5, <1>6, <1>7, <1>8 DEF CInv

(* Every plain read and write of serverStats keeps the invariant,          *)
(* whichever request makes it.                                             *)
THEOREM CountersStep == CInv /\ [Next]_vars => CInv'
  <1> SUFFICES ASSUME CInv, [Next]_vars PROVE CInv'
    OBVIOUS
  <1>1. CASE UNCHANGED vars
    BY <1>1 DEF CInv, TypeOK, Covered, Real, Alone, SumKept, MaxKept, ToAdd,
                ToCompare, Busy, Had, vars, histVars
  <1>2. CASE Next
    BY <1>2, BeginInv, CompareInv, SetMaxInv, SetLastInv, ReadTotalInv,
       WriteTotalInv, CountersRestart DEF Next
  <1> QED
    BY <1>1, <1>2

(* What a request read, what it has still to add and what overlapped are   *)
(* related like this at any time.                                          *)
THEOREM CountersInvariant == Spec => []CInv
  <1>1. Init => CInv
    BY CountersInit
  <1>2. CInv /\ [Next]_vars => CInv'
    BY CountersStep
  <1> QED
    BY <1>1, <1>2, PTL DEF Spec

(* Whatever updates get lost when requests interleave, the totals are      *)
(* never more than the amounts added, and the other two are amounts of     *)
(* requests that there were (the end of buildStatsResponse).               *)
THEOREM CountersNeverOver == Spec => []NeverOver
  <1>1. CInv => NeverOver
    BY DEF CInv, Covered, Real, NeverOver
  <1> QED
    BY <1>1, CountersInvariant, PTL

(* Requests that never overlapped are counted exactly.                     *)
THEOREM CountersExact == Spec => []ExactAlone
  <1>1. CInv => ExactAlone
    <2> SUFFICES ASSUME CInv, Busy = {}, ~overlap, NEW k \in Kinds
                 PROVE  /\ counters[k].total = begun[k]
                        /\ \A n \in Had(k) : n <= counters[k].max
      BY DEF ExactAlone
    <2>1. \A h \in Handlers : ~ToAdd(h, k) /\ ~ToCompare(h, k)
      BY DEF Busy, ToAdd, ToCompare
    <2> QED
      BY <2>1 DEF CInv, Alone, SumKept, MaxKept, Had
  <1> QED
    BY <1>1, CountersInvariant, PTL
=============================================================================

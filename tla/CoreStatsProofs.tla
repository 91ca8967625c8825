-------------------------- MODULE CoreStatsProofs --------------------------
(***************************************************************************)
(* Theorems of CoreStats for every value of its constants.                 *)
(***************************************************************************)
EXTENDS CoreStats, PublisherProofs

-----------------------------------------------------------------------------
(* The inductive invariant: the counters are covered by the sets a batch   *)
(* collects, a batch has taken a metric for each container it counts stats *)
(* of, and the final loop leaves no container known uncounted.             *)
CountersType ==
    /\ metricsRx \in [total : Nat, recently : Nat]
    /\ containersRx \in [max : Nat, recently : Nat]
    /\ statsRx \in [max : Nat, recently : Nat, total : Nat]

Touched ==
    /\ statsOf \subseteq dockers /\ dockers \subseteq known
    /\ firstTime \subseteq dockers
    /\ \A p \in statsOf : temp[p] # 0
    /\ Cardinality(statsOf) <= rx

Totals ==
    /\ statsRx.max <= containersRx.max
    /\ containersRx.max <= Cardinality(known)
    /\ statsRx.total <= metricsRx.total

Visiting == pc = "merge" => regular /\ known \subseteq dockers \cup toMerge

SInv ==
    /\ IInv /\ IsFiniteSet(known)
    /\ CountersType /\ Touched /\ Totals /\ Visiting

LEMMA StatsInitInv == StatsInit => SInv
  <1> SUFFICES ASSUME StatsInit PROVE SInv
    OBVIOUS
  <1>1. IInv /\ known = {} /\ Cardinality({}) = 0 /\ IsFiniteSet({})
    BY InitInv, FS_EmptySet DEF StatsInit, Init
  <1>2. CountersType
    BY DEF StatsInit, CountersType
  <1>3. Touched /\ Totals /\ Visiting
    BY <1>1 DEF StatsInit, Init, Touched, Totals, Visiting
  <1> QED
    BY <1>1, <1>2, <1>3 DEF SInv

LEMMA OneMore ==
    ASSUME NEW S, IsFiniteSet(S), NEW x
    PROVE  /\ Cardinality(S \cup {x}) \in Nat
           /\ Cardinality(S \cup {x}) <= Cardinality(S) + 1
  <1> DEFINE n == Cardinality(S)
             c == Cardinality(S \cup {x})
  <1>1. n \in Nat /\ c \in Nat
    BY FS_AddElement, FS_CardinalityType
  <1>2. c = n \/ c = n + 1
    <2>1. CASE x \in S
      <3>1. S \cup {x} = S
        BY <2>1
      <3> QED
        BY <3>1
    <2>2. CASE x \notin S
      BY <2>2, FS_AddElement
    <2> QED
      BY <2>1, <2>2
  <1> HIDE DEF n, c
  <1>3. c <= n + 1
    BY <1>1, <1>2
  <1> QED
    BY <1>1, <1>3 DEF n, c

(* Taking one metric changes only what Fetch says, or nothing but rx.      *)
LEMMA ProcessEffect ==
    ASSUME SInv, NEW m \in Metrics, Process(m)
    PROVE  /\ pc = "metrics" /\ pc' # "merge" /\ rx' = rx + 1
           /\ known \subseteq known' /\ known' \subseteq known \cup {m.path}
           /\ firstTime' \subseteq firstTime \cup {m.path}
           /\ \A p \in Paths : temp[p] # 0 => temp'[p] # 0
           /\ m.native \/ IsCustom(m) =>
                m.path \in known' /\ m.path \in Paths /\ temp'[m.path] # 0
           /\ ~(m.native \/ IsCustom(m)) => firstTime' = firstTime
  <1>1. m.path \in Paths /\ TypeOK
    BY MetricsAssumption DEF SInv, IInv
  <1>2. CASE SkipForeign(m)
    BY <1>2 DEF SkipForeign, Take
  <1>3. CASE Fetch(m) /\ pc' # "merge"
    <2>1. /\ known' = known \cup {m.path} /\ pc = "metrics" /\ rx' = rx + 1
          /\ firstTime' \subseteq firstTime \cup {m.path}
          /\ temp' = [temp EXCEPT ![m.path] = StatsFor(m.path)]
          /\ m.native \/ IsCustom(m)
      BY <1>3 DEF Fetch, Take
    <2>2. StatsFor(m.path) # 0
      BY <1>1 DEF StatsFor, TypeOK
    <2> QED
      BY <1>1, <1>3, <2>1, <2>2 DEF TypeOK
  <1>4. SkipForeign(m) \/ (Fetch(m) /\ pc' # "merge")
    BY DEF Process, InsertIntoStats, InsertIntoIface, InsertIntoFs,
           InsertIntoCustomMetrics, InsertOther, Panic, Handled, Fetch, Take
  <1> QED
    BY <1>2, <1>3, <1>4

LEMMA CountInv == ASSUME SInv, NEW m \in Metrics, Count(m) PROVE SInv'
  <1>1. /\ Process(m) /\ Next
        /\ dockers' = IF Touches(m) THEN dockers \cup {m.path} ELSE dockers
        /\ statsOf' = IF (m.native \/ IsCustom(m)) /\ "stats" \in m.hits
                      THEN statsOf \cup {m.path} ELSE statsOf
        /\ UNCHANGED <<metricsRx, containersRx, statsRx>>
    BY DEF Count, Next
  <1>2. IInv'
    BY <1>1, StepInv DEF SInv
  <1>3. /\ pc' # "merge" /\ rx' = rx + 1
        /\ known \subseteq known' /\ known' \subseteq known \cup {m.path}
        /\ firstTime' \subseteq firstTime \cup {m.path}
        /\ \A p \in Paths : temp[p] # 0 => temp'[p] # 0
        /\ m.native \/ IsCustom(m) =>
             m.path \in known' /\ m.path \in Paths /\ temp'[m.path] # 0
        /\ ~(m.native \/ IsCustom(m)) => firstTime' = firstTime
    BY <1>1, ProcessEffect
  <1>4. /\ IsFiniteSet(known') /\ Cardinality(known) <= Cardinality(known')
        /\ Cardinality(known) \in Nat /\ Cardinality(known') \in Nat
    <2>1. IsFiniteSet(known \cup {m.path})
      BY FS_AddElement DEF SInv
    <2> QED
      BY <1>3, <2>1, FS_Subset, FS_CardinalityType DEF SInv
  <1>5. known \subseteq Paths /\ rx \in Nat
    BY DEF SInv, IInv, TypeOK
  <1>6. Cardinality(statsOf') <= rx'
    <2>1. IsFiniteSet(statsOf) /\ Cardinality(statsOf) \in Nat
      BY FS_Subset, FS_CardinalityType DEF SInv, Touched
    <2>2. /\ Cardinality(statsOf \cup {m.path}) \in Nat
          /\ Cardinality(statsOf \cup {m.path}) <= Cardinality(statsOf) + 1
      BY <2>1, OneMore
    <2> QED
      BY <1>1, <1>3, <1>5, <2>1, <2>2 DEF SInv, Touched
  <1>7. Touched'
    BY <1>1, <1>3, <1>5, <1>6 DEF SInv, Touched, Touches
  <1>8. CountersType' /\ Totals' /\ Visiting'
    BY <1>1, <1>3, <1>4 DEF SInv, CountersType, Totals, Visiting
  <1> QED
    BY <1>2, <1>4, <1>7, <1>8 DEF SInv

LEMMA FinishInv == ASSUME SInv, Finish PROVE SInv'
  <1> DEFINE n == Cardinality(dockers)
             s == Cardinality(statsOf)
  <1>1. /\ Next /\ pc' = "idle" /\ rx' = 0 /\ firstTime' = {} /\ known' = known
        /\ containersRx' = [max |-> AtLeast(n, containersRx.max), recently |-> n]
        /\ statsRx' = [max |-> AtLeast(s, statsRx.max), recently |-> s,
                       total |-> statsRx.total + s]
        /\ metricsRx' = [total |-> metricsRx.total + rx, recently |-> rx]
        /\ dockers' = {} /\ statsOf' = {}
    BY DEF Finish, EndCustomOnly, EndMerge, Unlock, Next
  <1>2. IInv' /\ IsFiniteSet(known')
    BY <1>1, StepInv DEF SInv
  <1>3. /\ n \in Nat /\ s \in Nat /\ Cardinality(known) \in Nat /\ rx \in Nat
        /\ s <= n /\ n <= Cardinality(known) /\ s <= rx
    <2>1. /\ IsFiniteSet(dockers) /\ n <= Cardinality(known)
          /\ n \in Nat /\ Cardinality(known) \in Nat
      BY FS_Subset, FS_CardinalityType DEF SInv, Touched
    <2>2. s <= n /\ s \in Nat
      BY <2>1, FS_Subset, FS_CardinalityType DEF SInv, Touched
    <2> QED
      BY <2>1, <2>2 DEF SInv, IInv, TypeOK, Touched
  <1> HIDE DEF n, s
  <1>4. CountersType'
    BY <1>1, <1>3 DEF SInv, CountersType, AtLeast
  <1>5. Totals'
    BY <1>1, <1>3 DEF SInv, CountersType, Totals, AtLeast
  <1>6. Touched' /\ Visiting'
    BY <1>1, FS_EmptySet DEF Touched, Visiting
  <1> QED
    BY <1>2, <1>4, <1>5, <1>6 DEF SInv

LEMMA CountMergeInv == ASSUME SInv, NEW p \in Paths, CountMerge(p) PROVE SInv'
  <1>1. /\ Merge(p) /\ Next /\ dockers' = dockers \cup {p}
        /\ UNCHANGED <<statsOf, metricsRx, containersRx, statsRx>>
    BY DEF CountMerge, Visited, Next
  <1>2. /\ p \in toMerge /\ toMerge' = toMerge \ {p}
        /\ UNCHANGED <<pc, rx, firstTime, regular, temp, known>>
    BY <1>1 DEF Merge, MergeStatsForDocker, MergeNothing
  <1>3. IInv' /\ p \in known
    BY <1>1, <1>2, StepInv DEF SInv, IInv, TypeOK
  <1>4. Touched' /\ Totals' /\ Visiting' /\ CountersType'
    BY <1>1, <1>2, <1>3 DEF SInv, Touched, Totals, Visiting, CountersType
  <1> QED
    BY <1>2, <1>3, <1>4 DEF SInv

(* The calls that count nothing.                                           *)
LEMMA QuietInv ==
    ASSUME SInv, Begin \/ CountNone \/ Unload \/ UNCHANGED <<vars, countVars>>
    PROVE  SInv'
  <1>1. /\ UNCHANGED <<rx, firstTime, regular, temp, known>> /\ UNCHANGED countVars
        /\ \/ pc' = "merge" /\ regular /\ toMerge' = known
           \/ pc' # "merge"
           \/ pc' = pc /\ toMerge' = toMerge
    BY DEF Begin, Lock, CountNone, BeginMerge, Unload, vars, batchVars
  <1>2. IInv'
    <2>1. CASE Unload
      BY <2>1 DEF SInv, Unload, IInv, TypeOK, Consistent, ListedIsFinished,
                  Numbered, AccountedOnce, AttachedToLater, SpecForEveryValue,
                  batchVars, customVars, Listed, Objects, Attached, NoTemp
    <2>2. CASE ~Unload
      BY <2>2, StepInv DEF SInv, Next, Begin, CountNone
    <2> QED
      BY <2>1, <2>2
  <1>3. Touched' /\ Totals' /\ Visiting' /\ CountersType'
    BY <1>1 DEF SInv, Touched, Totals, Visiting, CountersType, countVars
  <1> QED
    BY <1>1, <1>2, <1>3 DEF SInv

LEMMA CountAfreshInv == ASSUME SInv, CountAfresh PROVE SInv'
  <1>1. /\ IInv' /\ known' = {} /\ pc' = "idle" /\ rx' = 0 /\ firstTime' = {}
        /\ dockers' = {} /\ statsOf' = {}
    BY StepInv DEF SInv, CountAfresh, Restart, Next
  <1>2. Cardinality({}) = 0 /\ IsFiniteSet({})
    BY FS_EmptySet
  <1>3. CountersType' /\ Totals'
    BY <1>1, <1>2 DEF CountAfresh, CountersType, Totals
  <1>4. Touched' /\ Visiting'
    BY <1>1, <1>2 DEF Touched, Visiting
  <1> QED
    BY <1>1, <1>2, <1>3, <1>4 DEF SInv

(* Every step of a batch keeps the counters of coreStats in line with the  *)
(* store and with what the batch has touched so far.                       *)
THEOREM StatsStep == SInv /\ [StatsNext]_<<vars, countVars>> => SInv'
  BY CountInv, FinishInv, CountMergeInv, QuietInv, CountAfreshInv DEF StatsNext

(* The invariant of the counters holds from batch to batch.                *)
THEOREM StatsInvariant == StatsSpec => []SInv
  <1>1. StatsInit => SInv
    BY StatsInitInv
  <1>2. SInv /\ [StatsNext]_<<vars, countVars>> => SInv'
    BY StatsStep
  <1> QED
    BY <1>1, <1>2, PTL DEF StatsSpec

(* The counters of coreStats agree with the store, batch after batch.      *)
THEOREM CountersAgree == StatsSpec => []CountersConsistent
  <1>1. SInv => CountersConsistent
    BY DEF SInv, Touched, Totals, CountersConsistent
  <1> QED
    BY <1>1, StatsInvariant, PTL

(* After a batch with regular stats containersRxRecently is the number of  *)
(* all containers known, as the final loop fetches each of them.           *)
THEOREM RecentlyCountsAll == StatsSpec => RecentlyIsKnown
  <1>1. ASSUME SInv, Finish
        PROVE  containersRx'.recently =
                  IF regular THEN Cardinality(known) ELSE Cardinality(dockers)
    <2>1. containersRx'.recently = Cardinality(dockers)
      BY <1>1 DEF Finish
    <2>2. CASE EndCustomOnly
      BY <2>1, <2>2 DEF EndCustomOnly
    <2>3. CASE EndMerge
      <3>1. regular /\ dockers = known
        BY <1>1, <2>3 DEF EndMerge, SInv, Visiting, Touched
      <3> QED
        BY <2>1, <3>1
    <2> QED
      BY <1>1, <2>2, <2>3 DEF Finish
  <1>2. SInv /\ [StatsNext]_<<vars, countVars>> =>
           [Finish => containersRx'.recently =
                IF regular THEN Cardinality(known) ELSE Cardinality(dockers)
           ]_<<vars, countVars>>
    BY <1>1
  <1> QED
    BY <1>2, StatsInvariant, PTL DEF StatsSpec, RecentlyIsKnown
=============================================================================

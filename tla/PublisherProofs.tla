-------------------------- MODULE PublisherProofs --------------------------
(***************************************************************************)
(* Theorems of Publisher for every value of its constants.                 *)
(***************************************************************************)
EXTENDS Publisher, LoopLemmas, SequenceTheorems

-----------------------------------------------------------------------------
(* Lemmas about sequences and about the operators of the model.            *)

(* A sequence over a set is a sequence over every larger set.              *)
LEMMA SeqOverLarger ==
    ASSUME NEW S, NEW T, S \subseteq T, NEW s \in Seq(S)
    PROVE  s \in Seq(T)
  OBVIOUS

(* A stamp is a number of ticks, whatever the metric and the delta.        *)
LEMMA TruncType ==
    ASSUME NEW t \in Int
    PROVE  Trunc(t) \in Int
  BY ConfigAssumption DEF Trunc

(* The heap fetchObjectForStats leaves: the object asked for is in it, and *)
(* the objects that were there before are unchanged.                       *)
LEMMA FetchStatsType ==
    ASSUME TypeOK, NEW m \in Metrics
    PROVE  /\ FetchStats(m) \in Seq(Object)
           /\ StatsFor(m.path) \in 1 .. Len(FetchStats(m))
           /\ Len(FetchStats(m)) >= Len(objs)
           /\ \A s \in Objects : FetchStats(m)[s] = objs[s]
           /\ m.path \in Paths
  <1> DEFINE o == [path |-> m.path, stamp |-> Trunc(m.ts + TstampDelta),
                   fields |-> {}, closed |-> FALSE]
  <1>1. m.path \in Paths /\ m.ts \in Int
    BY MetricsAssumption
  <1>2. o \in Object
    BY <1>1, TruncType, ConfigAssumption DEF Object
  <1>3. objs \in Seq(Object) /\ temp[m.path] \in Objects \cup {0}
    BY <1>1 DEF TypeOK
  <1>4. CASE temp[m.path] # 0
    BY <1>1, <1>3, <1>4 DEF FetchStats, StatsFor, Objects
  <1>5. CASE temp[m.path] = 0
    <2>1. FetchStats(m) = Append(objs, o) /\ StatsFor(m.path) = Len(objs) + 1
      BY <1>5 DEF FetchStats, StatsFor
    <2> QED
      BY <1>1, <1>2, <1>3, <2>1 DEF Objects
  <1> QED
    BY <1>4, <1>5

(* The list makeRoomForStats leaves behind holds entries of the old list.  *)
LEMMA MakeRoomType ==
    ASSUME NEW S, NEW list \in Seq(S), NEW nu
    PROVE  /\ MakeRoomForStats(list, nu) \in Seq(S)
           /\ Len(MakeRoomForStats(list, nu)) = Len(list)
  <1> DEFINE k == ValidOfs(list, nu)
             r == MakeRoomForStats(list, nu)
  <1>1. DOMAIN r = 1 .. Len(list)
    BY DEF MakeRoomForStats
  <1>2. \A i \in 1 .. Len(list) : r[i] \in S
    BY DEF MakeRoomForStats
  <1>3. r = [i \in 1 .. Len(list) |-> r[i]]
    BY <1>1 DEF MakeRoomForStats
  <1> QED
    BY <1>1, <1>2, <1>3

(* What taking a metric of a container leaves of the typed state.          *)
LEMMA FetchType ==
    ASSUME TypeOK, NEW m \in Metrics, Fetch(m),
           Len(objs') = Len(FetchStats(m))
    PROVE  /\ rx' \in Nat
           /\ known' \subseteq Paths /\ firstTime' \subseteq known'
           /\ toMerge' \subseteq known' /\ known \subseteq known'
           /\ m.path \in known'
           /\ Objects \subseteq Objects'
           /\ temp' \in [Paths -> Objects' \cup {0}]
           /\ stats' \in [Paths -> Seq(Objects')]
  <1>1. /\ m.path \in Paths
        /\ StatsFor(m.path) \in 1 .. Len(FetchStats(m))
        /\ Len(FetchStats(m)) >= Len(objs)
    BY FetchStatsType
  <1>2. Len(objs) \in Nat
    BY DEF TypeOK
  <1>3. Objects' = 1 .. Len(FetchStats(m))
    BY DEF Objects
  <1>4. Objects \subseteq Objects'
    BY <1>1, <1>2, <1>3 DEF Objects
  <1>5. temp' = [temp EXCEPT ![m.path] = StatsFor(m.path)]
    BY DEF Fetch
  <1>6. temp' \in [Paths -> Objects' \cup {0}]
    BY <1>1, <1>3, <1>4, <1>5 DEF TypeOK
  <1>7. stats' \in [Paths -> Seq(Objects')]
    BY <1>4, SeqOverLarger DEF TypeOK, Fetch, Take
  <1> QED
    BY <1>1, <1>4, <1>6, <1>7 DEF Fetch, Take, TypeOK

(* Writing one field of an object leaves an object.                        *)
LEMMA WrittenIsObject ==
    ASSUME NEW o \in Object, NEW t \in Targets
    PROVE  [o EXCEPT !.fields = @ \cup {t}] \in Object
  <1>1. o.fields \cup {t} \in SUBSET Targets
    BY DEF Object
  <1> QED
    BY <1>1 DEF Object

LEMMA ClosedIsObject ==
    ASSUME NEW o \in Object
    PROVE  [o EXCEPT !.closed = TRUE] \in Object
  BY DEF Object

(* A heap written at one object stays a heap of as many objects.           *)
LEMMA WriteFieldType ==
    ASSUME TypeOK, NEW m \in Metrics, NEW t \in Targets, WriteField(m, t)
    PROVE  objs' \in Seq(Object) /\ Len(objs') = Len(FetchStats(m))
  <1> DEFINE h == FetchStats(m)
             s == StatsFor(m.path)
             o == [h[s] EXCEPT !.fields = @ \cup {t}]
  <1>1. h \in Seq(Object) /\ s \in 1 .. Len(h)
    BY FetchStatsType
  <1>2. objs' = [h EXCEPT ![s] = o]
    BY DEF WriteField
  <1>3. h[s] \in Object
    BY <1>1
  <1>4. o \in Object
    BY <1>3, WrittenIsObject
  <1>5. objs' \in Seq(Object) /\ Len(objs') = Len(h)
    <2> HIDE DEF h, s, o
    <2> QED
      BY <1>1, <1>2, <1>4, ExceptSeq
  <1> QED
    BY <1>5

(* The values a metric queues are values, newly numbered.                  *)
LEMMA QueuedByType ==
    ASSUME TypeOK, NEW m \in Metrics
    PROVE  /\ QueuedBy(m) \subseteq Value
           /\ Len(m.specs) \in Nat
           /\ \A v \in QueuedBy(m) : /\ v.path = m.path
                                     /\ v.id > lastId
                                     /\ v.id <= lastId + Len(m.specs)
                                     /\ v.name \in SpecNames(m)
           /\ SpecNames(m) \subseteq Names
  <1>1. /\ m.specs \in Seq(Names) /\ m.path \in Paths /\ m.ts \in Int
    BY MetricsAssumption
  <1>2. lastId \in Nat
    BY DEF TypeOK
  <1>3. \A k \in DOMAIN m.specs :
           /\ m.specs[k] \in Names
           /\ lastId + k \in Nat
           /\ lastId + k > lastId /\ lastId + k <= lastId + Len(m.specs)
    BY <1>1, <1>2
  <1> QED
    BY <1>1, <1>3 DEF QueuedBy, SpecNames, Value

(* The part of the state insertIntoDocker changes.                         *)
LEMMA InsertIntoDockerType ==
    ASSUME TypeOK, NEW m \in Metrics, Fetch(m), InsertIntoDocker(m)
    PROVE  labelled' \subseteq known'
  BY DEF InsertIntoDocker, Fetch, TypeOK

(* The list mergeStatsForDocker builds, and what it leaves of the types.   *)
NewList(p) ==
    Append(MakeRoomForStats(stats[p], objs[temp[p]].stamp), temp[p])

LEMMA NewListType ==
    ASSUME TypeOK, NEW p \in Paths, temp[p] # 0
    PROVE  /\ NewList(p) \in Seq(Objects)
           /\ Len(NewList(p)) = Len(stats[p]) + 1
           /\ NewList(p)[Len(stats[p]) + 1] = temp[p]
           /\ \A i \in 1 .. Len(stats[p]) : NewList(p)[i] \in Listed(p)
  <1> DEFINE r == MakeRoomForStats(stats[p], objs[temp[p]].stamp)
  <1>1. stats[p] \in Seq(Objects) /\ temp[p] \in Objects
    BY DEF TypeOK
  <1>2. stats[p] \in Seq(Listed(p))
    BY <1>1 DEF Listed
  <1>3. r \in Seq(Objects) /\ r \in Seq(Listed(p)) /\ Len(r) = Len(stats[p])
    BY <1>1, <1>2, MakeRoomType
  <1> HIDE DEF r
  <1>4. NewList(p) = Append(r, temp[p])
    BY DEF NewList, r
  <1> QED
    BY <1>1, <1>3, <1>4

LEMMA AttachedByType ==
    ASSUME TypeOK, NEW p \in Paths, NEW list \in Seq(Objects)
    PROVE  AttachedBy(p, list) \subseteq Objects \X Value
  BY DEF TypeOK, AttachedBy, PendingOf

LEMMA MergeType ==
    ASSUME TypeOK, NEW p \in Paths, MergeStatsForDocker(p)
    PROVE  TypeOK'
  <1>1. temp[p] \in Objects /\ objs \in Seq(Object)
    BY DEF TypeOK, MergeStatsForDocker
  <1>2. objs' \in Seq(Object) /\ Len(objs') = Len(objs)
    <2> DEFINE o == [objs[temp[p]] EXCEPT !.closed = TRUE]
    <2>1. o \in Object
      BY <1>1, ClosedIsObject DEF Objects
    <2>2. objs' = [objs EXCEPT ![temp[p]] = o]
      BY DEF MergeStatsForDocker
    <2> HIDE DEF o
    <2> QED
      BY <1>1, <2>1, <2>2, ExceptSeq DEF Objects
  <1>3. Objects' = Objects
    BY <1>2 DEF Objects
  <1>4. /\ NewList(p) \in Seq(Objects)
        /\ stats' = [stats EXCEPT ![p] = NewList(p)]
        /\ custom' = custom \cup AttachedBy(p, NewList(p))
        /\ pending' \subseteq pending
    BY NewListType DEF MergeStatsForDocker, NewList, StillPending
  <1>5. AttachedBy(p, NewList(p)) \subseteq Objects \X Value
    BY <1>4, AttachedByType
  <1>6. /\ UNCHANGED <<pc, rx, firstTime, regular, temp, known, labelled,
                       specs, lastId, accepted>>
        /\ toMerge' \subseteq toMerge
    BY DEF MergeStatsForDocker
  <1> HIDE DEF NewList
  <1> QED
    BY <1>2, <1>3, <1>4, <1>5, <1>6 DEF TypeOK

(* A new process has allocated nothing, so no reference in it is wrong.    *)
THEOREM InitType == Init => TypeOK
  <1> SUFFICES ASSUME Init PROVE TypeOK
    OBVIOUS
  <1>1. objs \in Seq(Object)
    BY DEF Init
  <1>2. stats \in [Paths -> Seq(Objects)]
    BY DEF Init
  <1> QED
    BY <1>1, <1>2 DEF Init, TypeOK, NoTemp

(* Every step of the program preserves the types.                          *)
THEOREM StepType == TypeOK /\ [Next]_vars => TypeOK'
  <1> SUFFICES ASSUME TypeOK, [Next]_vars PROVE TypeOK'
    OBVIOUS
  <1> USE DEF TypeOK
  <1>1. CASE Lock
    BY <1>1 DEF Lock, batchVars, customVars, Objects
  <1>2. CASE EndCustomOnly
    BY <1>2 DEF EndCustomOnly, Unlock, customVars, NoTemp, Objects
  <1>3. CASE BeginMerge
    BY <1>3 DEF BeginMerge, customVars, Objects
  <1>4. CASE EndMerge
    BY <1>4 DEF EndMerge, Unlock, customVars, NoTemp, Objects
  <1>5. CASE Restart
    <2>1. objs' \in Seq(Object)
      BY <1>5 DEF Restart
    <2>2. stats' \in [Paths -> Seq(Objects')]
      BY <1>5 DEF Restart
    <2> QED
      BY <1>5, <2>1, <2>2 DEF Restart, NoTemp
  <1>6. CASE UNCHANGED vars
    BY <1>6 DEF vars, batchVars, customVars, Objects
  <1>7. ASSUME NEW m \in Metrics, SkipForeign(m) PROVE TypeOK'
    BY <1>7 DEF SkipForeign, Take, customVars, Objects
  <1>8. ASSUME NEW m \in Metrics, NEW t \in Targets,
               Fetch(m), Handled(m), WriteField(m, t)
        PROVE  TypeOK'
    <2>1. objs' \in Seq(Object) /\ Len(objs') = Len(FetchStats(m))
      BY <1>8, WriteFieldType
    <2>2. /\ rx' \in Nat /\ known' \subseteq Paths
          /\ firstTime' \subseteq known' /\ toMerge' \subseteq known'
          /\ known \subseteq known' /\ Objects \subseteq Objects'
          /\ temp' \in [Paths -> Objects' \cup {0}]
          /\ stats' \in [Paths -> Seq(Objects')]
      BY <1>8, <2>1, FetchType
    <2>3. /\ pc' = pc /\ regular' \in BOOLEAN
          /\ UNCHANGED <<labelled, specs, pending, custom, lastId, accepted>>
      BY <1>8, MetricsAssumption DEF Handled, WriteField, customVars
    <2> QED
      BY <2>1, <2>2, <2>3
  <1>9. ASSUME NEW m \in Metrics, Fetch(m), objs' = FetchStats(m)
        PROVE  /\ objs' \in Seq(Object)
               /\ rx' \in Nat /\ known' \subseteq Paths
               /\ firstTime' \subseteq known' /\ toMerge' \subseteq known'
               /\ known \subseteq known' /\ Objects \subseteq Objects'
               /\ temp' \in [Paths -> Objects' \cup {0}]
               /\ stats' \in [Paths -> Seq(Objects')]
    BY <1>9, FetchType, FetchStatsType
  <1>10. ASSUME NEW m \in Metrics, InsertIntoCustomMetrics(m) PROVE TypeOK'
    <2>1. Fetch(m) /\ objs' = FetchStats(m)
      BY <1>10 DEF InsertIntoCustomMetrics
    <2>2. QueuedBy(m) \subseteq Value /\ Len(m.specs) \in Nat
          /\ SpecNames(m) \subseteq Names
      BY QueuedByType
    <2>3. labelled' \subseteq known'
      BY <1>9, <1>10, <2>1, InsertIntoDockerType
         DEF InsertIntoCustomMetrics
    <2>4. /\ pc' = pc /\ regular' \in BOOLEAN /\ lastId' \in Nat
          /\ specs' \in [Paths -> SUBSET Names]
          /\ pending' \subseteq Value /\ accepted' \subseteq Value
          /\ UNCHANGED custom
      BY <1>10, <2>2, MetricsAssumption
         DEF InsertIntoCustomMetrics, Handled
    <2> QED
      BY <1>9, <2>1, <2>3, <2>4
  <1>11. ASSUME NEW m \in Metrics, InsertOther(m) PROVE TypeOK'
    <2>1. Fetch(m) /\ objs' = FetchStats(m) /\ InsertIntoDocker(m)
      BY <1>11 DEF InsertOther
    <2>2. labelled' \subseteq known'
      BY <2>1, InsertIntoDockerType
    <2>3. /\ pc' = pc /\ regular' \in BOOLEAN
          /\ UNCHANGED <<specs, pending, custom, lastId, accepted>>
      BY <1>11, MetricsAssumption DEF InsertOther, Handled, customVars
    <2> QED
      BY <1>9, <2>1, <2>2, <2>3
  <1>12. ASSUME NEW m \in Metrics, Panic(m) PROVE TypeOK'
    <2>1. Fetch(m) /\ objs' = FetchStats(m)
      BY <1>12 DEF Panic
    <2>2. /\ pc' = "crashed"
          /\ UNCHANGED <<regular, labelled, specs, pending, custom, lastId,
                         accepted>>
      BY <1>12 DEF Panic, customVars
    <2> QED
      BY <1>9, <2>1, <2>2
  <1>13. ASSUME NEW p \in Paths, MergeNothing(p) PROVE TypeOK'
    BY <1>13 DEF MergeNothing, customVars, Objects
  <1>14. ASSUME NEW p \in Paths, MergeStatsForDocker(p) PROVE TypeOK'
    BY <1>14, MergeType
  <1>15. ASSUME NEW m \in Metrics, Process(m) PROVE TypeOK'
    <2>1. CASE InsertIntoStats(m)
      BY <1>8, <2>1 DEF InsertIntoStats, Targets
    <2>2. CASE InsertIntoIface(m)
      BY <1>8, <2>2 DEF InsertIntoIface, Targets
    <2>3. CASE InsertIntoFs(m)
      BY <1>8, <2>3 DEF InsertIntoFs, Targets
    <2> QED
      BY <1>7, <1>10, <1>11, <1>12, <1>15, <2>1, <2>2, <2>3 DEF Process
  <1> QED
    BY <1>1, <1>2, <1>3, <1>4, <1>5, <1>6, <1>13, <1>14, <1>15
       DEF Next, Merge

(* TypeOK holds in every state the program reaches.                        *)
THEOREM TypeCorrect == Spec => []TypeOK
  BY InitType, StepType, PTL DEF Spec

-----------------------------------------------------------------------------
(* The inductive invariant: none of its safety parts is inductive alone.   *)
(* That a value is attached once needs the numbering of the values, that   *)
(* it is attached to an object of its container needs ListedIsFinished,    *)
(* which needs the bookkeeping of temporaryStats in Consistent.            *)
Numbered == \A v \in accepted : v.id <= lastId

IInv ==
    /\ TypeOK /\ Consistent /\ ListedIsFinished /\ Numbered
    /\ AccountedOnce /\ AttachedToLater /\ SpecForEveryValue

(* The inductive invariant holds before the first batch.                   *)
THEOREM InitInv == Init => IInv
  <1> SUFFICES ASSUME Init PROVE IInv
    OBVIOUS
  <1>1. TypeOK
    BY InitType
  <1>2. Consistent /\ ListedIsFinished
    BY DEF Init, Consistent, ListedIsFinished, NoTemp, Listed
  <1>3. Numbered /\ AccountedOnce /\ AttachedToLater /\ SpecForEveryValue
    BY DEF Init, Numbered, AccountedOnce, AttachedToLater, SpecForEveryValue, Attached
  <1> QED
    BY <1>1, <1>2, <1>3 DEF IInv

(* mergePendingMetrics finds exactly one target for a value some listed    *)
(* object is later than.                                                   *)
LEMMA FirstLaterExists ==
    ASSUME NEW v, NEW list \in Seq(Objects),
           NEW i \in DOMAIN list, Before(v, list[i])
    PROVE  \E j \in DOMAIN list : FirstLater(v, list, j)
  <1> DEFINE S == {j \in DOMAIN list : Before(v, list[j])}
  <1>1. S \subseteq Nat /\ S # {}
    OBVIOUS
  <1>2. PICK j \in S : \A k \in S : j <= k
    BY <1>1, LeastElement
  <1>3. \A k \in 1 .. j - 1 : k \in DOMAIN list /\ ~(j <= k)
    BY <1>2
  <1> QED
    BY <1>2, <1>3 DEF FirstLater

LEMMA FirstLaterUnique ==
    ASSUME NEW v, NEW list \in Seq(Objects),
           NEW i \in DOMAIN list, NEW j \in DOMAIN list,
           FirstLater(v, list, i), FirstLater(v, list, j)
    PROVE  i = j
  <1>1. ~(i < j) /\ ~(j < i)
    BY DEF FirstLater
  <1> QED
    BY <1>1

(* What an iteration of the batch loop does to the heap: it may allocate   *)
(* and write the object being filled, and leaves every other one alone.    *)
BatchHeap(m) ==
    \/ objs' = FetchStats(m)
    \/ \E t \in Targets : WriteField(m, t)

LEMMA BatchHeapKept ==
    ASSUME TypeOK, NEW m \in Metrics, Fetch(m), BatchHeap(m)
    PROVE  /\ \A s \in Objects : /\ objs'[s].path = objs[s].path
                                 /\ objs'[s].stamp = objs[s].stamp
                                 /\ objs'[s].closed = objs[s].closed
                                 /\ s # temp[m.path] => objs'[s] = objs[s]
           /\ temp[m.path] = 0 => LET o == objs'[temp'[m.path]]
                                  IN  o.path = m.path /\ ~o.closed
           /\ m.path \in Paths /\ temp' = [temp EXCEPT ![m.path] = @']
           /\ temp[m.path] # 0 => temp' = temp
           /\ temp'[m.path] # 0
           /\ Objects \subseteq Objects'
  <1> DEFINE h == FetchStats(m)
             n == StatsFor(m.path)
  <1>1. /\ h \in Seq(Object) /\ n \in 1 .. Len(h) /\ Len(h) >= Len(objs)
        /\ \A s \in Objects : h[s] = objs[s]
        /\ m.path \in Paths
    BY FetchStatsType
  <1>2. temp' = [temp EXCEPT ![m.path] = n] /\ temp \in [Paths -> Objects \cup {0}]
    BY DEF Fetch, TypeOK
  <1>3. temp'[m.path] = n /\ temp' = [temp EXCEPT ![m.path] = @']
    BY <1>1, <1>2
  <1>4. temp[m.path] # 0 => n = temp[m.path]
    BY DEF StatsFor
  <1>5. temp[m.path] # 0 => temp' = temp
    BY <1>1, <1>2, <1>4
  <1>6. temp[m.path] = 0 => /\ n = Len(objs) + 1
                            /\ h[n].path = m.path /\ h[n].closed = FALSE
    BY <1>1 DEF StatsFor, FetchStats, TypeOK
  <1>7. /\ \A s \in 1 .. Len(h) :
              /\ objs'[s].path = h[s].path /\ objs'[s].stamp = h[s].stamp
              /\ objs'[s].closed = h[s].closed
              /\ s # n => objs'[s] = h[s]
        /\ Len(objs') = Len(h)
    <2>1. CASE objs' = h
      BY <2>1
    <2>2. ASSUME NEW t \in Targets, WriteField(m, t)
          PROVE  <1>7!1 /\ <1>7!2
      <3> DEFINE o == [h[n] EXCEPT !.fields = @ \cup {t}]
      <3>1. objs' = [h EXCEPT ![n] = o]
        BY <2>2 DEF WriteField
      <3>2. h[n] \in Object
        BY <1>1
      <3>3. /\ o.path = h[n].path /\ o.stamp = h[n].stamp
            /\ o.closed = h[n].closed
        BY <3>2 DEF Object
      <3>4. Len(objs') = Len(h)
        BY <2>2, WriteFieldType
      <3> HIDE DEF h, n, o
      <3>5. \A s \in 1 .. Len(h) : objs'[s] = IF s = n THEN o ELSE h[s]
        BY <1>1, <3>1
      <3> QED
        BY <3>3, <3>4, <3>5
    <2> QED
      BY <2>1, <2>2 DEF BatchHeap
  <1>8. Len(objs) \in Nat /\ Objects \subseteq 1 .. Len(h)
    BY <1>1 DEF Objects, TypeOK
  <1>9. Objects \subseteq Objects'
    BY <1>7, <1>8 DEF Objects
  <1>10. \A s \in Objects : s # temp[m.path] => s # n
    BY <1>4, <1>6, <1>8 DEF Objects
  <1> HIDE DEF h, n
  <1> QED
    BY <1>1, <1>3, <1>5, <1>6, <1>7, <1>8, <1>9, <1>10

(* An iteration of the batch loop keeps what is said about the heap.       *)
LEMMA BatchStepInv ==
    ASSUME IInv, NEW m \in Metrics, Fetch(m), BatchHeap(m),
           pc' \in {"metrics", "crashed"}, custom' = custom
    PROVE  Consistent' /\ ListedIsFinished' /\ AttachedToLater'
  <1> USE DEF IInv
  <1>1. /\ pc = "metrics" /\ toMerge = {} /\ toMerge' = {} /\ stats' = stats
        /\ known' = known \cup {m.path}
    BY DEF Fetch, Take, Consistent
  <1>2. /\ \A s \in Objects : /\ objs'[s].path = objs[s].path
                              /\ objs'[s].stamp = objs[s].stamp
                              /\ objs'[s].closed = objs[s].closed
        /\ temp[m.path] = 0 => LET o == objs'[temp'[m.path]]
                               IN  o.path = m.path /\ ~o.closed
        /\ m.path \in Paths /\ temp' = [temp EXCEPT ![m.path] = @']
        /\ temp[m.path] # 0 => temp' = temp
    BY BatchHeapKept
  <1>3. /\ temp \in [Paths -> Objects \cup {0}]
        /\ \A p \in Paths : Listed(p) \subseteq Objects
        /\ custom \subseteq Objects \X Value
    BY DEF TypeOK, Listed
  <1>4. ASSUME NEW p \in Paths, temp'[p] # 0
        PROVE  /\ p \in known' /\ objs'[temp'[p]].path = p
               /\ ~objs'[temp'[p]].closed
    <2>1. CASE temp'[p] = temp[p]
      <3>1. temp[p] \in Objects /\ p \in known /\ objs[temp[p]].path = p
            /\ ~objs[temp[p]].closed
        BY <1>1, <1>3, <1>4, <2>1 DEF Consistent
      <3> QED
        BY <1>1, <1>2, <2>1, <3>1
    <2>2. CASE p = m.path /\ temp[p] = 0
      BY <1>1, <1>2, <2>2
    <2> QED
      BY <1>2, <1>3, <2>1, <2>2
  <1>5. Consistent'
    BY <1>1, <1>4 DEF Consistent
  <1>6. ASSUME NEW p \in Paths, NEW s \in Listed(p)
        PROVE  objs'[s].path = p /\ objs'[s].closed
    BY <1>2, <1>3 DEF ListedIsFinished
  <1>7. ListedIsFinished'
    <2>1. \A p \in Paths : Listed(p)' = Listed(p)
      BY <1>1 DEF Listed
    <2>2. \A p \in Paths : \A s \in Listed(p) : s # temp'[p]
      <3>1. 0 \notin Objects
        BY DEF Objects
      <3> QED
        BY <1>3, <1>4, <1>6, <3>1
    <2> QED
      BY <1>6, <2>1, <2>2 DEF ListedIsFinished
  <1>8. AttachedToLater'
    BY <1>2, <1>3 DEF AttachedToLater
  <1> QED
    BY <1>5, <1>7, <1>8

(* The values a metric queues are new, so each is accounted for once.      *)
LEMMA QueueInv ==
    ASSUME IInv, NEW m \in Metrics, InsertIntoCustomMetrics(m)
    PROVE  Numbered' /\ AccountedOnce' /\ SpecForEveryValue'
  <1> USE DEF IInv
  <1>1. /\ pending' = pending \cup QueuedBy(m)
        /\ accepted' = accepted \cup QueuedBy(m)
        /\ lastId' = lastId + Len(m.specs)
        /\ specs' = [specs EXCEPT ![m.path] = @ \cup SpecNames(m)]
        /\ custom' = custom
    BY DEF InsertIntoCustomMetrics
  <1>2. /\ Len(m.specs) \in Nat /\ m.path \in Paths
        /\ \A v \in QueuedBy(m) : /\ v.path = m.path /\ v.id > lastId
                                  /\ v.id <= lastId + Len(m.specs)
                                  /\ v.name \in SpecNames(m)
    BY QueuedByType, MetricsAssumption
  <1>3. /\ lastId \in Nat /\ accepted \subseteq Value
        /\ \A v \in accepted : v.id \in Nat /\ v.id <= lastId /\ v.path \in Paths
        /\ specs \in [Paths -> SUBSET Names]
    BY DEF TypeOK, Numbered, Value
  <1>4. QueuedBy(m) \cap accepted = {}
    BY <1>2, <1>3
  <1>5. Numbered'
    BY <1>1, <1>2, <1>3 DEF Numbered
  <1>6. AccountedOnce'
    BY <1>1, <1>4 DEF AccountedOnce, Attached
  <1>7. SpecForEveryValue'
    BY <1>1, <1>2, <1>3 DEF SpecForEveryValue
  <1> QED
    BY <1>5, <1>6, <1>7

(* What mergeStatsForDocker does, with the two facts about the lists: the  *)
(* pending values that dropTooOldPendingMetrics looks for are gone before  *)
(* it runs, because the list it scans is the one just merged into.         *)
LEMMA MergeEffect ==
    ASSUME TypeOK, NEW p \in Paths, MergeStatsForDocker(p)
    PROVE  /\ temp[p] # 0 /\ pc = "merge" /\ p \in toMerge
           /\ toMerge' = toMerge \ {p}
           /\ UNCHANGED <<pc, temp, known, specs, lastId, accepted>>
           /\ objs' = [objs EXCEPT ![temp[p]].closed = TRUE]
           /\ stats' = [stats EXCEPT ![p] = NewList(p)]
           /\ custom' = custom \cup AttachedBy(p, NewList(p))
           /\ pending' = StillPending(p, NewList(p))
  <1>1. pending' = {v \in StillPending(p, NewList(p)) : ~TooOld(v, p, NewList(p))}
    BY DEF MergeStatsForDocker, NewList
  <1>2. NewList(p) \in Seq(Objects) /\ Len(NewList(p)) = Len(stats[p]) + 1
        /\ Len(stats[p]) \in Nat
    BY NewListType DEF MergeStatsForDocker, TypeOK
  <1>3. 1 \in DOMAIN NewList(p)
    BY <1>2
  <1>4. \A v \in StillPending(p, NewList(p)) : ~TooOld(v, p, NewList(p))
    BY <1>3 DEF StillPending, TooOld
  <1> QED
    BY <1>1, <1>4 DEF MergeStatsForDocker, NewList

LEMMA MergeHeap ==
    ASSUME TypeOK, NEW p \in Paths, MergeStatsForDocker(p)
    PROVE  /\ Objects' = Objects /\ temp[p] \in Objects
           /\ \A s \in Objects : /\ objs'[s].path = objs[s].path
                                 /\ objs'[s].stamp = objs[s].stamp
                                 /\ s # temp[p] => objs'[s] = objs[s]
                                 /\ objs[s].closed => objs'[s].closed
           /\ objs'[temp[p]].closed
  <1> DEFINE o == [objs[temp[p]] EXCEPT !.closed = TRUE]
  <1>1. temp[p] \in Objects /\ objs \in Seq(Object)
    BY DEF TypeOK, MergeStatsForDocker
  <1>2. objs' = [objs EXCEPT ![temp[p]] = o]
    BY DEF MergeStatsForDocker
  <1>3. objs[temp[p]] \in Object
    BY <1>1 DEF Objects
  <1>4. o \in Object /\ o.path = objs[temp[p]].path
        /\ o.stamp = objs[temp[p]].stamp /\ o.closed
    BY <1>3, ClosedIsObject DEF Object
  <1> HIDE DEF o
  <1>5. /\ Len(objs') = Len(objs)
        /\ \A s \in Objects : objs'[s] = IF s = temp[p] THEN o ELSE objs[s]
    BY <1>1, <1>2, <1>4, ExceptSeq DEF Objects
  <1> QED
    BY <1>1, <1>4, <1>5 DEF Objects

LEMMA MergeCallInv ==
    ASSUME IInv, NEW p \in Paths, MergeStatsForDocker(p)
    PROVE  Consistent' /\ ListedIsFinished'
  <1> USE DEF IInv
  <1>1. /\ temp[p] # 0 /\ pc = "merge" /\ p \in toMerge
        /\ toMerge' = toMerge \ {p}
        /\ UNCHANGED <<pc, temp, known>>
        /\ stats' = [stats EXCEPT ![p] = NewList(p)]
    BY MergeEffect
  <1>2. /\ Objects' = Objects /\ temp[p] \in Objects
        /\ \A s \in Objects : /\ objs'[s].path = objs[s].path
                              /\ s # temp[p] => objs'[s] = objs[s]
                              /\ objs[s].closed => objs'[s].closed
        /\ objs'[temp[p]].closed
    BY MergeHeap
  <1>3. /\ NewList(p) \in Seq(Objects)
        /\ Len(NewList(p)) = Len(stats[p]) + 1 /\ Len(stats[p]) \in Nat
        /\ NewList(p)[Len(stats[p]) + 1] = temp[p]
        /\ \A i \in 1 .. Len(stats[p]) : NewList(p)[i] \in Listed(p)
    BY <1>1, NewListType DEF TypeOK
  <1>4. stats \in [Paths -> Seq(Objects)] /\ temp \in [Paths -> Objects \cup {0}]
    BY DEF TypeOK
  <1>5. \A q \in Paths : q # p => Listed(q)' = Listed(q)
    BY <1>1, <1>4 DEF Listed
  <1>6. Listed(p)' \subseteq Listed(p) \cup {temp[p]} /\ temp[p] \in Listed(p)'
    <2>1. stats'[p] = NewList(p)
      BY <1>1, <1>4
    <2>2. DOMAIN stats'[p] = 1 .. Len(stats[p]) + 1
      BY <1>3, <2>1
    <2> HIDE DEF NewList
    <2> QED
      BY <1>3, <2>1, <2>2 DEF Listed
  <1>7. objs[temp[p]].path = p
    BY <1>1 DEF Consistent
  <1>8. ListedIsFinished'
    <2>1. \A q \in Paths : Listed(q) \subseteq Objects
      BY <1>4 DEF Listed
    <2> QED
      BY <1>1, <1>2, <1>5, <1>6, <1>7, <2>1 DEF ListedIsFinished
  <1>9. ASSUME NEW q \in Paths, temp'[q] # 0
        PROVE  /\ q \in known' /\ objs'[temp'[q]].path = q
               /\ q \in toMerge' => ~objs'[temp'[q]].closed
               /\ q \notin toMerge' => temp'[q] \in Listed(q)'
    <2>1. /\ temp[q] \in Objects /\ objs[temp[q]].path = q /\ q \in known
          /\ q \in toMerge => ~objs[temp[q]].closed
          /\ q \notin toMerge => temp[q] \in Listed(q)
      BY <1>1, <1>4, <1>9 DEF Consistent
    <2>2. CASE q = p
      BY <1>1, <1>2, <1>6, <2>1, <2>2
    <2>3. CASE q # p
      <3>1. temp[q] # temp[p]
        BY <1>7, <2>1, <2>3
      <3> QED
        BY <1>1, <1>2, <1>5, <2>1, <2>3, <3>1
    <2> QED
      BY <2>2, <2>3
  <1>10. Consistent'
    BY <1>1, <1>9 DEF Consistent
  <1> QED
    BY <1>8, <1>10

LEMMA MergeValues ==
    ASSUME IInv, NEW p \in Paths, MergeStatsForDocker(p)
    PROVE  AccountedOnce' /\ AttachedToLater' /\ Numbered' /\ SpecForEveryValue'
  <1> USE DEF IInv
  <1> DEFINE L == NewList(p)
  <1>1. /\ custom' = custom \cup AttachedBy(p, L)
        /\ pending' = StillPending(p, L)
        /\ temp[p] # 0
        /\ UNCHANGED <<specs, lastId, accepted>>
    BY MergeEffect
  <1>2. /\ L \in Seq(Objects)
        /\ Len(L) = Len(stats[p]) + 1 /\ Len(stats[p]) \in Nat
        /\ L[Len(stats[p]) + 1] = temp[p]
        /\ \A i \in 1 .. Len(stats[p]) : L[i] \in Listed(p)
    BY <1>1, NewListType DEF TypeOK
  <1> HIDE DEF L
  <1>3. AccountedOnce'
    <2>1. \A e \in AttachedBy(p, L) :
             \E i \in DOMAIN L : /\ e[1] = L[i] /\ e[2] \in PendingOf(p)
                                 /\ FirstLater(e[2], L, i)
      BY DEF AttachedBy
    <2>2. ASSUME NEW v \in PendingOf(p), NEW i \in DOMAIN L, Before(v, L[i])
          PROVE  \E e \in AttachedBy(p, L) : e[2] = v
      <3>1. PICK j \in DOMAIN L : FirstLater(v, L, j)
        BY <1>2, <2>2, FirstLaterExists
      <3>2. <<L[j], v>> \in AttachedBy(p, L)
        <4>1. <<v, j>> \in {y \in PendingOf(p) \X DOMAIN L :
                             FirstLater(y[1], L, y[2])}
          BY <3>1
        <4>2. <<L[<<v, j>>[2]], <<v, j>>[1]>> = <<L[j], v>>
          OBVIOUS
        <4> QED
          BY <4>1, <4>2 DEF AttachedBy
      <3> QED
        BY <3>2
    <2>3. Attached' = Attached \cup {e[2] : e \in AttachedBy(p, L)}
      BY <1>1 DEF Attached
    <2>4. pending \ pending' \subseteq {e[2] : e \in AttachedBy(p, L)}
      BY <1>1, <2>2 DEF StillPending, PendingOf
    <2>5. \A e \in AttachedBy(p, L) : e[2] \in pending /\ e[2] \notin pending'
      BY <1>1, <2>1 DEF StillPending, PendingOf, FirstLater
    <2>6. pending' \subseteq pending
      BY <1>1 DEF StillPending
    <2>7. pending' \cup Attached' = accepted'
      BY <1>1, <2>3, <2>4, <2>5, <2>6 DEF AccountedOnce
    <2>8. pending' \cap Attached' = {}
      BY <2>3, <2>5, <2>6 DEF AccountedOnce
    <2>9. ASSUME NEW e \in custom', NEW f \in custom', e[2] = f[2]
          PROVE  e = f
      <3>1. CASE e \in custom /\ f \in custom
        BY <2>9, <3>1 DEF AccountedOnce
      <3>2. CASE e \in AttachedBy(p, L) /\ f \in AttachedBy(p, L)
        <4>1. /\ e = <<e[1], e[2]>> /\ f = <<f[1], f[2]>>
          BY <3>2 DEF AttachedBy
        <4>2. PICK i \in DOMAIN L : e[1] = L[i] /\ FirstLater(e[2], L, i)
          BY <2>1, <3>2
        <4>3. PICK j \in DOMAIN L : f[1] = L[j] /\ FirstLater(f[2], L, j)
          BY <2>1, <3>2
        <4>4. i = j
          BY <1>2, <2>9, <4>2, <4>3, FirstLaterUnique
        <4> QED
          BY <2>9, <4>1, <4>2, <4>3, <4>4
      <3>3. CASE e \in custom /\ f \in AttachedBy(p, L)
        BY <2>5, <2>9, <3>3 DEF AccountedOnce, Attached
      <3>4. CASE f \in custom /\ e \in AttachedBy(p, L)
        BY <2>5, <2>9, <3>4 DEF AccountedOnce, Attached
      <3> QED
        BY <1>1, <3>1, <3>2, <3>3, <3>4
    <2> QED
      BY <2>7, <2>8, <2>9 DEF AccountedOnce
  <1>4. AttachedToLater'
    <2>1. /\ temp[p] \in Objects
          /\ \A s \in Objects : /\ objs'[s].path = objs[s].path
                                /\ objs'[s].stamp = objs[s].stamp
                                /\ objs[s].closed => objs'[s].closed
          /\ objs'[temp[p]].closed
      BY MergeHeap
    <2>2. objs[temp[p]].path = p
      BY <1>1 DEF Consistent
    <2>3. \A i \in DOMAIN L : /\ L[i] \in Objects
                              /\ objs'[L[i]].path = p /\ objs'[L[i]].closed
      <3> SUFFICES ASSUME NEW i \in DOMAIN L
                   PROVE  /\ L[i] \in Objects
                          /\ objs'[L[i]].path = p /\ objs'[L[i]].closed
        OBVIOUS
      <3>1. L[i] \in Objects /\ (L[i] = temp[p] \/ L[i] \in Listed(p))
        BY <1>2
      <3> QED
        BY <2>1, <2>2, <3>1 DEF ListedIsFinished
    <2>4. \A e \in AttachedBy(p, L) :
             /\ objs'[e[1]].path = e[2].path /\ objs'[e[1]].closed
             /\ e[2].ts < objs'[e[1]].stamp
      BY <2>1, <2>3 DEF AttachedBy, PendingOf, FirstLater, Before
    <2>5. custom \subseteq Objects \X Value
      BY DEF TypeOK
    <2>6. \A e \in custom :
             /\ objs'[e[1]].path = e[2].path /\ objs'[e[1]].closed
             /\ e[2].ts < objs'[e[1]].stamp
      BY <2>1, <2>5 DEF AttachedToLater
    <2> QED
      BY <1>1, <2>4, <2>6 DEF AttachedToLater
  <1>5. Numbered' /\ SpecForEveryValue'
    BY <1>1 DEF Numbered, SpecForEveryValue
  <1> QED
    BY <1>3, <1>4, <1>5

(* A step that leaves objects, lists and values alone keeps what is said   *)
(* about them; only the bookkeeping of the call is left to be checked.     *)
LEMMA QuietStep ==
    ASSUME IInv, Consistent',
           UNCHANGED <<objs, stats, specs, pending, custom, lastId, accepted>>,
           pc' = "metrics" => temp' = temp /\ (pc = "metrics" \/ temp = NoTemp)
    PROVE  /\ ListedIsFinished' /\ Numbered'
           /\ AccountedOnce' /\ AttachedToLater' /\ SpecForEveryValue'
  <1> USE DEF IInv
  <1>1. ListedIsFinished'
    <2>1. \A p \in Paths : Listed(p)' = Listed(p) /\ Listed(p) \subseteq Objects
      BY DEF Listed, TypeOK
    <2>2. pc' = "metrics" =>
             \A p \in Paths : \A s \in Listed(p) : s # temp'[p]
      BY <2>1 DEF ListedIsFinished, NoTemp, Objects
    <2> QED
      BY <2>1, <2>2 DEF ListedIsFinished
  <1>2. Numbered' /\ AttachedToLater' /\ SpecForEveryValue'
    BY DEF Numbered, AttachedToLater, SpecForEveryValue
  <1>3. AccountedOnce'
    BY DEF AccountedOnce, Attached
  <1> QED
    BY <1>1, <1>2, <1>3

(* Every step of a batch keeps the inductive invariant, whatever the       *)
(* metrics.                                                                *)
THEOREM StepInv == IInv /\ [Next]_vars => IInv'
  <1> SUFFICES ASSUME IInv, [Next]_vars PROVE IInv'
    OBVIOUS
  <1>1. TypeOK'
    BY StepType DEF IInv
  <1>2. temp \in [Paths -> Objects \cup {0}]
    BY DEF IInv, TypeOK
  <1>3. CASE Lock
    <2>1. Consistent'
      BY <1>3 DEF Lock, IInv, Consistent, Listed, batchVars
    <2> QED
      BY <1>1, <1>3, <2>1, QuietStep
         DEF Lock, batchVars, customVars, IInv, Consistent
  <1>4. CASE EndCustomOnly
    <2>1. Consistent'
      BY <1>4 DEF EndCustomOnly, Unlock, IInv, Consistent, NoTemp
    <2> QED
      BY <1>1, <1>4, <2>1, QuietStep
         DEF EndCustomOnly, Unlock, customVars, IInv
  <1>5. CASE BeginMerge
    <2>1. Consistent'
      BY <1>5 DEF BeginMerge, IInv, Consistent, Listed
    <2> QED
      BY <1>1, <1>5, <2>1, QuietStep DEF BeginMerge, customVars, IInv
  <1>6. CASE EndMerge
    <2>1. Consistent'
      BY <1>6 DEF EndMerge, Unlock, IInv, Consistent, NoTemp
    <2> QED
      BY <1>1, <1>6, <2>1, QuietStep DEF EndMerge, Unlock, customVars, IInv
  <1>7. CASE Restart
    <2>1. Consistent' /\ ListedIsFinished'
      BY <1>7 DEF Restart, Consistent, ListedIsFinished, Listed, NoTemp
    <2>2. Numbered' /\ AccountedOnce' /\ AttachedToLater' /\ SpecForEveryValue'
      BY <1>7 DEF Restart, Numbered, AccountedOnce, Attached,
                  AttachedToLater, SpecForEveryValue
    <2> QED
      BY <1>1, <2>1, <2>2 DEF IInv
  <1>8. ASSUME NEW m \in Metrics, SkipForeign(m) PROVE IInv'
    <2>1. Consistent'
      BY <1>8 DEF SkipForeign, Take, IInv, Consistent, Listed
    <2> QED
      BY <1>1, <1>8, <2>1, QuietStep
         DEF SkipForeign, Take, customVars, IInv
  <1>9. ASSUME NEW m \in Metrics, Fetch(m), BatchHeap(m),
               pc' \in {"metrics", "crashed"}, UNCHANGED customVars
        PROVE  IInv'
    <2>1. Consistent' /\ ListedIsFinished' /\ AttachedToLater'
      BY <1>9, BatchStepInv DEF customVars
    <2>2. Numbered' /\ AccountedOnce' /\ SpecForEveryValue'
      BY <1>9 DEF IInv, customVars, Numbered, AccountedOnce, Attached,
                  SpecForEveryValue
    <2> QED
      BY <1>1, <2>1, <2>2 DEF IInv
  <1>10. ASSUME NEW m \in Metrics, Process(m) PROVE IInv'
    <2>1. CASE InsertIntoStats(m) \/ InsertIntoIface(m) \/ InsertIntoFs(m)
      <3>1. Fetch(m) /\ Handled(m) /\ \E t \in Targets : WriteField(m, t)
        BY <2>1 DEF InsertIntoStats, InsertIntoIface, InsertIntoFs, Targets
      <3>2. pc' \in {"metrics", "crashed"} /\ UNCHANGED customVars
        BY <3>1 DEF Fetch, Take, Handled, WriteField
      <3> QED
        BY <1>9, <3>1, <3>2 DEF BatchHeap
    <2>2. CASE InsertOther(m)
      BY <1>9, <2>2 DEF InsertOther, BatchHeap, Fetch, Take, Handled
    <2>3. CASE Panic(m)
      BY <1>9, <2>3 DEF Panic, BatchHeap
    <2>4. CASE InsertIntoCustomMetrics(m)
      <3>1. /\ Fetch(m) /\ BatchHeap(m) /\ custom' = custom
            /\ pc' \in {"metrics", "crashed"}
        BY <2>4 DEF InsertIntoCustomMetrics, BatchHeap, Fetch, Take, Handled
      <3>2. Consistent' /\ ListedIsFinished' /\ AttachedToLater'
        BY <3>1, BatchStepInv
      <3>3. Numbered' /\ AccountedOnce' /\ SpecForEveryValue'
        BY <2>4, QueueInv
      <3> QED
        BY <1>1, <3>2, <3>3 DEF IInv
    <2> QED
      BY <1>8, <1>10, <2>1, <2>2, <2>3, <2>4 DEF Process
  <1>11. ASSUME NEW p \in Paths, MergeNothing(p) PROVE IInv'
    <2>1. Consistent'
      BY <1>11 DEF MergeNothing, IInv, Consistent, Listed
    <2> QED
      BY <1>1, <1>11, <2>1, QuietStep DEF MergeNothing, customVars, IInv
  <1>12. ASSUME NEW p \in Paths, MergeStatsForDocker(p) PROVE IInv'
    BY <1>1, <1>12, MergeCallInv, MergeValues DEF IInv
  <1>13. CASE UNCHANGED vars
    <2>1. Consistent'
      BY <1>13 DEF vars, batchVars, IInv, Consistent, Listed
    <2> QED
      BY <1>1, <1>13, <2>1, QuietStep
         DEF vars, batchVars, customVars, IInv
  <1> QED
    BY <1>3, <1>4, <1>5, <1>6, <1>7, <1>10, <1>11, <1>12, <1>13
       DEF Next, Merge

(* The invariant from which the safety theorems of a batch follow.         *)
THEOREM InductiveInvariant == Spec => []IInv
  BY InitInv, StepInv, PTL DEF Spec

-----------------------------------------------------------------------------
(* Nothing is being filled between calls and nothing a regular batch built *)
(* is left out of the lists (mergeStatsForDocker).                         *)
THEOREM CallsConsistent == Spec => []Consistent
  BY InductiveInvariant, PTL DEF IInv

(* The REST server only reaches finished objects of the right container.   *)
THEOREM ListedObjectsFinished == Spec => []ListedIsFinished
  BY InductiveInvariant, PTL DEF IInv

(* Custom values are neither lost nor attached twice, whatever the batches.*)
THEOREM ValuesAccountedOnce == Spec => []AccountedOnce
  BY InductiveInvariant, PTL DEF IInv

(* Custom values only go to later stats of their own container.            *)
THEOREM ValuesAttachedToLater == Spec => []AttachedToLater
  BY InductiveInvariant, PTL DEF IInv

(* Every value has its spec in its container.                              *)
THEOREM ValuesHaveSpecs == Spec => []SpecForEveryValue
  BY InductiveInvariant, PTL DEF IInv

-----------------------------------------------------------------------------
(* Action properties.  A step either changes no object, writes the object  *)
(* that a batch is filling, closes it, or starts the process anew.         *)
LEMMA StepKinds ==
    ASSUME [Next]_vars
    PROVE  \/ UNCHANGED <<objs, stats>> /\ temp' \in {temp, NoTemp}
           \/ \E m \in Metrics : Fetch(m) /\ BatchHeap(m)
           \/ \E p \in Paths : MergeStatsForDocker(p)
           \/ Restart
  <1>1. CASE Lock \/ EndCustomOnly \/ BeginMerge \/ EndMerge
    BY <1>1 DEF Lock, EndCustomOnly, BeginMerge, EndMerge, Unlock, batchVars
  <1>2. CASE UNCHANGED vars
    BY <1>2 DEF vars, batchVars
  <1>3. ASSUME NEW m \in Metrics, Process(m)
        PROVE  \/ UNCHANGED <<objs, stats>> /\ temp' \in {temp, NoTemp}
               \/ Fetch(m) /\ BatchHeap(m)
    <2>1. CASE SkipForeign(m)
      BY <2>1 DEF SkipForeign, Take
    <2>2. CASE InsertIntoStats(m) \/ InsertIntoIface(m) \/ InsertIntoFs(m)
      BY <2>2 DEF InsertIntoStats, InsertIntoIface, InsertIntoFs, BatchHeap,
                  Targets
    <2>3. CASE InsertIntoCustomMetrics(m) \/ InsertOther(m) \/ Panic(m)
      BY <2>3 DEF InsertIntoCustomMetrics, InsertOther, Panic, BatchHeap
    <2> QED
      BY <1>3, <2>1, <2>2, <2>3 DEF Process
  <1>4. ASSUME NEW p \in Paths, Merge(p)
        PROVE  \/ UNCHANGED <<objs, stats, temp>>
               \/ MergeStatsForDocker(p)
    BY <1>4 DEF Merge, MergeNothing
  <1> QED
    BY <1>1, <1>2, <1>3, <1>4 DEF Next

(* A listed object is no longer being filled by anyone.                    *)
LEMMA ListedNotFilled ==
    ASSUME IInv, NEW p \in Paths, NEW s \in Listed(p), NEW q \in Paths,
           pc # "merge" \/ q \in toMerge
    PROVE  s \in Objects /\ s # temp[q]
  <1>1. s \in Objects
    BY DEF IInv, TypeOK, Listed
  <1>2. objs[s].closed
    BY DEF IInv, ListedIsFinished
  <1>3. s = temp[q] => temp[q] # 0
    BY <1>1 DEF Objects
  <1>4. temp[q] # 0 => ~objs[temp[q]].closed
    BY DEF IInv, Consistent
  <1> QED
    BY <1>1, <1>2, <1>3, <1>4

LEMMA FrozenStep ==
    ASSUME IInv, [Next]_vars, pc # "crashed"
    PROVE  \A p \in Paths : \A s \in Listed(p) : objs'[s] = objs[s]
  <1> SUFFICES ASSUME NEW p \in Paths, NEW s \in Listed(p)
               PROVE  objs'[s] = objs[s]
    OBVIOUS
  <1>1. ASSUME NEW m \in Metrics, Fetch(m), BatchHeap(m)
        PROVE  objs'[s] = objs[s]
    <2>1. pc = "metrics" /\ m.path \in Paths
      BY <1>1, MetricsAssumption DEF Fetch, Take
    <2>2. s \in Objects /\ s # temp[m.path]
      BY <2>1, ListedNotFilled
    <2> QED
      BY <1>1, <2>2, BatchHeapKept DEF IInv
  <1>2. ASSUME NEW q \in Paths, MergeStatsForDocker(q)
        PROVE  objs'[s] = objs[s]
    <2>1. s \in Objects /\ s # temp[q]
      BY <1>2, ListedNotFilled DEF MergeStatsForDocker
    <2> QED
      BY <1>2, <2>1, MergeHeap DEF IInv
  <1>3. ~Restart
    BY DEF Restart
  <1> QED
    BY <1>1, <1>2, <1>3, StepKinds

(* No batch ever writes to an object the REST server can reach, but for    *)
(* the custom metrics attached to it.                                      *)
THEOREM ListedObjectsFrozen == Spec => PublishedFrozen
  BY InductiveInvariant, FrozenStep, PTL DEF Spec, PublishedFrozen

(* What a merge lists was listed before, or is the object it merges.       *)
LEMMA MergeLists ==
    ASSUME TypeOK, NEW p \in Paths, MergeStatsForDocker(p), NEW q \in Paths
    PROVE  Listed(q)' \subseteq Listed(q) \cup {temp[q]}
  <1>1. stats' = [stats EXCEPT ![p] = NewList(p)] /\ temp[p] # 0
    BY MergeEffect
  <1>2. stats \in [Paths -> Seq(Objects)]
    BY DEF TypeOK
  <1>3. CASE q # p
    BY <1>1, <1>2, <1>3 DEF Listed
  <1>4. CASE q = p
    <2>1. /\ Len(NewList(p)) = Len(stats[p]) + 1 /\ Len(stats[p]) \in Nat
          /\ NewList(p) \in Seq(Objects)
          /\ NewList(p)[Len(stats[p]) + 1] = temp[p]
          /\ \A i \in 1 .. Len(stats[p]) : NewList(p)[i] \in Listed(p)
      BY <1>1, <1>2, NewListType
    <2>2. stats'[p] = NewList(p)
      BY <1>1, <1>2
    <2> HIDE DEF NewList
    <2>3. \A i \in DOMAIN stats'[p] : stats'[p][i] \in Listed(p) \cup {temp[p]}
      BY <2>1, <2>2
    <2> QED
      BY <1>4, <2>3 DEF Listed
  <1> QED
    BY <1>3, <1>4

LEMMA GarbageStep ==
    ASSUME IInv, [Next]_vars, pc # "crashed"
    PROVE  Garbage \subseteq Garbage'
  <1> USE DEF IInv
  <1> SUFFICES ASSUME NEW s \in Objects,
                      \A p \in Paths : s \notin Listed(p) /\ s # temp[p]
               PROVE  /\ s \in Objects'
                      /\ \A p \in Paths : s \notin Listed(p)' /\ s # temp'[p]
    BY DEF Garbage
  <1>1. CASE UNCHANGED <<objs, stats>> /\ temp' \in {temp, NoTemp}
    <2>1. Objects' = Objects /\ \A p \in Paths : Listed(p)' = Listed(p)
      BY <1>1 DEF Objects, Listed
    <2>2. \A p \in Paths : s # temp'[p]
      BY <1>1 DEF NoTemp, Objects
    <2> QED
      BY <2>1, <2>2
  <1>2. ASSUME NEW m \in Metrics, Fetch(m), BatchHeap(m)
        PROVE  /\ s \in Objects'
               /\ \A p \in Paths : s \notin Listed(p)' /\ s # temp'[p]
    <2>1. /\ temp' = [temp EXCEPT ![m.path] = StatsFor(m.path)]
          /\ stats' = stats /\ temp \in [Paths -> Objects \cup {0}]
      BY <1>2 DEF Fetch, Take, TypeOK
    <2>2. s # StatsFor(m.path)
      BY MetricsAssumption DEF StatsFor, Objects, TypeOK
    <2>3. s \in Objects'
      BY <1>2, BatchHeapKept
    <2> QED
      BY <2>1, <2>2, <2>3 DEF Listed
  <1>3. ASSUME NEW p \in Paths, MergeStatsForDocker(p)
        PROVE  /\ s \in Objects'
               /\ \A q \in Paths : s \notin Listed(q)' /\ s # temp'[q]
    <2>1. Objects' = Objects /\ temp' = temp
      BY <1>3, MergeHeap, MergeEffect
    <2>2. \A q \in Paths : Listed(q)' \subseteq Listed(q) \cup {temp[q]}
      BY <1>3, MergeLists
    <2> QED
      BY <2>1, <2>2
  <1>4. ~Restart
    BY DEF Restart
  <1> QED
    BY <1>1, <1>2, <1>3, <1>4, StepKinds

(* An object that left the lists, or never got into one, stays out.        *)
THEOREM GarbageNeverListed == Spec => GarbageStaysGarbage
  BY InductiveInvariant, GarbageStep, PTL DEF Spec, GarbageStaysGarbage

LEMMA CatchUpStep ==
    ASSUME IInv, NEW p \in Paths, MergeStatsForDocker(p),
           NEW v \in pending', NEW i \in DOMAIN stats'[p], v.path = p
    PROVE  objs[stats'[p][i]].stamp <= v.ts
  <1>1. /\ stats' = [stats EXCEPT ![p] = NewList(p)]
        /\ pending' = StillPending(p, NewList(p)) /\ temp[p] # 0
    BY MergeEffect DEF IInv
  <1>2. stats'[p] = NewList(p)
    BY <1>1 DEF IInv, TypeOK
  <1>3. NewList(p)[i] \in Objects
    BY <1>1, <1>2, NewListType DEF IInv
  <1>4. v \in pending /\ ~Before(v, NewList(p)[i])
    BY <1>1, <1>2 DEF StillPending
  <1>5. v.ts \in Int /\ objs[NewList(p)[i]].stamp \in Int
    <2>1. v.ts \in Int
      BY <1>4 DEF IInv, TypeOK, Value
    <2>2. \A s \in Objects : objs[s] \in Object
      BY DEF IInv, TypeOK, Objects
    <2> QED
      BY <1>3, <2>1, <2>2 DEF Object
  <1> QED
    BY <1>2, <1>4, <1>5 DEF Before

(* A merge delivers every value of the container that it could deliver.    *)
THEOREM MergesCatchUp == Spec => MergeCatchesUp
  <1>1. IInv /\ [Next]_vars =>
           [\A p \in Paths : MergeStatsForDocker(p) =>
              \A v \in pending', i \in DOMAIN stats'[p] :
                 v.path = p => objs[stats'[p][i]].stamp <= v.ts]_vars
    BY CatchUpStep
  <1> QED
    BY <1>1, InductiveInvariant, PTL DEF Spec, MergeCatchesUp

-----------------------------------------------------------------------------
(* makeRoomForStats.                                                       *)

(* The entries it wants gone are a prefix, so what is lost is in it: every *)
(* one of them is out of the span or the first of a list at depth.         *)
LEMMA DroppedPrefix ==
    ASSUME NEW S, NEW list \in Seq(S), NEW nu, NEW i \in DOMAIN list,
           \A j \in DOMAIN list : MakeRoomForStats(list, nu)[j] # list[i]
    PROVE  (i = 1 /\ AtDepth(list)) \/ Expired(list[i], nu)
  <1> DEFINE Gone(j) == (j = 1 /\ AtDepth(list)) \/ Expired(list[j], nu)
             D == {k \in DOMAIN list : \A j \in 1 .. k : Gone(j)}
             k == ValidOfs(list, nu)
  <1>1. i \in 1 .. Len(list) /\ Len(list) \in Nat
    OBVIOUS
  <1>2. k = Cardinality(D)
    BY DEF ValidOfs
  <1>3. IsFiniteSet(D)
    <2>1. 1 \in Int /\ Len(list) \in Int
      BY <1>1
    <2>2. IsFiniteSet(1 .. Len(list))
      BY <2>1, FS_Interval
    <2>3. D \in SUBSET (1 .. Len(list))
      OBVIOUS
    <2> QED
      BY <2>2, <2>3, FS_Subset
  <1>4. k \in Nat
    BY <1>2, <1>3, FS_CardinalityType
  <1>5. i <= k
    <2> SUFFICES ASSUME i > k PROVE FALSE
      BY <1>1, <1>4
    <2>1. i - k \in DOMAIN list /\ (i - k) + k = i
      BY <1>1, <1>4
    <2>2. MakeRoomForStats(list, nu)[i - k] = list[i]
      <3> HIDE DEF k
      <3>1. MakeRoomForStats(list, nu) =
               [j \in DOMAIN list |-> IF j + k \in DOMAIN list THEN list[j + k]
                                                               ELSE list[j]]
        BY DEF MakeRoomForStats, k
      <3> QED
        BY <2>1, <3>1
    <2> QED
      BY <2>1, <2>2
  <1>6. i \in D
    <2> SUFFICES ASSUME i \notin D PROVE FALSE
      OBVIOUS
    <2>1. D \subseteq 1 .. (i - 1)
      <3> SUFFICES ASSUME NEW d \in D, ~(d \in 1 .. (i - 1)) PROVE FALSE
        OBVIOUS
      <3>1. d \in 1 .. Len(list) /\ d >= i
        BY <1>1
      <3>2. \A j \in 1 .. i : j \in 1 .. d
        BY <1>1, <3>1
      <3> QED
        BY <3>2
    <2>2. IsFiniteSet(1 .. (i - 1)) /\ Cardinality(1 .. (i - 1)) = i - 1
      <3>1. 1 \in Int /\ i - 1 \in Int /\ i >= 1
        BY <1>1
      <3>2. /\ IsFiniteSet(1 .. (i - 1))
            /\ Cardinality(1 .. (i - 1)) =
                  IF 1 > i - 1 THEN 0 ELSE (i - 1) - 1 + 1
        BY ONLY <3>1, FS_Interval
      <3> QED
        BY <3>1, <3>2
    <2>3. Cardinality(D) <= i - 1
      <3> HIDE DEF D
      <3> QED
        BY <2>1, <2>2, FS_Subset
    <2> HIDE DEF k, D
    <2> QED
      BY <1>1, <1>2, <1>4, <1>5, <2>3
  <1> QED
    BY <1>1, <1>6

(* What one step may lose of a container's list.                           *)
MayGo(p, s) ==
    \/ AtDepth(stats[p]) /\ s = stats[p][1]
    \/ StatsSpan > 0 /\ objs[temp[p]].stamp - objs[s].stamp > StatsSpan

LEMMA EvictionStep ==
    ASSUME IInv, [Next]_vars, pc # "crashed"
    PROVE  \A p \in Paths : \A s \in Listed(p) \ Listed(p)' : MayGo(p, s)
  <1> SUFFICES ASSUME NEW p \in Paths, NEW s \in Listed(p), s \notin Listed(p)'
               PROVE  MayGo(p, s)
    OBVIOUS
  <1>1. stats'[p] # stats[p]
    BY DEF Listed
  <1>2. ~Restart
    BY DEF Restart
  <1>3. ~\E m \in Metrics : Fetch(m) /\ BatchHeap(m)
    BY <1>1 DEF Fetch, Take
  <1>4. PICK q \in Paths : MergeStatsForDocker(q)
    BY <1>1, <1>2, <1>3, StepKinds
  <1>5. stats' = [stats EXCEPT ![q] = NewList(q)] /\ temp[q] # 0
    BY <1>4, MergeEffect DEF IInv
  <1>6. stats \in [Paths -> Seq(Objects)]
    BY DEF IInv, TypeOK
  <1>7. q = p /\ stats'[p] = NewList(p)
    BY <1>1, <1>5, <1>6
  <1> DEFINE nu == objs[temp[p]].stamp
             moved == MakeRoomForStats(stats[p], nu)
  <1>8. PICK i \in DOMAIN stats[p] : stats[p][i] = s
    BY DEF Listed
  <1>9. ASSUME NEW j \in DOMAIN stats[p] PROVE moved[j] # stats[p][i]
    <2>1. moved \in Seq(Objects) /\ Len(moved) = Len(stats[p])
      BY <1>6, MakeRoomType
    <2>2. NewList(p) = Append(moved, temp[p])
      BY DEF NewList
    <2>3. stats[p] \in Seq(Objects) /\ j \in 1 .. Len(stats[p])
      BY <1>6
    <2> HIDE DEF moved
    <2>4. j \in DOMAIN NewList(p) /\ NewList(p)[j] = moved[j]
      BY <2>1, <2>2, <2>3
    <2> QED
      BY <1>7, <1>8, <2>4 DEF Listed
  <1>10. (i = 1 /\ AtDepth(stats[p])) \/ Expired(stats[p][i], nu)
    <2> HIDE DEF nu
    <2> QED
      BY <1>6, <1>9, DroppedPrefix
  <1> QED
    BY <1>8, <1>10 DEF MayGo, Expired

(* A merge loses no object that is within the span, but for the first of a *)
(* list that has reached the depth.                                        *)
THEOREM NothingEvictedEarly == Spec => NoPrematureEviction
  <1>1. IInv /\ [Next]_vars =>
           [pc # "crashed" =>
              \A p \in Paths : \A s \in Listed(p) \ Listed(p)' :
                 \/ AtDepth(stats[p]) /\ s = stats[p][1]
                 \/ /\ StatsSpan > 0
                    /\ objs[temp[p]].stamp - objs[s].stamp > StatsSpan]_vars
    BY EvictionStep DEF MayGo
  <1> QED
    BY <1>1, InductiveInvariant, PTL DEF Spec, NoPrematureEviction

-----------------------------------------------------------------------------
(* The publisher implements CustomDelivery, for every configuration and    *)
(* every set of metrics: what a batch queues is new, what a merge attaches *)
(* was waiting, and no other step is seen.                                 *)

(* Every object carries the stamp of some metric.                          *)
Stamped == \A s \in Objects : objs[s].stamp \in StatsStamps

DInv == IInv /\ Stamped

LEMMA FetchedStamped ==
    ASSUME TypeOK, Stamped, NEW m \in Metrics, Fetch(m), BatchHeap(m)
    PROVE  Stamped'
  <1> DEFINE h == FetchStats(m)
             n == StatsFor(m.path)
  <1>1. /\ h \in Seq(Object) /\ n \in 1 .. Len(h)
        /\ \A s \in Objects : h[s] = objs[s]
    BY FetchStatsType
  <1>2. \A s \in 1 .. Len(h) : h[s].stamp \in StatsStamps
    <2>1. CASE temp[m.path] # 0
      BY <2>1 DEF FetchStats, Stamped, Objects
    <2>2. CASE temp[m.path] = 0
      <3>1. /\ Len(h) = Len(objs) + 1 /\ Len(objs) \in Nat
            /\ h[Len(objs) + 1].stamp = Trunc(m.ts + TstampDelta)
        BY <2>2 DEF FetchStats, TypeOK
      <3>2. Trunc(m.ts + TstampDelta) \in StatsStamps
        BY DEF StatsStamps
      <3> HIDE DEF h
      <3> QED
        BY <1>1, <3>1, <3>2 DEF Stamped, Objects
    <2> QED
      BY <2>1, <2>2
  <1>3. \A s \in 1 .. Len(objs') : s \in 1 .. Len(h) /\ objs'[s].stamp = h[s].stamp
    <2>1. CASE objs' = h
      BY <2>1
    <2>2. ASSUME NEW t \in Targets, WriteField(m, t)
          PROVE  \A s \in 1 .. Len(objs') :
                    s \in 1 .. Len(h) /\ objs'[s].stamp = h[s].stamp
      <3> DEFINE o == [h[n] EXCEPT !.fields = @ \cup {t}]
      <3>1. objs' = [h EXCEPT ![n] = o]
        BY <2>2 DEF WriteField
      <3>2. o.stamp = h[n].stamp
        BY <1>1 DEF Object
      <3>3. Len(objs') = Len(h)
        BY <2>2, WriteFieldType
      <3> HIDE DEF h, n, o
      <3> QED
        BY <1>1, <3>1, <3>2, <3>3
    <2> QED
      BY <2>1, <2>2 DEF BatchHeap
  <1> HIDE DEF h
  <1> QED
    BY <1>2, <1>3 DEF Stamped, Objects

LEMMA DStep == DInv /\ [Next]_vars => DInv'
  <1> SUFFICES ASSUME DInv, [Next]_vars PROVE Stamped'
    BY StepInv DEF DInv
  <1> USE DEF DInv
  <1>1. CASE UNCHANGED <<objs, stats>>
    BY <1>1 DEF Stamped, Objects, StatsStamps
  <1>2. ASSUME NEW m \in Metrics, Fetch(m), BatchHeap(m) PROVE Stamped'
    BY <1>2, FetchedStamped DEF IInv
  <1>3. ASSUME NEW p \in Paths, MergeStatsForDocker(p) PROVE Stamped'
    BY <1>3, MergeHeap DEF IInv, Stamped
  <1>4. CASE Restart
    BY <1>4 DEF Restart, Stamped, Objects
  <1> QED
    BY <1>1, <1>2, <1>3, <1>4, StepKinds

LEMMA DInvariant == Spec => []DInv
  <1>1. Init => DInv
    <2>1. Init => Stamped
      BY DEF Init, Stamped, Objects
    <2> QED
      BY <2>1, InitInv DEF DInv
  <1> QED
    BY <1>1, DStep, PTL DEF Spec

-----------------------------------------------------------------------------
(* A step that attaches nothing delivers nothing.                          *)
LEMMA DeliveredKept ==
    ASSUME TypeOK, custom' = custom,
           \A s \in Objects : objs'[s].stamp = objs[s].stamp
    PROVE  Delivered' = Delivered
  <1>1. \A e \in custom : objs'[e[1]].stamp = objs[e[1]].stamp
    BY DEF TypeOK
  <1> QED
    BY <1>1 DEF Delivered

(* The values a merge takes from the queue are those it attaches, each to  *)
(* the first object of the list that is later than it.                     *)
LEMMA MergeDelivers ==
    ASSUME DInv, NEW p \in Paths, MergeStatsForDocker(p)
    PROVE  Delivery!Deliver
  <1> DEFINE list == NewList(p)
             S == pending \ pending'
             at(v) == CHOOSE i \in DOMAIN list : FirstLater(v, list, i)
             f == [v \in S |-> objs[list[at(v)]].stamp]
  <1>0. IInv /\ TypeOK /\ Stamped
    BY DEF DInv, IInv
  <1>1. /\ custom' = custom \cup AttachedBy(p, list)
        /\ pending' = StillPending(p, list)
    BY <1>0, MergeEffect
  <1>2. list \in Seq(Objects)
    BY <1>0, NewListType DEF TypeOK, MergeStatsForDocker
  <1>3. \A v \in S : /\ v \in PendingOf(p)
                     /\ at(v) \in DOMAIN list /\ FirstLater(v, list, at(v))
    <2> TAKE v \in S
    <2>1. v \in PendingOf(p)
      BY <1>1 DEF StillPending, PendingOf
    <2>2. \E i \in DOMAIN list : Before(v, list[i])
      BY <1>1 DEF StillPending
    <2>3. \E i \in DOMAIN list : FirstLater(v, list, i)
      BY <1>2, <2>2, FirstLaterExists
    <2> HIDE DEF list
    <2> QED
      BY <2>1, <2>3
  <1>4. \A v \in S : list[at(v)] \in Objects
    BY <1>2, <1>3
  <1>5. AttachedBy(p, list) = {<<list[at(v)], v>> : v \in S}
    <2>1. ASSUME NEW v \in PendingOf(p), NEW i \in DOMAIN list,
                 FirstLater(v, list, i)
          PROVE  v \in S /\ i = at(v)
      <3>1. v \in S
        BY <1>1, <2>1 DEF StillPending, PendingOf, FirstLater
      <3>2. at(v) \in DOMAIN list /\ FirstLater(v, list, at(v))
        BY <1>3, <3>1
      <3> HIDE DEF list, at
      <3> QED
        BY <1>2, <2>1, <3>1, <3>2, FirstLaterUnique
    <2>2. \A v \in S : /\ v \in PendingOf(p) /\ at(v) \in DOMAIN list
                       /\ FirstLater(v, list, at(v))
      BY <1>3
    <2> HIDE DEF list, at, S
    <2>3. ASSUME NEW e \in AttachedBy(p, list)
          PROVE  e \in {<<list[at(v)], v>> : v \in S}
      <3>1. PICK y \in PendingOf(p) \X DOMAIN list :
               FirstLater(y[1], list, y[2]) /\ e = <<list[y[2]], y[1]>>
        BY DEF AttachedBy
      <3>2. y[1] \in S /\ y[2] = at(y[1])
        BY <2>1, <3>1
      <3> QED
        BY <3>1, <3>2
    <2>4. ASSUME NEW v \in S
          PROVE  <<list[at(v)], v>> \in AttachedBy(p, list)
      <3>1. <<v, at(v)>> \in {y \in PendingOf(p) \X DOMAIN list :
                                FirstLater(y[1], list, y[2])}
        BY <2>2
      <3> QED
        BY <3>1 DEF AttachedBy
    <2> QED
      BY <2>3, <2>4
  <1>6. f \in [S -> StatsStamps] /\ \A v \in S : v.ts < f[v]
    <2>1. \A v \in S : objs[list[at(v)]].stamp \in StatsStamps
      BY <1>0, <1>4 DEF Stamped
    <2>2. \A v \in S : v.ts < objs[list[at(v)]].stamp
      BY <1>3 DEF FirstLater, Before
    <2> HIDE DEF list, at, S
    <2> QED
      BY <2>1, <2>2
  <1>7. pending' = pending \ S
    BY <1>1 DEF StillPending
  <1>8. Delivered' = Delivered \cup {<<v, f[v]>> : v \in S}
    <2>1. \A s \in Objects : objs'[s].stamp = objs[s].stamp
      BY <1>0, MergeHeap
    <2>2. \A e \in custom : e[1] \in Objects
      BY <1>0 DEF TypeOK
    <2>3. Delivered' = {<<e[2], objs'[e[1]].stamp>> : e \in custom'}
      BY DEF Delivered
    <2>4. \A v \in S : f[v] = objs'[list[at(v)]].stamp
      BY <1>4, <2>1
    <2>5. custom' = custom \cup {<<list[at(v)], v>> : v \in S}
      BY <1>1, <1>5
    <2> HIDE DEF list, at, S, f
    <2>6. {<<e[2], objs'[e[1]].stamp>> : e \in custom} = Delivered
      BY <2>1, <2>2 DEF Delivered
    <2>7. {<<e[2], objs'[e[1]].stamp>> : e \in {<<list[at(v)], v>> : v \in S}}
             = {<<v, f[v]>> : v \in S}
      <3> DEFINE A == {<<list[at(v)], v>> : v \in S}
      <3>1. ASSUME NEW e \in A
            PROVE  <<e[2], objs'[e[1]].stamp>> \in {<<v, f[v]>> : v \in S}
        BY <2>4
      <3>2. ASSUME NEW v \in S
            PROVE  <<v, f[v]>> \in {<<e[2], objs'[e[1]].stamp>> : e \in A}
        <4>1. <<list[at(v)], v>> \in A
          OBVIOUS
        <4> HIDE DEF A
        <4> QED
          BY <2>4, <4>1
      <3> HIDE DEF A
      <3>3. {<<e[2], objs'[e[1]].stamp>> : e \in A} = {<<v, f[v]>> : v \in S}
        BY <3>1, <3>2
      <3> QED
        BY <3>3 DEF A
    <2> QED
      BY <2>3, <2>5, <2>6, <2>7
  <1> HIDE DEF S, f
  <1>9. S \in SUBSET pending
    BY DEF S
  <1> QED
    BY <1>6, <1>7, <1>8, <1>9 DEF Delivery!Deliver

(* The values a custom metric queues have never been seen.                 *)
LEMMA InsertQueues ==
    ASSUME DInv, TypeOK', NEW m \in Metrics, InsertIntoCustomMetrics(m)
    PROVE  Delivery!Queue
  <1>1. IInv /\ TypeOK
    BY DEF DInv, IInv
  <1>2. Fetch(m) /\ BatchHeap(m) /\ custom' = custom
    BY DEF InsertIntoCustomMetrics, BatchHeap
  <1>3. Delivered' = Delivered
    BY <1>1, <1>2, BatchHeapKept, DeliveredKept
  <1>4. pending' = pending \cup QueuedBy(m)
    BY DEF InsertIntoCustomMetrics
  <1>5. pending' \subseteq Value
    BY DEF TypeOK
  <1>6. Delivery!Seen = accepted
    <2>1. {d[1] : d \in Delivered} = Attached
      <3>1. \A e \in custom : <<e[2], objs[e[1]].stamp>> \in Delivered
        BY DEF Delivered
      <3>2. \A d \in Delivered : d[1] \in Attached
        BY DEF Delivered, Attached
      <3>3. \A e \in custom : e[2] \in {d[1] : d \in Delivered}
        <4> TAKE e \in custom
        <4>1. <<e[2], objs[e[1]].stamp>>[1] = e[2]
          OBVIOUS
        <4> QED
          BY <3>1, <4>1
      <3> QED
        BY <3>2, <3>3 DEF Attached
    <2> QED
      BY <1>1, <2>1 DEF Delivery!Seen, IInv, AccountedOnce
  <1>7. QueuedBy(m) \cap accepted = {}
    <2>1. \A v \in accepted : v.id <= lastId
      BY <1>1 DEF IInv, Numbered
    <2>2. \A v \in QueuedBy(m) : v.id > lastId
      <3>1. m.specs \in Seq(Names) /\ lastId \in Nat
        BY <1>1, MetricsAssumption DEF TypeOK
      <3>2. \A k \in DOMAIN m.specs : k \in Nat /\ k >= 1
        BY <3>1
      <3> QED
        BY <3>1, <3>2 DEF QueuedBy
    <2>3. \A v \in accepted : v.id \in Nat
      BY <1>1 DEF TypeOK, Value
    <2> QED
      BY <1>1, <2>1, <2>2, <2>3 DEF TypeOK
  <1> QED
    BY <1>3, <1>4, <1>5, <1>6, <1>7 DEF Delivery!Queue

LEMMA StepDelivers ==
    ASSUME DInv, [Next]_vars
    PROVE  [Delivery!Next]_(Delivery!vars)
  <1>0. IInv /\ TypeOK /\ TypeOK'
    BY StepType DEF DInv, IInv
  <1>1. ASSUME UNCHANGED <<objs, customVars>>
        PROVE  UNCHANGED Delivery!vars
    BY <1>1, <1>0, DeliveredKept DEF Delivery!vars, customVars
  <1>2. ASSUME NEW m \in Metrics, Fetch(m), BatchHeap(m), UNCHANGED customVars
        PROVE  UNCHANGED Delivery!vars
    <2>1. custom' = custom /\ pending' = pending
      BY <1>2 DEF customVars
    <2> QED
      BY <1>0, <1>2, <2>1, BatchHeapKept, DeliveredKept DEF Delivery!vars
  <1>3. CASE Lock \/ EndCustomOnly \/ BeginMerge \/ EndMerge
    BY <1>1, <1>3 DEF Lock, EndCustomOnly, BeginMerge, EndMerge, Unlock
  <1>4. CASE Restart
    BY <1>4 DEF Restart, Delivered, Delivery!Forget, Delivery!Next
  <1>5. ASSUME NEW m \in Metrics, Process(m)
        PROVE  [Delivery!Next]_(Delivery!vars)
    <2>1. CASE SkipForeign(m)
      BY <1>1, <2>1 DEF SkipForeign, Take
    <2>2. CASE InsertIntoStats(m) \/ InsertIntoIface(m) \/ InsertIntoFs(m)
      <3>1. Fetch(m) /\ (\E t \in Targets : WriteField(m, t))
        BY <2>2 DEF InsertIntoStats, InsertIntoIface, InsertIntoFs, Targets
      <3> QED
        BY <1>2, <3>1 DEF BatchHeap, WriteField
    <2>3. CASE InsertOther(m) \/ Panic(m)
      BY <1>2, <2>3 DEF InsertOther, Panic, BatchHeap, customVars
    <2>4. CASE InsertIntoCustomMetrics(m)
      BY <1>0, <2>4, InsertQueues DEF Delivery!Next
    <2> QED
      BY <1>5, <2>1, <2>2, <2>3, <2>4 DEF Process
  <1>6. ASSUME NEW p \in Paths, Merge(p)
        PROVE  [Delivery!Next]_(Delivery!vars)
    <2>1. CASE MergeNothing(p)
      BY <1>1, <2>1 DEF MergeNothing
    <2>2. CASE MergeStatsForDocker(p)
      BY <2>2, MergeDelivers DEF Delivery!Next
    <2> QED
      BY <1>6, <2>1, <2>2 DEF Merge
  <1>7. CASE UNCHANGED vars
    BY <1>1, <1>7 DEF vars
  <1> QED
    BY <1>3, <1>4, <1>5, <1>6, <1>7 DEF Next

(* Custom values wait, are delivered once and into later stats, and are    *)
(* not lost before that (insertIntoCustomMetrics, mergePendingMetrics,     *)
(* dropTooOldPendingMetrics).                                              *)
THEOREM PublisherDelivers == Spec => ImplementsDelivery
  <1>1. Init => Delivery!Init
    BY DEF Init, Delivery!Init, Delivered
  <1>2. DInv /\ [Next]_vars => [Delivery!Next]_(Delivery!vars)
    BY StepDelivers
  <1> QED
    BY <1>1, <1>2, DInvariant, PTL DEF Spec, ImplementsDelivery, Delivery!Spec
=============================================================================

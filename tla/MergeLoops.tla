----------------------------- MODULE MergeLoops -----------------------------
(***************************************************************************)
(* mergeStatsForDocker for one container, loop by loop: makeRoomForStats,  *)
(* mergePendingMetrics and dropTooOldPendingMetrics work in place on the   *)
(* list of stats and on one queue of values per name.  Publisher states    *)
(* the outcome in one step; here the loops are shown to reach it.          *)
(* src/publisher/process.go.                                               *)
(***************************************************************************)
EXTENDS Integers, Sequences, FiniteSets, SequencesExt

CONSTANTS
    Path,        \* the container
    Names,       \* custom metric names
    Times,       \* timestamps of values
    Stamps,      \* timestamps of stats
    StatsDepth, StatsSpan,
    MaxObjects,  \* bound: stats objects allocated
    MaxValues    \* bound: values queued

ASSUME LoopsAssumption ==
    /\ Times \subseteq Int /\ Stamps \subseteq Int
    /\ StatsDepth \in Int /\ StatsSpan \in Int
    /\ "" \notin Names

VARIABLES
    pc,        \* "idle", or the loop that runs: "room", "match", "drop"
    stamp,     \* stats objects by number: their timestamps
    list,      \* statsList
    queue,     \* PendingMetrics[path]: a queue for each name that had values
    taken,     \* the custom_metrics of each object, by name
    start,     \* history: list, queue and taken before the merge
    validOfs,  \* makeRoomForStats
    i,         \* position in statsList
    names,     \* keys of the map the range has still to visit
    name,      \* the key whose valueList is ranged over, or ""
    values,    \* that valueList: its array, which deletions shift in place
    size,      \* its length now
    k,         \* position in the array the range is at
    lastId     \* history: numbers the values

loopVars == <<validOfs, i, names, name, values, size, k>>
vars == <<pc, stamp, list, queue, taken, start, loopVars, lastId>>

-----------------------------------------------------------------------------
Init ==
    /\ pc = "idle" /\ stamp = <<>> /\ list = <<>> /\ lastId = 0
    /\ queue = [n \in {} |-> <<>>] /\ taken = <<>>
    /\ start = [list |-> list, queue |-> queue, taken |-> taken]
    /\ validOfs = 0 /\ i = 1 /\ names = {} /\ name = "" /\ values = <<>>
    /\ size = 0 /\ k = 1

QueueOf(n) == IF n \in DOMAIN queue THEN queue[n] ELSE <<>>

(* insertIntoCustomMetrics, in batches before the next merge.              *)
Enqueue(n, t) ==
    /\ pc = "idle" /\ lastId < MaxValues
    /\ lastId' = lastId + 1
    /\ LET nu == [id |-> lastId + 1, path |-> Path, name |-> n, ts |-> t]
       IN  queue' = [x \in DOMAIN queue \cup {n} |->
                       IF x = n THEN Append(QueueOf(n), nu) ELSE queue[x]]
    /\ UNCHANGED <<pc, stamp, list, taken, start, loopVars>>

(* A batch allocated an object, and its merge begins.                      *)
Begin(t) ==
    /\ pc = "idle" /\ Len(stamp) < MaxObjects
    /\ pc' = "room"
    /\ stamp' = Append(stamp, t)
    /\ taken' = Append(taken, [n \in Names |-> <<>>])
    /\ start' = [list |-> list, queue |-> queue, taken |-> taken']
    /\ validOfs' = IF StatsDepth > 0 /\ Len(list) = StatsDepth THEN 1 ELSE 0
    /\ UNCHANGED <<list, queue, i, names, name, values, size, k, lastId>>

Nu == Len(stamp)

InSpan ==
    StatsSpan > 0 /\ validOfs < Len(list) =>
        stamp[Nu] - stamp[list[validOfs + 1]] <= StatsSpan

(* Mutant: an expired entry is not stepped over.                           *)
SkipExpiredStuck == pc = "room" /\ ~InSpan /\ UNCHANGED vars

(* One turn of the loop of makeRoomForStats.                               *)
SkipExpired ==
    /\ pc = "room" /\ ~InSpan
    /\ validOfs' = validOfs + 1
    /\ UNCHANGED <<pc, stamp, list, queue, taken, start, i, names, name,
                   values, size, k, lastId>>

(* copy(statsList, statsList[validOfs:]): the caller's slice keeps its     *)
(* length.                                                                 *)
CopyDown(s, ofs) == SubSeq(s, ofs + 1, Len(s)) \o SubSeq(s, Len(s) - ofs + 1, Len(s))

MakeRoom ==
    /\ pc = "room" /\ InSpan
    /\ pc' = "match"
    /\ list' = Append(CopyDown(list, validOfs), Nu)
    /\ i' = 1 /\ names' = DOMAIN queue
    /\ UNCHANGED <<stamp, queue, taken, start, validOfs, name, values, size,
                   k, lastId>>

-----------------------------------------------------------------------------
(* mergePendingMetrics: for each object, for each name in map order, the   *)
(* values older than the object move from the queue to the object.         *)

Older(v, t) == v.ts < t

(* The values of the queue q that are in C, in the order a pass over the   *)
(* queue appends them in.                                                  *)
Sifted(q, C) ==
    LET kept[x \in 0 .. Len(q)] ==
          IF x = 0 THEN <<>>
          ELSE IF q[x] \in C THEN Append(kept[x - 1], q[x]) ELSE kept[x - 1]
    IN  kept[Len(q)]

Moved(q, t) == Sifted(q, {v \in ToSet(q) : Older(v, t)})

(* Mutants: the queue is not filtered; what is left of it is reversed.     *)
FilteredNot(q, t) == q

FilteredReversed(q, t) == Reverse(Sifted(q, {v \in ToSet(q) : ~Older(v, t)}))

Filtered(q, t) == Sifted(q, {v \in ToSet(q) : ~Older(v, t)})

MatchName(n) ==
    /\ pc = "match" /\ n \in names
    /\ names' = names \ {n}
    /\ LET refStamp == stamp[list[i]]
       IN  /\ queue' = [queue EXCEPT ![n] = Filtered(@, refStamp)]
           /\ taken' = [taken EXCEPT ![list[i]][n] =
                          @ \o Moved(queue[n], refStamp)]
    /\ UNCHANGED <<pc, stamp, list, start, validOfs, i, name, values, size,
                   k, lastId>>

(* Mutant: the range stops before the newest object.                       *)
LastMatchedEarly == Len(list) - 1

LastMatched == Len(list)

NextObject ==
    /\ pc = "match" /\ names = {} /\ i < LastMatched
    /\ i' = i + 1 /\ names' = DOMAIN queue
    /\ UNCHANGED <<pc, stamp, list, queue, taken, start, validOfs, name,
                   values, size, k, lastId>>

MatchDone ==
    /\ pc = "match" /\ names = {} /\ i >= LastMatched
    /\ pc' = "drop" /\ names' = DOMAIN queue
    /\ UNCHANGED <<stamp, list, queue, taken, start, validOfs, i, name,
                   values, size, k, lastId>>

-----------------------------------------------------------------------------
(* dropTooOldPendingMetrics.                                               *)

OldestStamp == CHOOSE t \in {stamp[x] : x \in ToSet(list)} :
                   \A x \in ToSet(list) : t <= stamp[x]

DropName(n) ==
    /\ pc = "drop" /\ name = "" /\ n \in names
    /\ name' = n /\ names' = names \ {n}
    /\ values' = queue[n] /\ size' = Len(queue[n]) /\ k' = 1
    /\ UNCHANGED <<pc, stamp, list, queue, taken, start, validOfs, i, lastId>>

TooOld == Older(values[k], OldestStamp)

(* append(valueList[:k], valueList[k+1:]...) shifts the array that the     *)
(* range goes on reading at its old length.                                *)
Shifted ==
    [x \in DOMAIN values |->
       IF k <= x /\ x < size THEN values[x + 1] ELSE values[x]]

(* A deletion close to the end would let a later one slice past it, and    *)
(* panic; that is left out, as NothingToDrop says that there is none.      *)
DropValue ==
    /\ pc = "drop" /\ name # "" /\ k <= Len(values)
    /\ values' = IF TooOld THEN Shifted ELSE values
    /\ size' = IF TooOld THEN size - 1 ELSE size
    /\ k' = k + 1
    /\ UNCHANGED <<pc, stamp, list, queue, taken, start, validOfs, i, names,
                   name, lastId>>

DropNameDone ==
    /\ pc = "drop" /\ name # "" /\ k > Len(values)
    /\ queue' = [queue EXCEPT ![name] = SubSeq(values, 1, size)]
    /\ name' = "" /\ values' = <<>> /\ size' = 0 /\ k' = 1
    /\ UNCHANGED <<pc, stamp, list, taken, start, validOfs, i, names, lastId>>

End ==
    /\ pc = "drop" /\ name = "" /\ names = {}
    /\ pc' = "idle" /\ i' = 1 /\ validOfs' = 0
    /\ UNCHANGED <<stamp, list, queue, taken, start, names, name, values,
                   size, k, lastId>>

(* The plugin is loaded again.                                             *)
Restart ==
    /\ pc = "idle"
    /\ stamp' = <<>> /\ list' = <<>> /\ lastId' = 0
    /\ queue' = [n \in {} |-> <<>>] /\ taken' = <<>>
    /\ start' = [list |-> <<>>, queue |-> queue', taken |-> <<>>]
    /\ UNCHANGED <<pc, loopVars>>

-----------------------------------------------------------------------------
Loops ==
    \/ SkipExpired \/ MakeRoom \/ NextObject \/ MatchDone
    \/ DropValue \/ DropNameDone \/ End
    \/ \E n \in Names : MatchName(n) \/ DropName(n)

Outside ==
    \/ \E n \in Names, t \in Times : Enqueue(n, t)
    \/ \E t \in Stamps : Begin(t)
    \/ Restart

Next == Loops \/ Outside

Spec == Init /\ [][Next]_vars /\ WF_vars(Loops)

-----------------------------------------------------------------------------
(* Properties.                                                             *)

(* As the rest of the publisher sees it a merge happens when it ends.      *)
Visible == IF pc = "idle" THEN [list |-> list, queue |-> queue, taken |-> taken]
                          ELSE start

QueuedIn(q) == UNION {ToSet(q[n]) : n \in DOMAIN q}

AttachedIn(t) ==
    UNION {{<<o, v>> : v \in UNION {ToSet(t[o][n]) : n \in Names}}
             : o \in DOMAIN t}

P == INSTANCE Publisher
     WITH Paths <- {Path}, Metrics <- {}, TstampDelta <- 0, SecTicks <- 1,
          MaxBatch <- 0,
          pc <- "merge", rx <- 0, firstTime <- {}, regular <- TRUE,
          temp <- [p \in {Path} |-> Nu],
          toMerge <- IF pc = "idle" THEN {} ELSE {Path},
          objs <- [o \in DOMAIN stamp |->
                     [path |-> Path, stamp |-> stamp[o], fields |-> {},
                      closed |-> pc = "idle" \/ o < Nu]],
          known <- {Path}, stats <- [p \in {Path} |-> Visible.list],
          labelled <- {}, specs <- [p \in {Path} |-> Names],
          pending <- QueuedIn(Visible.queue),
          custom <- AttachedIn(Visible.taken), accepted <- {}

(* The loops, whatever order the maps are ranged over in, do to the list,  *)
(* the queues and the objects what Publisher says in one step: the copy in *)
(* place, each value to the first later object, and nothing dropped that   *)
(* could still be delivered.                                               *)
ImplementsMerge ==
    [][pc # "idle" => P!MergeStatsForDocker(Path) \/ UNCHANGED P!vars]_vars

(* dropTooOldPendingMetrics, which deletes from the slice it ranges over   *)
(* and could slice past its end, finds nothing to delete: a value still    *)
(* queued is not older than any object of the list.                        *)
NothingToDrop ==
    pc = "drop" =>
        /\ \A n \in names : \A x \in DOMAIN queue[n] :
              ~Older(queue[n][x], OldestStamp)
        /\ size = Len(values)

(* Values of one name stay in the order in which they came: in the queue,  *)
(* and in each object however many merges added to it.                     *)
InOrder(s) == \A x, y \in DOMAIN s : x < y => s[x].id < s[y].id

ArrivalOrder ==
    /\ \A n \in DOMAIN queue : InOrder(queue[n])
    /\ \A o \in DOMAIN taken : \A n \in Names : InOrder(taken[o][n])

(* The loops end, so that Publish gives the lock back.                     *)
MergeEnds == pc # "idle" ~> pc = "idle"
=============================================================================

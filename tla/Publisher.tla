----------------------------- MODULE Publisher -----------------------------
(***************************************************************************)
(* The publisher core: what one call of Publish does, under the write lock *)
(* of InnerState, to the containers the REST server later serves.          *)
(* src/publisher/process.go, with the lock and the state of                *)
(* src/publisher/publisher.go and src/exchange/exchange.go.                *)
(*                                                                         *)
(* A batch of metrics is revealed one metric per step, so that every batch *)
(* of at most MaxBatch metrics is explored.  A metric is a record:         *)
(*   native    its namespace begins with dockerMetricPrefix                *)
(*   path      the container it is about                                   *)
(*   ts        its timestamp, in ticks                                     *)
(*   hits      the template mappings that accept its namespace             *)
(*   specs     the names of the custom metric specs its tags and data      *)
(*             describe; <<>> when it is no custom metric                  *)
(*   valid     the spec names whose value converts to the spec's format    *)
(*   overlong  its namespace is too short: validateMetricWithMap slices it *)
(*             past the end for a mapping with no source that it ends in (by *)
(*             one it ends in, but whose pattern does not match, the mapping *)
(*             just declines it)                                             *)
(*                                                                         *)
(* Stats objects are heap objects named by their position in objs, because *)
(* the code passes them by reference: a list may hold one object twice.    *)
(***************************************************************************)
EXTENDS Integers, Sequences, FiniteSets

CONSTANTS
    Paths,        \* container paths
    Names,        \* custom metric names
    Metrics,      \* the metrics a batch may hold
    StatsDepth,   \* stats_depth; no limit when <= 0
    StatsSpan,    \* stats_span in ticks; no limit when <= 0
    TstampDelta,  \* timestamp_delta in ticks, added to stats, not to values
    SecTicks,     \* ticks in the whole second a stats timestamp is cut to
    MaxBatch,     \* bound: metrics in a batch
    MaxObjects,   \* bound: stats objects allocated
    MaxValues     \* bound: custom values queued

Targets == {"stats", "iface", "fs", "docker"}

ASSUME MetricsAssumption ==
    Metrics \subseteq [native: BOOLEAN, path: Paths, ts: Int,
                       hits: SUBSET Targets, specs: Seq(Names),
                       valid: SUBSET Names, overlong: BOOLEAN]

ASSUME ConfigAssumption ==
    /\ StatsDepth \in Int /\ StatsSpan \in Int /\ TstampDelta \in Int
    /\ SecTicks \in Nat \ {0}

ASSUME BoundsAssumption ==
    MaxBatch \in Nat /\ MaxObjects \in Nat /\ MaxValues \in Nat

VARIABLES
    pc,         \* "idle", "metrics", "merge" or "crashed"
    rx,         \* metrics taken from the batch so far
    firstTime,  \* firstTimeDockers
    regular,    \* countRegularStats > 0
    temp,       \* temporaryStats: the object being filled, 0 for none
    toMerge,    \* paths the final loop has still to visit
    objs,       \* the stats objects allocated, in allocation order
    known,      \* keys of DockerPaths and DockerStorage
    stats,      \* dockerObj["stats"]: object numbers, oldest entry first
    labelled,   \* containers whose docker fields were written
    specs,      \* names in spec["custom_metrics"]
    pending,    \* PendingMetrics
    custom,     \* <<object, value>>: the objects' custom_metrics
    lastId,     \* history: numbers the values queued
    accepted    \* history: every value ever queued

batchVars  == <<rx, firstTime, regular, temp, toMerge>>
customVars == <<specs, pending, custom, lastId, accepted>>
vars == <<pc, batchVars, objs, known, stats, labelled, customVars>>

-----------------------------------------------------------------------------
NoTemp == [p \in Paths |-> 0]

(* NewInnerState: nothing known, nothing pending, no call running.         *)
Init ==
    /\ pc = "idle" /\ rx = 0 /\ firstTime = {} /\ regular = FALSE
    /\ temp = NoTemp /\ toMerge = {} /\ objs = <<>>
    /\ known = {} /\ stats = [p \in Paths |-> <<>>] /\ labelled = {}
    /\ specs = [p \in Paths |-> {}] /\ pending = {} /\ custom = {}
    /\ lastId = 0 /\ accepted = {}

(* Publish takes the lock and starts on a decoded batch.                   *)
Lock ==
    /\ pc = "idle"
    /\ pc' = "metrics"
    /\ UNCHANGED <<batchVars, objs, known, stats, labelled, customVars>>

(* Mutant: the context, with temporaryStats, outlives the call.            *)
UnlockKeepingTemp ==
    /\ pc' = "idle"
    /\ rx' = 0 /\ firstTime' = {} /\ regular' = FALSE
    /\ UNCHANGED <<temp, objs, known, stats, labelled, customVars>>

(* The context of the call is dropped and the lock is released.            *)
Unlock ==
    /\ pc' = "idle"
    /\ rx' = 0 /\ firstTime' = {} /\ regular' = FALSE /\ temp' = NoTemp
    /\ UNCHANGED <<objs, known, stats, labelled, customVars>>

-----------------------------------------------------------------------------
(* One iteration of the loop over the batch.                               *)

IsCustom(m) == m.specs # <<>>

Take ==
    /\ pc = "metrics" /\ rx < MaxBatch
    /\ rx' = rx + 1
    /\ UNCHANGED <<toMerge, stats>>

(* extractDockerIdAndPath rejects the metric.                              *)
SkipForeign(m) ==
    /\ Take
    /\ ~m.native /\ ~IsCustom(m)
    /\ UNCHANGED <<pc, firstTime, regular, temp, objs, known, labelled,
                   customVars>>

(* The whole second a stats object is stamped with.                        *)
Trunc(t) == t - (t % SecTicks)

(* Mutants: the batch goes on filling the newest listed object; an object  *)
(* allocated earlier is taken again.                                       *)
StatsForListed(p) ==
    IF temp[p] # 0 THEN temp[p]
    ELSE IF stats[p] # <<>> THEN stats[p][Len(stats[p])] ELSE Len(objs) + 1

StatsForRecycled(p) ==
    IF temp[p] # 0 THEN temp[p]
    ELSE IF objs # <<>> THEN Len(objs) ELSE Len(objs) + 1

(* fetchObjectForStats: the object number, and the heap that holds it.     *)
StatsFor(p) == IF temp[p] # 0 THEN temp[p] ELSE Len(objs) + 1

FetchStats(m) ==
    IF temp[m.path] # 0 THEN objs
    ELSE Append(objs, [path   |-> m.path,
                       stamp  |-> Trunc(m.ts + TstampDelta),
                       fields |-> {},      \* what was written to it
                       closed |-> FALSE])  \* maps still to become lists

(* A metric of a container: fetchObjectForDocker and fetchObjectForStats   *)
(* run before any insertion is tried.                                      *)
Fetch(m) ==
    /\ Take
    /\ m.native \/ IsCustom(m)
    /\ temp[m.path] # 0 \/ Len(objs) < MaxObjects
    /\ known' = known \cup {m.path}
    /\ firstTime' = IF m.path \in known THEN firstTime
                                        ELSE firstTime \cup {m.path}
    /\ temp' = [temp EXCEPT ![m.path] = StatsFor(m.path)]

Handled(m) == regular' = (regular \/ m.native) /\ UNCHANGED pc

WriteField(m, target) ==
    /\ target \in m.hits
    /\ objs' = [FetchStats(m) EXCEPT ![StatsFor(m.path)].fields =
                                         @ \cup {target}]
    /\ UNCHANGED <<labelled, customVars>>

InsertIntoStats(m) ==
    Fetch(m) /\ Handled(m) /\ WriteField(m, "stats")

InsertIntoIface(m) ==
    /\ Fetch(m) /\ Handled(m)
    /\ "stats" \notin m.hits
    /\ WriteField(m, "iface")

InsertIntoFs(m) ==
    /\ Fetch(m) /\ Handled(m)
    /\ m.hits \cap {"stats", "iface"} = {}
    /\ WriteField(m, "fs")

(* insertIntoStats, insertIntoIface and insertIntoFs all declined.         *)
NotStats(m) == m.hits \cap {"stats", "iface", "fs"} = {}

(* insertIntoDocker: only in the batch that created the container.         *)
InsertIntoDocker(m) ==
    labelled' = IF m.path \in firstTime' /\ "docker" \in m.hits
                THEN labelled \cup {m.path} ELSE labelled

(* Mutant: only the first spec of a map of values is recorded.             *)
SpecNamesFirst(m) == {m.specs[1]}

SpecNames(m) == {m.specs[k] : k \in DOMAIN m.specs}

(* The values insertIntoCustomMetrics queues: one for each spec whose      *)
(* value is valid, even when several specs carry the same name.            *)
QueuedBy(m) ==
    {[id |-> lastId + k, path |-> m.path, name |-> m.specs[k], ts |-> m.ts] :
       k \in {k \in DOMAIN m.specs : m.specs[k] \in m.valid}}

(* The container was known before this metric: the specs are recorded, the *)
(* valid values are queued, and without any the docker fields come next.   *)
InsertIntoCustomMetrics(m) ==
    /\ Fetch(m) /\ Handled(m)
    /\ NotStats(m) /\ IsCustom(m) /\ m.path \in known
    /\ lastId + Len(m.specs) <= MaxValues
    /\ objs' = FetchStats(m)
    /\ specs' = [specs EXCEPT ![m.path] = @ \cup SpecNames(m)]
    /\ pending' = pending \cup QueuedBy(m)
    /\ accepted' = accepted \cup QueuedBy(m)
    /\ lastId' = lastId + Len(m.specs)
    /\ IF QueuedBy(m) = {} THEN InsertIntoDocker(m) ELSE UNCHANGED labelled
    /\ UNCHANGED custom

(* Custom metrics are not tried: not one, or its container is new.         *)
InsertOther(m) ==
    /\ Fetch(m) /\ Handled(m)
    /\ NotStats(m) /\ ~(IsCustom(m) /\ m.path \in known)
    /\ objs' = FetchStats(m)
    /\ InsertIntoDocker(m)
    /\ UNCHANGED customVars

(* The slice in validateMetricWithMap panics, for one of the mappings that *)
(* are tried; Publish re-panics and the plugin process ends.               *)
Panic(m) ==
    /\ Fetch(m)
    /\ m.overlong /\ "stats" \notin m.hits
    /\ objs' = FetchStats(m)
    /\ pc' = "crashed"
    /\ UNCHANGED <<regular, labelled, customVars>>

-----------------------------------------------------------------------------
(* The end of the batch.                                                   *)

(* Only custom metrics came: nothing is merged, temporaryStats is lost.    *)
EndCustomOnly == pc = "metrics" /\ ~regular /\ Unlock /\ UNCHANGED toMerge

(* Mutants: the final loop visits containers nobody has allocated, or only *)
(* those that were known before the batch.                                 *)
BeginMergeAll ==
    /\ pc = "metrics" /\ regular
    /\ pc' = "merge" /\ toMerge' = Paths
    /\ UNCHANGED <<rx, firstTime, regular, temp, objs, known, stats,
                   labelled, customVars>>

BeginMergeOld ==
    /\ pc = "metrics" /\ regular
    /\ pc' = "merge" /\ toMerge' = known \ firstTime
    /\ UNCHANGED <<rx, firstTime, regular, temp, objs, known, stats,
                   labelled, customVars>>

BeginMerge ==
    /\ pc = "metrics" /\ regular
    /\ pc' = "merge" /\ toMerge' = known
    /\ UNCHANGED <<rx, firstTime, regular, temp, objs, known, stats,
                   labelled, customVars>>

(* Mutant: an entry exactly StatsSpan old is out of the span.              *)
ExpiredAtSpan(s, nu) == StatsSpan > 0 /\ nu - objs[s].stamp >= StatsSpan

(* How many leading entries makeRoomForStats wants gone before the object  *)
(* stamped nu joins: the oldest of a list at StatsDepth, and then every    *)
(* entry up to the first one within StatsSpan.                             *)
Expired(s, nu) == StatsSpan > 0 /\ nu - objs[s].stamp > StatsSpan

AtDepth(list) == StatsDepth > 0 /\ Len(list) = StatsDepth

ValidOfs(list, nu) ==
    Cardinality({i \in DOMAIN list :
                   \A j \in 1 .. i : \/ j = 1 /\ AtDepth(list)
                                     \/ Expired(list[j], nu)})

(* makeRoomForStats as its caller sees it: copy moves the entries from     *)
(* validOfs on to the front, in place, but the shortened slice is assigned *)
(* to the local pointer only, so the caller's list keeps its length.       *)
MakeRoomForStats(list, nu) ==
    LET k == ValidOfs(list, nu)
    IN  [i \in DOMAIN list |->
           IF i + k \in DOMAIN list THEN list[i + k] ELSE list[i]]

(* Mutants: a value goes to an object of its own second; it stays in the   *)
(* queue while the loop goes on; only the new object is looked at.         *)
NotAfter(v, s) == v.ts <= objs[s].stamp

AnyLater(v, list, i) == v.ts < objs[list[i]].stamp

PendingAfterNewest(p, list) ==
    {v \in pending : v.path = p => objs[list[Len(list)]].stamp <= v.ts}

(* mergePendingMetrics: a value goes to the first object of the list that  *)
(* is stamped later than the value.                                        *)
Before(v, s) == v.ts < objs[s].stamp

FirstLater(v, list, i) ==
    Before(v, list[i]) /\ \A j \in 1 .. i - 1 : ~Before(v, list[j])

PendingOf(p) == {v \in pending : v.path = p}

AttachedBy(p, list) ==
    {<<list[x[2]], x[1]>> :
       x \in {y \in PendingOf(p) \X DOMAIN list :
                FirstLater(y[1], list, y[2])}}

StillPending(p, list) ==
    {v \in pending : v.path = p => \A i \in DOMAIN list : ~Before(v, list[i])}

(* Mutant: the comparison is the wrong way round.                          *)
TooYoung(v, p, list) ==
    v.path = p /\ list # <<>> /\ \A i \in DOMAIN list : ~Before(v, list[i])

(* dropTooOldPendingMetrics: what is older than every object goes.         *)
TooOld(v, p, list) ==
    v.path = p /\ list # <<>> /\ \A i \in DOMAIN list : Before(v, list[i])

(* mergeStatsForDocker for a container with an object of this batch.       *)
MergeStatsForDocker(p) ==
    /\ pc = "merge" /\ p \in toMerge /\ temp[p] # 0
    /\ toMerge' = toMerge \ {p}
    /\ objs' = [objs EXCEPT ![temp[p]].closed = TRUE]
    /\ LET list == Append(MakeRoomForStats(stats[p], objs[temp[p]].stamp),
                          temp[p])
       IN  /\ stats' = [stats EXCEPT ![p] = list]
           /\ custom' = custom \cup AttachedBy(p, list)
           /\ pending' = {v \in StillPending(p, list) : ~TooOld(v, p, list)}
    /\ UNCHANGED <<pc, rx, firstTime, regular, temp, known, labelled, specs,
                   lastId, accepted>>

(* No object was allocated for the container in this batch.                *)
MergeNothing(p) ==
    /\ pc = "merge" /\ p \in toMerge /\ temp[p] = 0
    /\ toMerge' = toMerge \ {p}
    /\ UNCHANGED <<pc, rx, firstTime, regular, temp, objs, known, stats,
                   labelled, customVars>>

EndMerge == pc = "merge" /\ toMerge = {} /\ Unlock /\ UNCHANGED toMerge

(* The plugin is loaded again after the process died.  Nothing persists.   *)
Restart ==
    /\ pc = "crashed"
    /\ pc' = "idle" /\ rx' = 0 /\ firstTime' = {} /\ regular' = FALSE
    /\ temp' = NoTemp /\ toMerge' = {} /\ objs' = <<>>
    /\ known' = {} /\ stats' = [p \in Paths |-> <<>>] /\ labelled' = {}
    /\ specs' = [p \in Paths |-> {}] /\ pending' = {} /\ custom' = {}
    /\ lastId' = 0 /\ accepted' = {}

-----------------------------------------------------------------------------
Process(m) ==
    \/ SkipForeign(m)
    \/ InsertIntoStats(m) \/ InsertIntoIface(m) \/ InsertIntoFs(m)
    \/ InsertIntoCustomMetrics(m) \/ InsertOther(m)
    \/ Panic(m)

Merge(p) == MergeStatsForDocker(p) \/ MergeNothing(p)

Next ==
    \/ Lock \/ EndCustomOnly \/ BeginMerge \/ EndMerge \/ Restart
    \/ \E m \in Metrics : Process(m)
    \/ \E p \in Paths : Merge(p)

Spec == Init /\ [][Next]_vars

-----------------------------------------------------------------------------
(* Properties.                                                             *)

Objects == 1 .. Len(objs)

Object == [path: Paths, stamp: Int, fields: SUBSET Targets, closed: BOOLEAN]

Value == [id: Nat, path: Paths, name: Names, ts: Int]

Listed(p) == {stats[p][i] : i \in DOMAIN stats[p]}

Attached == {e[2] : e \in custom}

(* Type invariant: temporaryStats, the lists and the attached values only  *)
(* name objects that were allocated.                                       *)
TypeOK ==
    /\ pc \in {"idle", "metrics", "merge", "crashed"}
    /\ rx \in Nat /\ regular \in BOOLEAN /\ lastId \in Nat
    /\ firstTime \subseteq known /\ toMerge \subseteq known
    /\ known \subseteq Paths /\ labelled \subseteq known
    /\ objs \in Seq(Object)
    /\ temp \in [Paths -> Objects \cup {0}]
    /\ stats \in [Paths -> Seq(Objects)]
    /\ specs \in [Paths -> SUBSET Names]
    /\ pending \subseteq Value /\ accepted \subseteq Value
    /\ custom \subseteq Objects \X Value

(* The bookkeeping of a call: between calls nothing is being filled; an    *)
(* object being filled is its container's, its container is known to the   *)
(* final loop, and it is open until that loop has visited the container,   *)
(* after which it is listed.  Nothing a regular batch built is forgotten.  *)
Consistent ==
    /\ pc = "idle" => temp = NoTemp
    /\ pc # "merge" => toMerge = {}
    /\ \A p \in Paths : temp[p] # 0 =>
          /\ p \in known /\ objs[temp[p]].path = p
          /\ pc # "merge" \/ p \in toMerge => ~objs[temp[p]].closed
          /\ pc = "merge" /\ p \notin toMerge => temp[p] \in Listed(p)

(* A custom value that was queued is either still pending or attached to   *)
(* exactly one stats object, whatever batches follow: mergePendingMetrics  *)
(* never attaches one value to two objects of a list, and                  *)
(* dropTooOldPendingMetrics, run after it, never loses one.                *)
AccountedOnce ==
    /\ pending \cup Attached = accepted
    /\ pending \cap Attached = {}
    /\ \A e, f \in custom : e[2] = f[2] => e = f

(* A value is only ever attached to a finished object of its own container *)
(* that is stamped later than the value (mergePendingMetrics).             *)
AttachedToLater ==
    \A e \in custom : /\ objs[e[1]].path = e[2].path
                      /\ objs[e[1]].closed
                      /\ e[2].ts < objs[e[1]].stamp

(* Whoever finds a value in a container finds its spec there too           *)
(* (insertIntoCustomMetrics records the spec first, and nothing removes it)*)
SpecForEveryValue == \A v \in accepted : v.name \in specs[v.path]

(* What the REST server can reach: a listed object belongs to the one      *)
(* container it is listed for and has its maps turned into lists; before   *)
(* the final loop visits a container its new object is not listed yet.     *)
ListedIsFinished ==
    \A p \in Paths : \A s \in Listed(p) :
        /\ objs[s].path = p /\ objs[s].closed
        /\ pc = "metrics" => s # temp[p]

(* After its container was merged a value that is still pending is not     *)
(* older than any listed object: everything mergePendingMetrics could      *)
(* deliver was delivered, whatever order the stamps of the list have.      *)
MergeCatchesUp ==
    [][\A p \in Paths : MergeStatsForDocker(p) =>
          \A v \in pending', i \in DOMAIN stats'[p] :
              v.path = p => objs[stats'[p][i]].stamp <= v.ts]_vars

(* A listed object is never written again, apart from the custom metrics   *)
(* attached to it: the batches only write to temporaryStats.               *)
PublishedFrozen ==
    [][pc # "crashed" =>
          \A p \in Paths : \A s \in Listed(p) : objs'[s] = objs[s]]_vars

(* An object that is neither listed nor being filled never comes back: not *)
(* the ones makeRoomForStats overwrote, nor the ones that a batch of only  *)
(* custom metrics left behind.                                             *)
Garbage == {s \in Objects : \A p \in Paths : s \notin Listed(p) /\ s # temp[p]}

GarbageStaysGarbage == [][pc # "crashed" => Garbage \subseteq Garbage']_vars

(* makeRoomForStats only drops entries that are out of the span, and at    *)
(* most one more, the first of a list at StatsDepth.                       *)
NoPrematureEviction ==
    [][pc # "crashed" =>
          \A p \in Paths : \A s \in Listed(p) \ Listed(p)' :
             \/ AtDepth(stats[p]) /\ s = stats[p][1]
             \/ /\ StatsSpan > 0
                /\ objs[temp[p]].stamp - objs[s].stamp > StatsSpan]_vars

(* The publisher implements CustomDelivery: the stats a value went into    *)
(* are known by their stamp.                                               *)
StatsStamps == {Trunc(m.ts + TstampDelta) : m \in Metrics}

Delivered == {<<e[2], objs[e[1]].stamp>> : e \in custom}

Delivery == INSTANCE CustomDelivery
            WITH Values <- Value, Stamps <- StatsStamps,
                 queued <- pending, delivered <- Delivered

ImplementsDelivery == Delivery!Spec

(* The comment on makeRoomForStats: statsDepth is not overflowed.          *)
DepthBound ==
    StatsDepth > 0 => \A p \in Paths : Len(stats[p]) <= StatsDepth
=============================================================================

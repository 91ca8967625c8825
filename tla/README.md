# The Heapster publisher plugin in TLA+

Specifications, model-checking runs and machine-checked proofs for the snap
plugin that keeps container statistics in memory and serves them to Heapster
over REST. All paths below are relative to the repository (`src/`).

## 1. The system

snapd calls `Publish` with a batch of metrics. The plugin turns the metrics of
a container into one *stats object* per batch, keeps a list of such objects per
container, attaches application ("custom") values to them, and answers
`POST /stats/container/` with those lists.

| Component | State | Operations | Where |
|---|---|---|---|
| Publisher core | `DockerPaths`, `DockerStorage` (container objects with their `stats` list and `spec`), `PendingMetrics`; for one call `temporaryStats`, `firstTimeDockers`, `countRegularStats` | `Publish`, `processMetrics0`, `fetchObjectFor*`, `insertInto*`, `mergeStatsForDocker`, `makeRoomForStats`, `mergePendingMetrics`, `dropTooOldPendingMetrics` | `publisher/process.go`, `publisher/publisher.go` |
| `InnerState` | an embedded `sync.RWMutex` | `Lock`/`Unlock` by `Publish`, `RLock`/`RUnlock` by `buildStatsResponse` | `exchange/exchange.go` |
| REST server | per request: the decoded request, the response; `serverStats` counters | `Stats`, `buildStatsResponse`, `statsListType` | `server/server.go` |
| Start-up | `core.once`, the configured values, the listening goroutine and the `err` it shares with `EnsureStarted` | `NewCore`, `GetConfigPolicy`, `ensureInitialized`, `EnsureStarted`, `ServerFunc`, `main` | `publisher/publisher.go`, `server/server.go`, `main.go` |
| Core counters | `coreStats` | updated at the end of a batch | `publisher/process.go:105-116` |
| Server counters | `serverStats` | updated at the end of each request, under the read lock | `server/server.go:139-150` |
| Metric template | the objects stats and containers are copied from, four mappings from sources to value specs; built once | `loadMetricTemplate`, `extractMapping`, `applyDefaults`, and the insertions that use them | `publisher/template.go` |
| JSON walker, values, times | none between calls | `Walk`, `Seek`, `walk`, `GetDefaultOr`, `ParseTime` | `util/` |

**Interactions.** Everything between the publisher and the server goes through
`InnerState`. `Publish` holds the write lock for a whole batch. A request
holds the read lock while it builds its response, but the response *refers* to
the publisher's stats objects and spec maps, and it is encoded after the lock
has been released. Nothing is stored on disk; a panic ends the process.

**What is hard.** The order of batches (with and without regular stats, with
stamps that go back and forth), values that wait over several batches, lists
that are changed in place and may come to hold one object twice, whole-second
stamps against full-resolution values, requests encoded while batches write to
what they refer to, readers and a writer that keep each other waiting, a panic
in the middle of a batch, calls that arrive while the first one initialises,
an initialisation that panics half way, a port still taken after a reload,
loops that delete from what they range over, and maps ranged over in any order
while a template is taken apart. `PROJECT.json` lists each under `hazards`, at
the line where it bites and with the properties that cover it.

**What makes it correct.**

* *Store*: only finished objects of the right container are listed, a listed
  object is not written again apart from its custom metrics, an object that has
  left the lists does not return, and nothing leaves a list early.
* *Custom values*: a value waits until there are later stats of its container,
  goes into exactly one stats object, is never lost, and has its spec.
* *Responses*: the lists of a response are those of one moment, most recent
  first, within the range and the limit; the later encoding misses nothing that
  was there at that moment.
* *Progress*: requests do not keep batches out for ever, nor batches requests;
  every call of `Publish` returns, and the start-up comes to an end.
* *Start-up*: one call initialises, and its configuration is that of every
  batch of the process; an error that is reported is one.
* *Templates*: every value spec is found by its source in whatever order the
  maps come, none is left where a value should be, and a metric changes the
  values its specs ask for and no others.

## 2. The modules

| Module | Models | Kind |
|---|---|---|
| `Publisher` | one call of `Publish` under the lock: `process.go` and the state it works on | component |
| `CustomDelivery` | the promise about custom values: wait, be delivered once into later stats | abstract specification |
| `MergeLoops` | the three loops of a merge step by step; they implement what `Publisher` says in one | detailed specification |
| `CoreStats` | `coreStats`, kept beside the batches of `Publisher` | component |
| `RWMutex` | `sync.RWMutex` as used here (external) | component |
| `RestServer` | `Stats` and `buildStatsResponse`, then the encoder: `server.go` | component |
| `ServerCounters` | the plain reads and writes of `serverStats` by several requests | component |
| `Plugin` | the publisher, the server and the lock together; the runtime's reaction to a race | composition |
| `Setup` | the promise about the configuration: the first one is kept | abstract specification |
| `Lifecycle` | a process: calls of `Publish`, the initialisation, the listening goroutine, death and reload | component |
| `ObjWalker` | `walk` of `jsonutil.go`, its recursion on a stack | component |
| `JsonWalker` | `Walk` and `Seek`, with every answer the caller's function can give | component |
| `MetricTemplate` | `template.go`: loading a template, and what an insertion does with it | component |
| `MCPublisher`, `MCCoreStats`, `MCPlugin`, `MCLifecycle`, `MCMergeLoops`, `MCServerCounters`, `MCMetricTemplate` | the small sets the configurations use | model checking |
| `PublisherProofs` | the invariants and action properties of `Publisher`; that it implements `CustomDelivery` | proofs |
| `MergeLoopsProofs` | the invariants of `MergeLoops`, and that it implements the merge of `Publisher` | proofs |
| `CoreStatsProofs`, `CountersProofs` | the properties of `CoreStats` and of `ServerCounters` | proofs |
| `PluginProofs` | the safety of the composition: the lock, the responses and their encoding | proofs |
| `LifecycleProofs` | the safety of `Lifecycle`, and that it implements `Setup` | proofs |
| `MetricTemplateProofs` | what is below a node of an object; the properties of `Seek` and `Walk`, of the loading of a template and of the insertions | proofs |
| `LoopLemmas` | induction over the turns of a loop, for the proofs about lists | proofs |

What the modules take from one another: `CoreStats` and `Plugin` extend
`Publisher`; `MergeLoops` instantiates it to say what a merge is; `Lifecycle`
stands for everything around the batch that `Publisher` models, and
`ProcessMetrics` there is one whole batch; `MetricTemplate` extends the walker,
and what it finds out (which specs a metric hits) is what `Publisher` takes as
the `hits` of a metric.

### Publisher

`pc` says where a call is: `"idle"`, in the loop over the batch (`"metrics"`),
in the final loop over `DockerPaths` (`"merge"`), or `"crashed"`.

| State | In the code |
|---|---|
| `firstTime`, `regular`, `temp` | `firstTimeDockers`, `countRegularStats > 0`, `temporaryStats` |
| `objs` | the stats objects allocated; an object is its position here, so that a list can hold one object twice, as a Go slice of maps can |
| `known` | the keys of `DockerPaths` and `DockerStorage`, always written together |
| `stats`, `specs`, `labelled` | `dockerObj["stats"]`, `spec["custom_metrics"]`, and whether the template's container fields were written |
| `pending`, `custom` | `PendingMetrics`; the `custom_metrics` maps of the stats objects, as pairs of object and value |
| `lastId`, `accepted` | history: they number and remember the queued values, for the properties only |

| Action | In the code |
|---|---|
| `Lock`, `EndCustomOnly`, `EndMerge` | the lock in `Publish`; the end of a batch, without and with the final loop |
| `SkipForeign`, `InsertIntoStats`, `InsertIntoIface`, `InsertIntoFs`, `InsertIntoCustomMetrics`, `InsertOther` | one iteration of the loop in `processMetrics0`, by the insertion that takes the metric; each includes both `fetchObjectFor...` calls |
| `Panic` | the slice in `validateMetricWithMap` runs past the end of the namespace; `Publish` panics again |
| `BeginMerge`, `MergeStatsForDocker`, `MergeNothing` | the final loop, one container per step, in any order (a Go map is iterated) |
| `Restart` | the plugin is loaded again, with nothing kept |

Abstractions. A metric is a record of what the insertions tell apart: container,
timestamp, which mappings accept it, which custom specs it describes and which
of their values convert. A batch is revealed one metric per step, which
explores every batch of at most `MaxBatch` metrics. The three nested loops over
list, names and values in `mergePendingMetrics` become the set of values and,
for each, the first list entry later than it: the loops filter a value out of
the queue as soon as one entry took it, and different values do not interfere.
`dropTooOldPendingMetrics` is the set `TooOld`; that it deletes from the slice
it ranges over does not show, because that set is empty whenever it runs, which
is what `AccountedOnce` and the proof of `MergeEffect` say, and what
`MergeLoops` shows of the loop itself. The order of the values in a queue is
left to `MergeLoops`.

### MergeLoops

One container, its list of stats and its queue of values per name. `pc` is the
loop that runs: `"room"` (`SkipExpired`, `MakeRoom`: `makeRoomForStats` with the
`copy` in place), `"match"` (`MatchName`, `NextObject`, `MatchDone`:
`mergePendingMetrics`, the names in any order) and `"drop"` (`DropName`,
`DropValue`, `DropNameDone`: `dropTooOldPendingMetrics`, with the array that
`append` shifts while it is ranged over at its old length). `Enqueue`, `Begin`
and `Restart` are the batches around it. `ImplementsMerge` is the refinement:
seen from outside, a merge is one step of `Publisher!MergeStatsForDocker`.

### CoreStats and ServerCounters

`CoreStats` conjoins to each step of a batch what it does to
`stats_dockersPcsdMap` and `stats_statsPcsdMap` (`Count`, `CountMerge`), and adds
them up in `Finish`. `Unload` ends a process that has received enough for the
run; `CountAfresh` is the next one. `ServerCounters` has one action per plain
read or write of `server.go:139-150`: the comparison with the maximum, setting
it, setting the last amount, and the read and the write of `+=`. Its history
variables remember what the counters are compared with: the amounts of the
requests that began (`served`, and their sums in `begun`), what was written to
the totals so far (`added`), and whether two requests ever overlapped.

### RestServer, RWMutex and Plugin

A handler goes through `received`, `locking`, `built` (inside the read lock)
and `encoding`. `Build` is one step: between `RLock` and `RUnlock` nothing it
reads can change; `WindowCorrect`, checked in the whole state `built`, would
fail otherwise. `Sortings` is every order that `sort.Sort` may leave, since
`Less` makes two objects with one stamp each less than the other. `Window` is
the loop over a sorted list, turn by turn, as a recursive function of the turn;
`Full` is its test of `num_stats`.

The encoder is not under the lock, so it takes two steps per map it
visits: `BeginEntry` and `EndEntry`, between which the publisher may write to
that same map. What was added meanwhile may or may not be seen. The Go runtime
may also notice and end the process; `Throw` is that step, and it is possible
exactly when the publisher's next step writes a map an encoder is inside.

`RWMutex` keeps the two facts that progress depends on: a writer that waits
keeps new readers out, and its `Unlock` lets in the readers that queued up.
`LockDiscipline` says what the lock is for: no response is built while a batch
is processed, and a request that waits is let in or is behind a writer.

### Lifecycle and Setup

`pc[c]` is where caller `c` is: `"once"`, waiting in `once.Do`; one of `Stages`,
inside the function it runs; `"decode"`, `"locking"`, `"processing"` after it.

| Action | In the code |
|---|---|
| `Publish`, `EnterOnce`, `PassOnce` | `Publish` is called; `once.Do` takes the first caller in and makes the others wait until it is done |
| `ReadDepth`, `ReadListen`, `ReadSpan`, `LoadMetricTemplate`, `ReadDelta`, `EnsureStarted`, `FinishInit` | the function in `ensureInitialized`, setting by setting |
| `ReadListenPanics`, `LoadPanics` | a type assertion fails; the panic is recovered inside that function, which counts as done |
| `LoadFails` | `logger.Fatalf` |
| `Decline`, `Decode`, `Lock`, `ProcessMetrics`, `ProcessPanics` | the rest of `Publish`: another content type or no batch, the lock, the batch, and a panic in it |
| `Listen`, `ListenFails` | the goroutine of `ServerFunc`: the port is free, or `ListenAndServe` returns and `err` is set |
| `OtherProgram`, `Unload`, `Load` | outside: the port is taken and given back, snapd ends and starts the process |

A manifest is what snapd hands over: its rules (`Policy`) fill in defaults and
keep manifests out that break them; there is no rule for `server_addr`, which is
why its type assertion can panic. `Effective(m)` is the settings one manifest
leads to, including those of an initialisation cut short. What loading a
template comes to is a constant here; `MetricTemplate` says when it is which.

### ObjWalker, JsonWalker and MetricTemplate

Objects lie on a heap, so that the in-place changes of the loader are changes
of the heap, seen through every path. `walk` is a stack of directories with
the kids still to come; for a map any of them may be next. A key is the
sequence of path elements that `filepath.Join` makes of it, none for an empty
key and two for one with a slash, which is how two nodes come to have one path.
`Walk` seeks its start with a walk of its own, as in the code, and then calls a
function that may answer nil, `SkipDir` or another error each time. The
reference for both is `Below`, all nodes below a node with their paths. `Tree`
is what decoding makes: each node the kid of one, and numbered after it.

`MetricTemplate` goes through the phases of `loadMetricTemplate`: `Split` cuts
stats, iface and fs out; `Extract`, `PassBy` and their fellows walk the four
parts, recording the specs and their aliases; `ApplyDefault` puts the defaults
in place, in any order; `Insert` is an insertion afterwards, of all specs of a
source whose pattern matches. Each panic of the code is an action
(`Panic` in `Split`, `ExtractPanics`, `DefaultPanics`). `Seek` is one step there
(`At`), which is what `SeekCorrect` says it is. The uuids of aliases become
numbers, a pattern matches or not as the metric likes.

## 3. The runs

TLC finishes each within three minutes, with two workers.

| Run | Properties | Distinct states | What it shows |
|---|---|---|---|
| `store` | `Consistent` `ListedIsFinished` `PublishedFrozen` `GarbageStaysGarbage` `NoPrematureEviction` `CountersConsistent` `RecentlyIsKnown` | 1.7 M | two containers, depth and span both limiting, stamps out of order; the counters agree with the store |
| `custom` | `TypeOK` `AccountedOnce` `AttachedToLater` `SpecForEveryValue` `MergeCatchesUp` `ImplementsDelivery` | 1.3 M | values before, between and after stats, panics and restarts; the refinement of `CustomDelivery` |
| `loops` | `NothingToDrop` `ArrivalOrder` `ImplementsMerge` `MergeEnds` | 261 k | the loops of a merge end, keep the order of values, drop nothing, and do what `Publisher` says |
| `response` | `WindowCorrect` `NothingUnreported` `SpecsReported` `ResponseFrozen` | 364 k | one request against up to three batches with stats and others without |
| `progress` | `RequestAnswered` `PublishFinishes` `LockDiscipline` | 26 k | two handlers and a publisher, under fairness |
| `counters` | `NeverOver` `ExactAlone` | 220 k | updates are lost between two requests, but no total exceeds what was added, and requests that never overlapped are counted exactly |
| `setup` | `Exclusive` `ErrorIsReal` `ImplementsSetup` `PublishReturns` `InitSettles` | 119 k | two callers with six manifests, good and bad, a port that is taken, deaths and reloads |
| `template` | `SeekCorrect` `WalkCorrect` `AllMapped` `LoadedClean` `PanicExplained` `InsertLands` | 74 k | every walk over two objects and every load of nine templates, in every order of the maps, then insertions |
| `depth`, `limit`, `noserver`, `walkerror` | `DepthBound`, `NoLimitOnRange`, `ServerStarted`, `ErrorStopsWalk` | - | the documented promises the code does not keep, see section 5 |

**Bounds.** `MaxBatch` 2: a batch with one regular and one custom metric is the
smallest in which the two meet, in both orders; a batch of two custom ones is
the smallest that merges nothing. `MaxObjects` 3 to 5: with depth 2 a list is
filled, reaches its depth, overflows and is changed in place again. `MaxValues`
counts the values queued; 3 or 4 let several values of one name and of two
containers wait together. `SecTicks` 2 (`custom`) gives stamps that are cut;
`TstampDelta` is 1 there, so that values equal to, before and after a stamp all
occur. Two containers are enough for the store, which touches one container per
step; where the question is one container's list or one response (`loops`,
`response`) there is one. One handler is enough for `response`, as handlers
share nothing they write; `progress` and `counters` need two, as one may come
back or update while the other is in the middle. `MaxRequests` 3: two requests
overlap and a third follows. `MaxReceived` 8 is above what the objects of `store`
allow, plus metrics to spare. In `setup` two callers are enough: one
initialises and the others are alike. In `loops` two stamps, one out of the
span of the other, and more objects than the depth make lists that hold one
object twice. The objects of `template` have one node of each kind, ambiguous
paths, one source three times, and each way a template can be wrong once. When
a bound is reached the remaining actions are still possible and a call still
ends, so no run needs deadlock checking switched off.

**Fairness.** `Plugin!Fairness`: weak fairness of the publisher's steps once
`Publish` has been called, and of each handler's steps once a request has
arrived: a goroutine that can run is scheduled, a batch is finite, and a client
that reads its response lets the encoder go on. Nothing is assumed of what
comes from outside: batches and requests need not arrive, nor the process be
started again. Both liveness properties allow for the death of the process.
Without the writer's preference `PublishFinishes` fails, and without the
hand-over in `Unlock` `RequestAnswered` does; the mutants of the two show it.
`Lifecycle!Fairness`: weak fairness of each caller's own steps and of the
listening goroutine, and strong fairness of `Lock` for each caller, since
`sync.RWMutex` serves writers that wait in turn while others come and go.
`MergeLoops` assumes only that a loop that has begun goes on; `MetricTemplate`
assumes nothing.

## 4. The proofs

Every theorem holds for all values of the constants: any containers, names and
metrics, any depth, span and delta, any number of requests, callers and stats
objects, lists and queues of any length, and any bounds of the runs. What is
assumed of the constants is named where they are declared:

* `MetricsAssumption`, `ConfigAssumption`, `BoundsAssumption` (`Publisher`):
  metrics are records of the right type, the configured values are integers, a
  second has at least one tick.
* `RequestsAssumption`, `PathOrderAssumption` (`RestServer`): a request has
  integer limits and is not the malformed body; the order in which the encoder
  sorts keys has every container in it.
* `LoopsAssumption` (`MergeLoops`): times are integers, and no name is the empty
  string, which stands for "no queue is ranged over".
* `CountersAssumption` (`ServerCounters`): amounts are naturals.
* `ObjectsAssumption` (`MetricTemplate`): objects and templates are trees, as
  decoded JSON is; keys, kinds and depth are arbitrary.
* `TemplatesAssumption` (`MetricTemplate`): what it is to be a spec that is well
  formed (`Decoded`). The loader copies the fields of a spec with `v.(string)`,
  so one that holds a directory is broken; a template with such a spec is
  covered, and panics.
* `KeysAssumption` (`MetricTemplate`): the two keys the loader puts in itself are
  strings.
* `UnsetAssumption` (`Lifecycle`): "no settings yet" is nothing a manifest leads
  to.

| Theorem | Establishes |
|---|---|
| `TypeCorrect` | `TypeOK`: no reference to an object that was not allocated |
| `InductiveInvariant` | `IInv`, from which the next ones follow |
| `CallsConsistent`, `ListedObjectsFinished`, `ValuesAccountedOnce`, `ValuesAttachedToLater`, `ValuesHaveSpecs` | the invariants of `store` and `custom` |
| `ListedObjectsFrozen`, `GarbageNeverListed`, `MergesCatchUp`, `NothingEvictedEarly` | their action properties |
| `PublisherDelivers` | `Spec => ImplementsDelivery`, the refinement |
| `LoopsStep`, `LoopsInvariant` | `LInv`: queues and objects are in order, and what a merge has passed is cleared |
| `DropsNothing`, `OrderKept` | `NothingToDrop`, `ArrivalOrder` |
| `MergeStep`, `MergeInvariant` | `MInv`: how far a merge has come, compared with where it began |
| `LoopsImplementMerge` | `Spec => ImplementsMerge`, the refinement: the loops do what `Publisher` says in one step |
| `PluginStepInv`, `PluginInvariant` | `PInv`, the invariant of the composition |
| `LockKept`, `StoreKept` | `LockDiscipline`; the invariants of the store, beside requests and when the runtime throws |
| `ResponsesMatchRequests` | `WindowCorrect` |
| `NoValueUnreported`, `SpecsOfReported`, `ResponsesFrozen` | the other properties of `response` |
| `CountersStep`, `CountersInvariant`, `CountersNeverOver`, `CountersExact` | `CInv`, and from it the properties of `counters` |
| `StatsStep`, `StatsInvariant`, `CountersAgree`, `RecentlyCountsAll` | `SInv`, and from it `CountersConsistent` and `RecentlyIsKnown` |
| `BelowUnfolds`, `CalledIs` | what is below a node, and what a call leaves on the stack |
| `SeekNext`, `SeekIsCorrect` | `SeekInv`, and `SeekCorrect` |
| `WalkNext`, `WalkIsCorrect` | `WalkInv`, and `WalkCorrect` |
| `LoadNext`, `EverySpecIsMapped` | `LoadInv`, and `AllMapped` |
| `CleanNext`, `NoSpecIsLeft` | `CleanInv`, and `LoadedClean` |
| `InsertionsLand` | `InsertLands`, an action property |
| `PanicsAreExplained` | `PanicExplained` |
| `LifecycleInvariant` | `Inv`, from which the next ones follow |
| `ExclusiveHolds`, `ErrorIsRealHolds` | the invariants of `setup` |
| `ImplementsSetupHolds` | `Spec => ImplementsSetup`, the refinement |

*The publisher.* `ListedIsFinished` alone is not inductive: a merge closes the
object in `temp` and lists it, and for the listed object to be of the right
container one must know whose object `temp` holds; for a batch not to write to
a listed object one must know that `temp` is open while listed objects are
closed. `Consistent` says both, and that the final loop visits every container
whose object is still open. `AccountedOnce` in turn needs that the numbers of
queued values only grow (`Numbered`): otherwise a new value could equal one
attached long ago. `IInv` is the conjunction of these, and `StepInv` goes
through the actions. Most of the work is in a merge:

* `FirstLaterExists` and `FirstLaterUnique`: a value that some entry is later
  than has exactly one first such entry. A list is finite but may be as long
  as one likes, so this rests on `LeastElement`, obtained from the
  well-foundedness of the finite subsets in the library.
* `MergeValues`: what leaves the queue is what is attached, once.
* `DroppedPrefix`: whatever copying in place does to a list, an entry that is
  gone from it was in the prefix `makeRoomForStats` wanted to drop.

`StepKinds` sums up what a step can do to the objects and the lists, and the
action properties follow from it case by case. The refinement adds that each
object carries the stamp of some metric (`Stamped`); a merge is a `Deliver`
whose function maps each attached value to the stamp of its first later entry.

*The loops of a merge.* `Sifted`, what a pass over a queue takes or leaves, is a
recursive function of the position. Induction over data is not available as
such; `TurnInduction` of `LoopLemmas` is induction over the turns of one loop
with the set of good turns in place of a predicate, and `LoopRuns` says that a
function defined turn by turn satisfies its equations. From these `SiftedTakes`
gives what the properties need: the result is the chosen entries, in the order
they had. `NothingToDrop` then needs that behind the position of the loop no
queue has a value an object could have taken (`Cleared`), and `ArrivalOrder`
that what an object may still take came after all it has (`Behind`): together
`LInv`. For the refinement a state inside a merge is compared with `start`:
`Waiting` is what each queue has left after the entries passed so far, `Got`
what each object received (`Handed`), `RoomMade` what `makeRoomForStats` found.
When the last loop ends, `SameOfs`, `SameList`, `SamePending` and
`SameAttached` turn these into the expressions of `MergeStatsForDocker`
(`EndMerges`); every other step is invisible (`Hidden`). In passing,
`SameOfs` shows that the loop of `makeRoomForStats` and the set by which
`Publisher` counts its turns agree.

*The composition.* A throw ends a batch in the middle, so `IInv` of the
publisher is not an invariant of the process that is left: `Store` keeps what
of it outlives the batch, and all of it while the process lives. The rest of
`PInv` follows a response from its building on. Under the lock it matches the
store (`Windowed`); the loop over the sorted list is `Window`, and
`LoopLemmas` gives that what it takes are the first admitted entries of the
sorted list, however many the limit allows. Afterwards the store moves on, and
what stays true is that the response names finished objects of its containers
(`ResponseOf`), which no batch writes to again, that values are only added
(`OnlyHeld`), that the entries behind the encoder are reported (`Reported`),
and that an entry it is inside holds at least what it held when it was entered
(`InsideEntry`).

*The counters.* `NeverOver` is not inductive: a total read by a request may be
stale when it is written. It is still at most what was added (`Covered`), since
`added` only grows while the request holds it. `ExactAlone` needs to know who
has still to add what: while one request runs alone its own amount is all that
is missing (`SumKept`, `MaxKept`). For `CoreStats`, each container counted has
had a metric of this batch (`Touched`), and in the final loop each container is
counted or still to be visited (`Visiting`); that there are no more of them than
metrics received is what bounds `statsRx.total`.

*Walks over objects.* `Below` is a recursive function of the node. That there is
such a function is shown by building it from the last node backwards
(`BelowExists`; a kid has a higher number than its parent), and from there on
only `BelowUnfolds` is used. For `Seek` the invariant speaks of all that is
below the kids in the rest of the frames (`Ahead`): it shrinks by one node with
each call that is not answered with `SkipDir` (`AheadCalled`), and until a node
is found every node at the goal is in it (`Seeking`). That an answer of
`SkipDir` for a leaf throws away the rest of its parent does no harm, because
`seek` only answers so once it has found one. For the walk proper every frame
stands for a directory that was entered and whose remaining kids have not been
called (`Ranging`), in a list the last ones (`EndOf`); each call but the first
comes from the one parent of its node (`FromAbove`), so a directory that has
just been called has no kid that was; and every kid of a directory entered has
been called, is still to come, or was left out for a leaf beside it
(`Covered`). When the stack is empty nothing is to come. (`WalkCorrect` claims
this only for walks without errors; a walk that meets one goes on all the same.)
That no call is made at any depth under a skipped directory follows at the end:
every call has a chain of parents, each called and answered nil, up to the
start (`DescLeast`).

*Loading a template.* The templates have any shape and depth, and the loader
changes them in place, so the proofs first need what trees are like: `KidsFirst`
is induction from the kids to their parent, `Desc` the nodes below a node;
two of them that meet are below one another (`DescMeet`), and where the keys of
each map are told apart a path leads to one node (`OneNode`). `CutFormed` says
that cutting the parts out leaves a tree. Then there are two invariants.

* `LoadInv`, for `AllMapped`: the parts are those that were cut out; while one
  is walked the specs in its mapping are those that are not `Ahead` any more
  (`Gathered`). That no spec is recorded twice needs that the frames of the
  stack stay clear of one another (`Apart`), and that a spec skipped over holds
  no other (`BelowSpec`). The keys of one source are numbered without a gap, so
  a new alias is new, and the aliases of the first one name the others in
  whatever order they came (`MapShape`, `RecordedIs`).
* `CleanInv`, for `LoadedClean`: compared with the parts as they were cut out,
  every map is still in its place, under its own path, and an entry of it is
  the old one, or a leaf under the key of a spec (`Clean`); the specs that are
  still there (`U`) are in mappings still to be gone through (`Pending`).
  `CleanDelete` and `CleanAssign` show that taking an entry away, replacing a
  leaf or adding one leaves the other places alone. In particular one default
  never takes away the parent of another, in any order: each target has one
  parent, a map, before and after (`OneParentOf`).

`InsertLands` rests on `CleanInv` too. The insertion is a fold over the targets
hit, and `FoldIs` unfolds it: the recursive function under `FoldSet` exists,
by induction over the size of the set (`FoldExists`). Each turn writes one value
at one path (`WriteStep`) and leaves the object as clean as it was, so after all
of them the values asked for, and no others, have changed (`FoldFills`); that
these are the values of the specs with the metric's source, `AllMapped` says.
For `PanicExplained` a spec that makes the walk panic is below the part walked,
as it was ahead (`BrokenExplained`), and one that makes `applyDefaults` panic
cannot lack a parent, so it lacks a default (`DefaultExplained`, `NoDefault`).
The theorems about ordinary templates are about those that are `Plain`: the
code itself gives no such promise for a key with a slash or a spec in a list.

*The life of a process.* In `LifecycleProofs` neither `Exclusive` nor `ErrorIsReal` is inductive. The
lock and `once` exclude one another's callers only together with what each state
of `once` says of all callers (`NewInv`, `RunningInv`, `DoneInv`). That an error
is real needs that `err` is only true of a server that failed, and that
`EnsureStarted` finds none started before it, which in turn is part of what each
stage of the initialisation has reached (`StageInv`). That invariant is the
heart of the refinement too: `CoreAt(stage, m)` says which fields manifest `m`
has set by then, so that at each of the three ends of the function (`Chosen`:
the two recovered panics and the regular one) the settings are `Effective(m)`.
`InvAdvance` treats the stages alike, `KeepsOnce` every step beside them.

*Only model-checked.* Liveness (`RequestAnswered`, `PublishFinishes`,
`PublishReturns`, `InitSettles`, `MergeEnds`) is outside what TLAPS proves. All
other properties of the passing runs are theorems. The inductive invariants
`SeekInv` and `WalkInv` were checked by TLC before they were proved.

## 5. Where the code and its documentation differ

* `depth`: `process.go:601-602` says the depth is not overflowed. The shortened
  slice never reaches the caller, so the list grows past `stats_depth`, holds an
  object twice, and is never limited again, the depth being compared with `==`.
  For the same reason a list whose entries are all out of the span keeps all of
  them, although `README.md:49` promises a list spanning `stats_span`.
* `limit`: `exchange.go:35-36` says `num_stats` is ignored when a range is
  given; the server applies it always.
* `walkerror`: `jsonutil.go:334` and `:348` promise the semantics of
  `filepath.Walk`, which stops at an error of the walk function; `walk` and `Walk`
  drop every error but `SkipDir` and go on. Nor is the order lexical: the maps are
  ranged over in any order, and every run of a walk takes them so. No caller
  answers with an error or depends on the order; `WalkCorrect` says what of the
  semantics of `filepath.Walk` is kept.
* `noserver`: `README.md:57` says that the server is started at the first call.
  A panic in the initialisation, for instance with the older template of the
  repository, is recovered and counts as its end: calls go on without a server.

More, which have no run, as they are seen from the code or the model at once:

* `exchange.go:31` documents `containerName`; no code reads the field, and the
  server answers every request with all containers. `Build` makes a list for
  each container known, and `WindowCorrect` holds of all of them.
* A port that cannot be bound is usually reported to nobody: `publisher.go:145` logs what
  `EnsureStarted` returns, which is `err` as it is when the goroutine that sets it
  has only been started. `ListenFails` may come after `FinishInit`. What is kept is
  `ErrorIsReal`: an error that is reported is one.
* `README.md:82` configures `tstamp_delta`; the code reads `timestamp_delta`, so
  the manifest of the README leaves the delta 0.
* `containersRxRecently` counts, after a batch with regular stats, all known
  containers and not those of the batch: `RecentlyIsKnown` states it.

## 6. What is not modelled

* How a metric's namespace, tags and data determine the record `Publisher` takes
  (`validateMetricWithMap` over real namespaces, `extractCustomMetrics`): string
  handling, of which the model keeps the outcomes (which mapping accepts the
  metric, spec names, values that convert, a slice out of range).
* `ValueProvider.Convert` and the formatters: nothing in the repository calls
  them. The builtin template's own table of metrics: data.
* Decoding of batches beyond success and failure, HTTP, logging, errors that
  `ListenAndServe` returns after it has listened, build files.

Small differences between a definition and its lines, with nothing resting on
them: `dropTooOldPendingMetrics` can slice past the end of an array it has
shortened, which `DropValue` leaves out, as `NothingToDrop` shows that it deletes
nothing; `Cut` shortens the list it has found, the code the one under the key
`stats`, which is another one only where a key of the template is empty.

## 7. The plan

Done: all components but the string handling above, with their runs; and
proofs of every safety property and refinement that a passing run checks.
Left, in this order:

1. The guarantees that `RWMutex` gives on its own, as theorems of that module
   rather than of the composition.
2. The dispatch of a metric to the four mappings and the parsing of custom
   metrics (`process.go:256-412`) as operators checked against a reference.

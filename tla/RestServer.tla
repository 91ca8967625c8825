----------------------------- MODULE RestServer -----------------------------
(***************************************************************************)
(* The REST server: one goroutine per request runs Stats, which builds a   *)
(* response under the read lock and encodes it after the lock is released. *)
(* The response holds references to the publisher's stats objects and spec *)
(* maps, so what the encoder finds in them is what they hold by then.      *)
(* src/server/server.go.                                                   *)
(***************************************************************************)
EXTENDS Publisher, RWMutex, SequencesExt

CONSTANTS
    Requests,   \* the decoded requests: container (which nothing reads), num,
                \* start, end, ranged
    Malformed,  \* a body that is not JSON
    PathOrder   \* the containers in the order the encoder sorts their keys

ASSUME RequestsAssumption ==
    /\ Malformed \notin Requests
    /\ \A r \in Requests : r.num \in Int /\ r.start \in Int /\ r.end \in Int

ASSUME PathOrderAssumption ==
    /\ PathOrder \in Seq(Paths)
    /\ \A p \in Paths : \E i \in DOMAIN PathOrder : PathOrder[i] = p

VARIABLES
    hstate,     \* where a handler is in Stats
    req,        \* its request
    resp,       \* the lists of its response, by container
    next,       \* the entry of the response the encoder is at
    inside,     \* handlers whose encoder is inside that entry
    reading,    \* what the entry held when the encoder came to it
    reported,   \* the custom values encoded, <<object, value>>
    specsSent,  \* the specs encoded, <<container, name>>
    atBuild     \* history: custom when the response was built

handlerVars ==
    <<hstate, req, resp, next, inside, reading, reported, specsSent, atBuild>>

NoResponse == [p \in {} |-> <<>>]

RestInit ==
    /\ hstate = [h \in Handlers |-> "idle"]
    /\ req = [h \in Handlers |-> Malformed]
    /\ resp = [h \in Handlers |-> NoResponse]
    /\ next = [h \in Handlers |-> 1]
    /\ inside = {}
    /\ reading = [h \in Handlers |-> {}]
    /\ reported = [h \in Handlers |-> {}]
    /\ specsSent = [h \in Handlers |-> {}]
    /\ atBuild = [h \in Handlers |-> {}]

(* The body was read; start and end have their defaults.                   *)
Receive(h) ==
    /\ hstate[h] = "idle"
    /\ hstate' = [hstate EXCEPT ![h] = "received"]
    /\ \E r \in Requests \cup {Malformed} : req' = [req EXCEPT ![h] = r]
    /\ UNCHANGED <<resp, next, inside, reading, reported, specsSent, atBuild>>

(* The answer 422.                                                         *)
Reject(h) ==
    /\ hstate[h] = "received" /\ req[h] = Malformed
    /\ hstate' = [hstate EXCEPT ![h] = "idle"]
    /\ UNCHANGED <<req, resp, next, inside, reading, reported, specsSent, atBuild>>

(* RLock is called; the composition says when it returns.                  *)
CallRLock(h) ==
    /\ hstate[h] = "received" /\ req[h] # Malformed
    /\ hstate' = [hstate EXCEPT ![h] = "locking"]
    /\ UNCHANGED <<req, resp, next, inside, reading, reported, specsSent, atBuild>>

-----------------------------------------------------------------------------
(* buildStatsResponse.                                                     *)

(* statsListType.Less: equal stamps are each before the other.             *)
Less(s, t) == objs[s].stamp >= objs[t].stamp

(* Every order sort.Sort may leave a list in.                              *)
Sortings(list) ==
    {[i \in DOMAIN list |-> list[f[i]]] :
       f \in {g \in Bijection(DOMAIN list, DOMAIN list) :
                \A i, j \in DOMAIN list : i < j => Less(list[g[i]], list[g[j]])}}

InRange(s, r) == r.start <= objs[s].stamp /\ objs[s].stamp <= r.end

Full(taken, r) == 0 < r.num /\ r.num <= Len(taken)

(* The loop over a sorted list, turn by turn: what is out of range is      *)
(* skipped, and nothing is taken any more after num_stats objects.         *)
Window(list, r) ==
    LET taken[i \in 0 .. Len(list)] ==
          IF i = 0 THEN <<>>
          ELSE IF InRange(list[i], r) /\ ~Full(taken[i - 1], r)
               THEN Append(taken[i - 1], list[i])
               ELSE taken[i - 1]
    IN  taken[Len(list)]

(* Mutant: stats are built without waiting for the read lock.              *)
BuildUnlocked(h) ==
    /\ hstate[h] = "locking"
    /\ \E order \in [known -> UNION {Sortings(stats[p]) : p \in known}] :
          /\ \A p \in known : order[p] \in Sortings(stats[p])
          /\ resp' = [resp EXCEPT ![h] =
                        [p \in known |-> Window(order[p], req[h])]]
    /\ hstate' = [hstate EXCEPT ![h] = "built"]
    /\ atBuild' = [atBuild EXCEPT ![h] = custom]
    /\ UNCHANGED <<req, next, inside, reading, reported, specsSent>>

Build(h) ==
    /\ hstate[h] = "locking" /\ h \in holding
    /\ \E order \in [known -> UNION {Sortings(stats[p]) : p \in known}] :
          /\ \A p \in known : order[p] \in Sortings(stats[p])
          /\ resp' = [resp EXCEPT ![h] =
                        [p \in known |-> Window(order[p], req[h])]]
    /\ hstate' = [hstate EXCEPT ![h] = "built"]
    /\ atBuild' = [atBuild EXCEPT ![h] = custom]
    /\ UNCHANGED <<req, next, inside, reading, reported, specsSent>>

(* The deferred RUnlock.                                                   *)
CallRUnlock(h) ==
    /\ hstate[h] = "built"
    /\ hstate' = [hstate EXCEPT ![h] = "encoding"]
    /\ UNCHANGED <<req, resp, next, inside, reading, reported, specsSent, atBuild>>

-----------------------------------------------------------------------------
(* The encoder walks the response in key order: for each container its     *)
(* spec map, shared with the publisher, then its stats objects, shared too.*)
Entries(f) ==
    FlattenSeq([i \in DOMAIN PathOrder |->
        LET p == PathOrder[i] IN
        IF p \notin DOMAIN f THEN <<>>
        ELSE <<[path |-> p, obj |-> 0]>>
             \o [j \in DOMAIN f[p] |-> [path |-> p, obj |-> f[p][j]]]])

IsSpec(e) == e.obj = 0

(* Mutant: objects that left the lists are emptied.                        *)
ContentIfListed(e) ==
    IF IsSpec(e) THEN {<<e.path, n>> : n \in specs[e.path]}
    ELSE {c \in custom : c[1] = e.obj /\ e.obj \in Range(stats[e.path])}

(* What the shared map behind an entry holds now.                          *)
Content(e) == IF IsSpec(e) THEN {<<e.path, n>> : n \in specs[e.path]}
                           ELSE {c \in custom : c[1] = e.obj}

Current(h) == Entries(resp[h])[next[h]]

BeginEntry(h) ==
    /\ hstate[h] = "encoding" /\ h \notin inside
    /\ next[h] <= Len(Entries(resp[h]))
    /\ inside' = inside \cup {h}
    /\ reading' = [reading EXCEPT ![h] = Content(Current(h))]
    /\ UNCHANGED <<hstate, req, resp, next, reported, specsSent, atBuild>>

(* What was added while the encoder was inside may have been seen or not.  *)
EndEntry(h) ==
    /\ h \in inside
    /\ \E late \in SUBSET (Content(Current(h)) \ reading[h]) :
          LET seen == reading[h] \cup late
          IN  IF IsSpec(Current(h))
              THEN /\ specsSent' = [specsSent EXCEPT ![h] = @ \cup seen]
                   /\ UNCHANGED reported
              ELSE /\ reported' = [reported EXCEPT ![h] = @ \cup seen]
                   /\ UNCHANGED specsSent
    /\ next' = [next EXCEPT ![h] = @ + 1]
    /\ inside' = inside \ {h}
    /\ reading' = [reading EXCEPT ![h] = {}]
    /\ UNCHANGED <<hstate, req, resp, atBuild>>

Encoded(h) == hstate[h] = "encoding" /\ next[h] > Len(Entries(resp[h]))

(* The response is out and the goroutine ends.                             *)
Respond(h) ==
    /\ Encoded(h)
    /\ hstate' = [hstate EXCEPT ![h] = "idle"]
    /\ req' = [req EXCEPT ![h] = Malformed]
    /\ resp' = [resp EXCEPT ![h] = NoResponse]
    /\ next' = [next EXCEPT ![h] = 1]
    /\ reported' = [reported EXCEPT ![h] = {}]
    /\ specsSent' = [specsSent EXCEPT ![h] = {}]
    /\ atBuild' = [atBuild EXCEPT ![h] = {}]
    /\ UNCHANGED <<inside, reading>>

-----------------------------------------------------------------------------
(* Properties of one response.                                             *)

HasResponse(h) == hstate[h] \in {"built", "encoding"}

SentObjects(h) == UNION {Range(resp[h][p]) : p \in DOMAIN resp[h]}

(* What list is of the container's list src, for the request r.            *)
WindowOf(list, src, r) ==
    LET admitted == {k \in DOMAIN src : InRange(src[k], r)}
        n        == Cardinality(admitted)
    IN  /\ \A i, j \in DOMAIN list :
              i < j => objs[list[i]].stamp >= objs[list[j]].stamp
        /\ Len(list) = IF 0 < r.num /\ r.num < n THEN r.num ELSE n
        /\ \A i \in DOMAIN list :
              /\ \E k \in admitted : list[i] = src[k]
              /\ \A k \in admitted :
                    \/ src[k] \in Range(list)
                    \/ objs[src[k]].stamp <= objs[list[i]].stamp

(* While the read lock is held the response agrees with the store: each    *)
(* list is sorted most recent first, lies in the range, has as many        *)
(* objects as the limit allows, and no admitted object that was left out   *)
(* is more recent than one that was taken (buildStatsResponse).            *)
WindowCorrect ==
    \A h \in Handlers : hstate[h] = "built" =>
        /\ DOMAIN resp[h] = known
        /\ \A p \in known : WindowOf(resp[h][p], stats[p], req[h])

(* Although it is encoded without a lock, a finished response reports all  *)
(* values its objects held when it was built, and only values they hold.   *)
NothingUnreported ==
    \A h \in Handlers : Encoded(h) =>
        /\ {c \in atBuild[h] : c[1] \in SentObjects(h)} \subseteq reported[h]
        /\ reported[h] \subseteq custom

(* A finished response has the spec of every value that was there when it  *)
(* was built; for values attached later this is not so.                    *)
SpecsReported ==
    \A h \in Handlers : Encoded(h) =>
        \A c \in reported[h] \cap atBuild[h] :
            <<c[2].path, c[2].name>> \in specsSent[h]

(* Batches that run while a response is encoded change nothing in the      *)
(* objects it refers to but the custom metrics, even in those that have    *)
(* left the lists meanwhile.                                               *)
ResponseFrozen ==
    [][\A h \in Handlers : HasResponse(h)' =>
          \A s \in SentObjects(h) : objs'[s] = objs[s]]_<<objs, handlerVars>>

(* exchange.StatsRequest: the limit is ignored "If start and end time are  *)
(* specified".                                                             *)
NoLimitOnRange ==
    \A h \in Handlers : hstate[h] = "built" /\ req[h].ranged =>
        \A p \in DOMAIN resp[h] : \A s \in Listed(p) :
            InRange(s, req[h]) => s \in Range(resp[h][p])
=============================================================================

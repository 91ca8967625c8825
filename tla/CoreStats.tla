----------------------------- MODULE CoreStats -----------------------------
(***************************************************************************)
(* The counters of coreStats, kept beside a batch: which containers and    *)
(* which stats it has touched, added up when it ends.                      *)
(* src/publisher/process.go.                                               *)
(***************************************************************************)
EXTENDS Publisher

CONSTANT MaxReceived  \* bound: metrics received before the plugin is unloaded

VARIABLES
    dockers,   \* stats_dockersPcsdMap
    statsOf,   \* stats_statsPcsdMap
    metricsRx, containersRx, statsRx  \* Total, Recently and Max of each

countVars == <<dockers, statsOf, metricsRx, containersRx, statsRx>>

StatsInit ==
    /\ Init /\ dockers = {} /\ statsOf = {}
    /\ metricsRx = [total |-> 0, recently |-> 0]
    /\ containersRx = [max |-> 0, recently |-> 0]
    /\ statsRx = [max |-> 0, recently |-> 0, total |-> 0]

Begin == Lock /\ metricsRx.total < MaxReceived /\ UNCHANGED countVars

(* Mutant: containers of custom metrics are not recorded.                  *)
TouchesNative(m) == m.native

(* fetchObjectForDocker records the container.                             *)
Touches(m) == m.native \/ IsCustom(m)

Count(m) ==
    /\ Process(m)
    /\ dockers' = IF Touches(m) THEN dockers \cup {m.path} ELSE dockers
    /\ statsOf' = IF (m.native \/ IsCustom(m)) /\ "stats" \in m.hits
                  THEN statsOf \cup {m.path} ELSE statsOf
    /\ UNCHANGED <<metricsRx, containersRx, statsRx>>

CountNone == BeginMerge /\ UNCHANGED countVars

(* Mutant: the final loop does not record what it visits.                  *)
VisitedNone(p) == {}

(* mergeStatsForDocker fetches the container once more, which records it.  *)
Visited(p) == {p}

CountMerge(p) ==
    /\ Merge(p)
    /\ dockers' = dockers \cup Visited(p)
    /\ UNCHANGED <<statsOf, metricsRx, containersRx, statsRx>>

AtLeast(a, b) == IF a > b THEN a ELSE b

(* The end of processMetrics0; the context of the call is dropped.         *)
Finish ==
    /\ EndCustomOnly \/ EndMerge
    /\ LET n == Cardinality(dockers)
           s == Cardinality(statsOf)
       IN  /\ containersRx' = [max      |-> AtLeast(n, containersRx.max),
                               recently |-> n]
           /\ statsRx' = [max      |-> AtLeast(s, statsRx.max),
                          recently |-> s,
                          total    |-> statsRx.total + s]
    /\ metricsRx' = [total |-> metricsRx.total + rx, recently |-> rx]
    /\ dockers' = {} /\ statsOf' = {}

(* The process of a plugin that is unloaded ends.                          *)
Unload ==
    /\ pc = "idle" /\ metricsRx.total >= MaxReceived
    /\ pc' = "crashed"
    /\ UNCHANGED <<batchVars, objs, known, stats, labelled, customVars, countVars>>

(* A new process counts from zero.                                         *)
CountAfresh ==
    /\ Restart
    /\ dockers' = {} /\ statsOf' = {}
    /\ metricsRx' = [total |-> 0, recently |-> 0]
    /\ containersRx' = [max |-> 0, recently |-> 0]
    /\ statsRx' = [max |-> 0, recently |-> 0, total |-> 0]

StatsNext ==
    \/ Begin \/ CountNone \/ Finish \/ Unload \/ CountAfresh
    \/ \E m \in Metrics : Count(m)
    \/ \E p \in Paths : CountMerge(p)

StatsSpec == StatsInit /\ [][StatsNext]_<<vars, countVars>>

-----------------------------------------------------------------------------
(* Properties.                                                             *)

(* containersRxRecently is not what its name says: after a batch with      *)
(* regular stats it is the number of all containers known, since the final *)
(* loop fetches each of them; only a batch of custom metrics alone counts  *)
(* the containers it named.                                                *)
RecentlyIsKnown ==
    [][Finish => containersRx'.recently =
                    IF regular THEN Cardinality(known) ELSE Cardinality(dockers)
      ]_<<vars, countVars>>

(* The counters agree with the store: stats are counted for containers     *)
(* that are known, each container that a batch creates is counted, no batch*)
(* touched more containers than are known, and each batch that counted     *)
(* stats of a container has an object for it.                              *)
CountersConsistent ==
    /\ statsOf \subseteq dockers /\ dockers \subseteq known
    /\ firstTime \subseteq dockers
    /\ \A p \in statsOf : temp[p] # 0
    /\ statsRx.max <= containersRx.max
    /\ containersRx.max <= Cardinality(known)
    /\ statsRx.total <= metricsRx.total
=============================================================================

--------------------------- MODULE CustomDelivery ---------------------------
(***************************************************************************)
(* What the publisher promises about custom metric values, without lists,  *)
(* objects or batches: a value that was queued waits until it is delivered *)
(* into stats stamped later than itself, once, and is not lost before that *)
(* unless the process dies and everything is forgotten.                    *)
(***************************************************************************)
EXTENDS Integers

CONSTANTS Values,   \* the values, each with a timestamp ts
          Stamps    \* the stamps a stats object may carry

VARIABLES queued,    \* waiting for later stats
          delivered  \* <<value, stamp of the stats it went into>>

vars == <<queued, delivered>>

Seen == queued \cup {d[1] : d \in delivered}

Init == queued = {} /\ delivered = {}

(* Values nobody has seen before are queued together.                      *)
Queue ==
    /\ queued \subseteq queued' /\ queued' \subseteq Values
    /\ (queued' \ queued) \cap Seen = {}
    /\ UNCHANGED delivered

(* Some of the queued values go each into one stats object stamped later.  *)
Deliver ==
    \E S \in SUBSET queued : \E f \in [S -> Stamps] :
        /\ \A v \in S : v.ts < f[v]
        /\ queued' = queued \ S
        /\ delivered' = delivered \cup {<<v, f[v]>> : v \in S}

(* The process died.                                                       *)
Forget == queued' = {} /\ delivered' = {}

Next == Queue \/ Deliver \/ Forget

Spec == Init /\ [][Next]_vars
=============================================================================

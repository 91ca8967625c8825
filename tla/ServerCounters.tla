--------------------------- MODULE ServerCounters ---------------------------
(***************************************************************************)
(* The counters of serverStats.  Every request updates them at the end of  *)
(* buildStatsResponse, under the read lock, so that requests which run at  *)
(* the same time interleave their plain reads and writes.                  *)
(* src/server/server.go.                                                   *)
(***************************************************************************)
EXTENDS Integers

CONSTANTS
    Handlers,    \* request goroutines
    Amounts,     \* how many objects one response may drop or transmit
    MaxRequests  \* bound: requests served

ASSUME CountersAssumption == Amounts \subseteq Nat /\ MaxRequests \in Nat

(* statsDd*, updated first, and statsTx*.                                  *)
Kinds == {"dd", "tx"}

VARIABLES
    pc,        \* <<kind, step>> a handler is at, or <<"", "idle">>
    amount,    \* stats_statsDd and stats_statsTx of its response
    seen,      \* what it read last from the counter it updates
    counters,  \* server.stats
    requests,  \* how many requests began
    served,    \* history: the amounts of all of them
    begun,     \* history: the sums of their amounts
    added,     \* history: the sums of the amounts added to the totals
    overlap    \* history: two requests were at it at the same time

histVars == <<requests, served, begun, overlap>>

vars == <<pc, amount, seen, counters, added, histVars>>

Idle == <<"", "idle">>

Busy == {h \in Handlers : pc[h] # Idle}

Steps == {"compare", "max", "last", "read", "write"}

NoCounts == [k \in Kinds |-> [max |-> 0, last |-> 0, total |-> 0]]

NoAmounts == [k \in Kinds |-> 0]

Init ==
    /\ pc = [h \in Handlers |-> Idle]
    /\ amount = [h \in Handlers |-> NoAmounts]
    /\ seen = [h \in Handlers |-> 0]
    /\ counters = NoCounts /\ added = NoAmounts
    /\ requests = 0 /\ served = {} /\ begun = NoAmounts /\ overlap = FALSE

(* A response is built.                                                    *)
Begin(h) ==
    /\ pc[h] = Idle /\ requests < MaxRequests
    /\ pc' = [pc EXCEPT ![h] = <<"dd", "compare">>]
    /\ \E a \in [Kinds -> Amounts] :
          /\ amount' = [amount EXCEPT ![h] = a]
          /\ served' = served \cup {a}
          /\ begun' = [k \in Kinds |-> begun[k] + a[k]]
    /\ requests' = requests + 1
    /\ overlap' = (overlap \/ Busy # {})
    /\ UNCHANGED <<seen, counters, added>>

Step(h, k, from, to) ==
    /\ pc[h] = <<k, from>> /\ pc' = [pc EXCEPT ![h] = to]
    /\ UNCHANGED <<amount, histVars>>

(* if stats_statsDd > server.stats.statsDdMax                              *)
Compare(h, k) ==
    /\ Step(h, k, "compare",
            IF amount[h][k] > counters[k].max THEN <<k, "max">> ELSE <<k, "last">>)
    /\ UNCHANGED <<seen, counters, added>>

SetMax(h, k) ==
    /\ Step(h, k, "max", <<k, "last">>)
    /\ counters' = [counters EXCEPT ![k].max = amount[h][k]]
    /\ UNCHANGED <<seen, added>>

SetLast(h, k) ==
    /\ Step(h, k, "last", <<k, "read">>)
    /\ counters' = [counters EXCEPT ![k].last = amount[h][k]]
    /\ UNCHANGED <<seen, added>>

(* server.stats.statsDdTotal += stats_statsDd: a read and a write.         *)
ReadTotal(h, k) ==
    /\ Step(h, k, "read", <<k, "write">>)
    /\ seen' = [seen EXCEPT ![h] = counters[k].total]
    /\ UNCHANGED <<counters, added>>

(* Mutants: one more than there was; the last amount instead of its own.   *)
NewTotalMore(h, k) == seen[h] + amount[h][k] + 1

NewTotalLess(h, k) == amount[h][k]

NewTotal(h, k) == seen[h] + amount[h][k]

WriteTotal(h, k) ==
    /\ Step(h, k, "write", IF k = "dd" THEN <<"tx", "compare">> ELSE Idle)
    /\ counters' = [counters EXCEPT ![k].total = NewTotal(h, k)]
    /\ added' = [added EXCEPT ![k] = @ + amount[h][k]]
    /\ UNCHANGED seen

(* The plugin is loaded again.                                             *)
Restart ==
    /\ Busy = {} /\ requests > 0
    /\ counters' = NoCounts /\ added' = NoAmounts
    /\ requests' = 0 /\ served' = {} /\ begun' = NoAmounts /\ overlap' = FALSE
    /\ UNCHANGED <<pc, amount, seen>>

Next ==
    \/ \E h \in Handlers : Begin(h)
    \/ \E h \in Handlers, k \in Kinds :
          \/ Compare(h, k) \/ SetMax(h, k) \/ SetLast(h, k)
          \/ ReadTotal(h, k) \/ WriteTotal(h, k)
    \/ Restart

Spec == Init /\ [][Next]_vars

-----------------------------------------------------------------------------
(* Properties.                                                             *)

Had(k) == {a[k] : a \in served}

(* Whatever interleavings lose, the totals never say more than what has    *)
(* been added to them, and what the counters say was last and most is what *)
(* some request had.                                                       *)
NeverOver ==
    \A k \in Kinds :
        /\ counters[k].total <= added[k]
        /\ {counters[k].max, counters[k].last} \subseteq Had(k) \cup {0}

(* Requests that did not overlap are added exactly.                      *)
ExactAlone ==
    Busy = {} /\ ~overlap =>
        \A k \in Kinds : /\ counters[k].total = begun[k]
                         /\ \A n \in Had(k) : n <= counters[k].max
=============================================================================

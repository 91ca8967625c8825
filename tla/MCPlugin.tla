------------------------------ MODULE MCPlugin ------------------------------
(* Small instances of Plugin for TLC.                                      *)
EXTENDS Plugin

Stats(p, times, target) ==
    {[native |-> TRUE, path |-> p, ts |-> t, hits |-> {target},
      specs |-> <<>>, valid |-> {}, overlong |-> FALSE] : t \in times}

App(p, times, names, validNames) ==
    {[native |-> FALSE, path |-> p, ts |-> t, hits |-> {}, specs |-> names,
      valid |-> validNames, overlong |-> FALSE] : t \in times}

Request(p, num, from, to) ==
    [container |-> p, num |-> num, start |-> from, end |-> to, ranged |-> TRUE]

\* Stats of different kinds before and after a custom metric of two specs,
\* one of which has no value that converts.
PluginMetrics ==
    Stats("p", {0}, "stats") \cup Stats("p", {2}, "fs")
    \cup App("p", {1}, <<"b", "a">>, {"a"})

\* All there is; the most recent one; the most recent of the early ones.
PluginRequests ==
    {Request("p", 0, 0, 3), Request("p", 1, 0, 3), Request("p", 1, 0, 1)}

OnePath == <<"p">>

\* Two containers and a request with a range and a limit.
TwoMetrics == Stats("p", {0, 2}, "stats") \cup Stats("q", {0}, "stats")

TwoRequests == {Request("p", 1, 0, 3)}

TwoPaths == <<"p", "q">>

\* Liveness: one kind of batch and one kind of request are enough to keep
\* the lock busy.
BusyMetrics == Stats("p", {2}, "stats") \cup App("p", {1}, <<"a">>, {"a"})

BusyRequests == {Request("p", 0, 0, 3)}
=============================================================================

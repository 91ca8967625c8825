---------------------------- MODULE MCPublisher ----------------------------
(* Small instances of Publisher for TLC.                                   *)
EXTENDS Publisher

\* The kinds of metric a batch may hold, each with the timestamps given.
Plain(p, times, hits) ==
    {[native |-> TRUE, path |-> p, ts |-> t, hits |-> hits, specs |-> <<>>,
      valid |-> {}, overlong |-> FALSE] : t \in times}

App(p, times, hits, specNames, validNames, long) ==
    {[native |-> FALSE, path |-> p, ts |-> t, hits |-> hits,
      specs |-> specNames, valid |-> validNames, overlong |-> long]
         : t \in times}

\* Two containers; stamps that go back and forth and span more than the
\* span allowed; a custom metric that opens a container but merges nothing.
StoreMetrics ==
    Plain("p", {0, 2, 5}, {"stats"})
    \cup Plain("q", {5}, {"fs", "docker"})
    \cup App("q", {2}, {"docker"}, <<"a">>, {}, FALSE)

\* Custom values before, between and after the stats of their container,
\* in half seconds; a map of two values under one name tag; a value that
\* does not convert; a custom metric taken for file system stats; a foreign
\* metric and one that is taken for file system stats or panics.
CustomMetrics ==
    Plain("p", {2, 5}, {"stats"}) \cup Plain("q", {4}, {"iface"})
    \cup App("p", {3}, {}, <<"a">>, {"a"}, FALSE)
    \cup App("p", {4}, {"fs"}, <<"a">>, {"a"}, FALSE)
    \cup App("p", {2}, {"docker"}, <<"b", "a", "a">>, {"a"}, FALSE)
    \cup App("q", {3}, {"docker"}, <<"b">>, {}, FALSE)
    \cup App("p", {3}, {}, <<>>, {}, FALSE)
    \cup App("p", {3}, {"fs"}, <<"a">>, {}, TRUE)
=============================================================================

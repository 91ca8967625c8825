---------------------------- MODULE MCLifecycle ----------------------------
(* Small instances of Lifecycle for TLC.                                   *)
EXTENDS Lifecycle

Ticks == "0" :> 0 @@ "10m" :> 10 @@ "1h" :> 60

\* The builtin template; a file that cannot be read; the older template of
\* the repository, whose stats have no interfaces.
Files == "builtin" :> "loaded" @@ "missing" :> "error"
         @@ "metric_tmpl_old" :> "panic"

Task(span, file) ==
    "stats_depth" :> ConfigInt(0) @@ "server_port" :> ConfigInt(8777)
    @@ "stats_span" :> ConfigStr(span) @@ "export_tmpl_file" :> ConfigStr(file)

\* The task of the README; one with another span and a delta; an address that
\* is a number; two templates that fail, one of them with a span that does not
\* parse; a port that snapd's policy refuses.
Tasks ==
    { Task("10m", "builtin") @@ "server_addr" :> ConfigStr("127.0.0.1"),
      "stats_span" :> ConfigStr("1h") @@ "timestamp_delta" :> ConfigStr("1h"),
      "server_addr" :> ConfigInt(1),
      Task("soon", "missing"),
      Task("1h", "metric_tmpl_old"),
      "server_port" :> ConfigStr("http") }

\* Every call comes with the older template of the repository.
FewTasks == {Task("10m", "metric_tmpl_old")}
=============================================================================

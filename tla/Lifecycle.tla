----------------------------- MODULE Lifecycle -----------------------------
(***************************************************************************)
(* The life of a plugin process: calls of Publish, each on a goroutine of  *)
(* its own, the initialisation that core.once runs in the first of them,   *)
(* the server it starts, and the ways the process ends.                    *)
(* src/publisher/publisher.go, src/server/server.go, src/main.go.          *)
(*                                                                         *)
(* A manifest maps the keys it gives to values [kind, val].                *)
(***************************************************************************)
EXTENDS Integers, FiniteSets, TLC

CONSTANTS
    Callers,    \* goroutines that call Publish
    Manifests,  \* the configurations of tasks
    Durations,  \* the texts that time.ParseDuration accepts, and their ticks
    Templates,  \* what loading a template file comes to, by file name
    DefSpan,    \* defStatsSpan in ticks
    Unset       \* model value: not initialised

ASSUME LifecycleAssumption ==
    /\ DefSpan \in Int
    /\ \A t \in DOMAIN Durations : Durations[t] \in Int
    /\ \A f \in DOMAIN Templates : Templates[f] \in {"loaded", "error", "panic"}

(* A batch: of containers, of other metrics only, or not a batch at all.   *)
Contents == {"containers", "foreign", "undecodable", "unknownType"}

VARIABLES
    alive,     \* the process runs
    once,      \* core.once: "new", "running" or "done"
    pc,        \* where each caller is
    call,      \* its arguments
    initErr,   \* the error ensureInitialized returned to it
    core,      \* the configured fields of core
    server,    \* the server's goroutine and where it listens
    err,       \* the variable err that EnsureStarted shares with it
    holder,    \* callers that hold the write lock
    portBusy,  \* another program listens on the port
    used       \* history: settings of the batches processed

shared == <<alive, once, core, server, err, holder, portBusy, used>>
vars == <<shared, pc, call, initErr>>

-----------------------------------------------------------------------------
(* ConfigMap.                                                              *)

ConfigInt(n) == [kind |-> "int", val |-> n]
ConfigStr(s) == [kind |-> "str", val |-> s]

(* The type assertion of GetInt and GetStr does not panic.                 *)
Typed(m, key, kind) == key \in DOMAIN m => m[key].kind = kind

Get(m, key, default) == IF key \in DOMAIN m THEN m[key].val ELSE default

ParseDuration(text, default) ==
    IF text \in DOMAIN Durations THEN Durations[text] ELSE default

(* The rules of GetConfigPolicy, with their defaults.  There is none for   *)
(* server_addr.                                                            *)
Policy ==
    "server_port" :> ConfigInt(8777) @@ "stats_depth" :> ConfigInt(10)
    @@ "stats_span" :> ConfigStr("10m") @@ "export_tmpl_file" :> ConfigStr("builtin")
    @@ "timestamp_delta" :> ConfigStr("0")

(* snapd admits a manifest that keeps the rules, and fills in the rest.    *)
Admitted ==
    {m @@ Policy :
       m \in {n \in Manifests :
                \A key \in DOMAIN Policy : Typed(n, key, Policy[key].kind)}}

-----------------------------------------------------------------------------
NewCore == [depth |-> 10, span |-> DefSpan, delta |-> 0, template |-> "none"]

NoServer == [state |-> "none", addr |-> "", port |-> 0]

NoCall == [config |-> Policy, content |-> "foreign"]

(* main: a new process.                                                    *)
FreshProcess ==
    /\ once = "new" /\ core = NewCore /\ server = NoServer
    /\ err = FALSE /\ holder = {} /\ used = {}

Init ==
    /\ alive = TRUE /\ FreshProcess /\ portBusy = FALSE
    /\ pc = [c \in Callers |-> "idle"]
    /\ call = [c \in Callers |-> NoCall]
    /\ initErr = [c \in Callers |-> FALSE]

Goto(c, from, to) == pc[c] = from /\ pc' = [pc EXCEPT ![c] = to]

(* A panic, or logger.Fatalf: every goroutine is gone.                     *)
Die ==
    /\ alive' = FALSE
    /\ pc' = [c \in Callers |-> "idle"]
    /\ call' = [c \in Callers |-> NoCall]
    /\ initErr' = [c \in Callers |-> FALSE]
    /\ once' = "new" /\ core' = NewCore /\ server' = NoServer
    /\ err' = FALSE /\ holder' = {} /\ used' = {}
    /\ UNCHANGED portBusy

-----------------------------------------------------------------------------
(* Publish up to the batch: ensureInitialized.                             *)

Publish(c) ==
    /\ alive /\ Goto(c, "idle", "once")
    /\ \E m \in Admitted, content \in Contents :
          call' = [call EXCEPT ![c] = [config |-> m, content |-> content]]
    /\ UNCHANGED <<shared, initErr>>

(* once.Do: the first caller runs the function.                            *)
EnterOnce(c) ==
    /\ once = "new" /\ Goto(c, "once", "depth")
    /\ once' = "running"
    /\ UNCHANGED <<alive, call, initErr, core, server, err, holder, portBusy,
                   used>>

(* Mutant: callers do not wait for the one that initialises.               *)
PassOnceEarly(c) ==
    /\ once # "new" /\ Goto(c, "once", "decode")
    /\ UNCHANGED <<shared, call, initErr>>

(* The others wait until it is done.                                       *)
PassOnce(c) ==
    /\ once = "done" /\ Goto(c, "once", "decode")
    /\ UNCHANGED <<shared, call, initErr>>

Config(c) == call[c].config

(* Mutant: the next caller tries again.                                    *)
RecoverRetry(c, stage) ==
    /\ Goto(c, stage, "decode") /\ once' = "new"
    /\ UNCHANGED <<alive, call, initErr, core, server, err, holder, portBusy,
                   used>>

(* A panic is recovered inside the function: it is done all the same.      *)
Recover(c, stage) ==
    /\ Goto(c, stage, "decode") /\ once' = "done"
    /\ UNCHANGED <<alive, call, initErr, core, server, err, holder, portBusy,
                   used>>

SetCore(c, from, to, field, value) ==
    /\ Goto(c, from, to)
    /\ core' = [core EXCEPT ![field] = value]
    /\ UNCHANGED <<alive, once, call, initErr, server, err, holder, portBusy,
                   used>>

DepthOf(m) == Get(m, "stats_depth", 10)

ReadDepth(c) == SetCore(c, "depth", "listen", "depth", DepthOf(Config(c)))

(* serverPort and serverAddr.                                              *)
PortOf(m) == Get(m, "server_port", 8777)

AddrOf(m) == Get(m, "server_addr", "")

AddrOk(m) == Typed(m, "server_addr", "str")

ReadListen(c) ==
    /\ AddrOk(Config(c)) /\ Goto(c, "listen", "span")
    /\ UNCHANGED <<shared, call, initErr>>

ReadListenPanics(c) == ~AddrOk(Config(c)) /\ Recover(c, "listen")

SpanOf(m) == ParseDuration(Get(m, "stats_span", "10m"), DefSpan)

ReadSpan(c) == SetCore(c, "span", "template", "span", SpanOf(Config(c)))

Loading(m) == Templates[Get(m, "export_tmpl_file", "builtin")]

LoadMetricTemplate(c) ==
    /\ Loading(Config(c)) = "loaded"
    /\ SetCore(c, "template", "delta", "template", "loaded")

(* An unreadable file, or no JSON: logger.Fatalf.                          *)
LoadFails(c) == pc[c] = "template" /\ Loading(Config(c)) = "error" /\ Die

(* JSON of another shape: a type assertion panics.                         *)
LoadPanics(c) == Loading(Config(c)) = "panic" /\ Recover(c, "template")

DeltaOf(m) == ParseDuration(Get(m, "timestamp_delta", "0"), 0)

ReadDelta(c) == SetCore(c, "delta", "serve", "delta", DeltaOf(Config(c)))

(* EnsureStarted: the goroutine is started, at most once in a process.     *)
EnsureStarted(c) ==
    /\ Goto(c, "serve", "started")
    /\ server' = IF server.state # "none" THEN server
                 ELSE [state |-> "starting",
                       addr  |-> AddrOf(Config(c)), port  |-> PortOf(Config(c))]
    /\ UNCHANGED <<alive, once, call, initErr, core, err, holder, portBusy,
                   used>>

(* Mutant: no answer yet counts as an error.                               *)
ServeErrorEarly == server.state # "listening"

(* What "return err" finds, while the goroutine may be about to set it.    *)
ServeError == err

FinishInit(c) ==
    /\ Goto(c, "started", "decode") /\ once' = "done"
    /\ initErr' = [initErr EXCEPT ![c] = ServeError]
    /\ UNCHANGED <<alive, call, core, server, err, holder, portBusy, used>>

-----------------------------------------------------------------------------
(* The rest of Publish.                                                    *)

Return(c, from) ==
    /\ Goto(c, from, "idle")
    /\ call' = [call EXCEPT ![c] = NoCall]
    /\ initErr' = [initErr EXCEPT ![c] = FALSE]

(* initErr was logged; the content is of another type, or does not decode. *)
Decline(c) ==
    /\ call[c].content \in {"undecodable", "unknownType"}
    /\ Return(c, "decode")
    /\ UNCHANGED shared

Decode(c) ==
    /\ call[c].content \in {"containers", "foreign"}
    /\ Goto(c, "decode", "locking")
    /\ UNCHANGED <<shared, call, initErr>>

Lock(c) ==
    /\ holder = {} /\ Goto(c, "locking", "processing")
    /\ holder' = {c}
    /\ UNCHANGED <<alive, once, call, initErr, core, server, err, portBusy, used>>

Settings ==
    [depth  |-> core.depth, span |-> core.span, delta |-> core.delta,
     template |-> core.template, addr |-> server.addr, port |-> server.port]

(* Without a template the first container object is a nil map.             *)
NeedsTemplate(c) == call[c].content = "containers" /\ core.template = "none"

(* Mutant: the lock is kept after a batch of no container.                 *)
ProcessKeepingLock(c) ==
    /\ ~NeedsTemplate(c) /\ Return(c, "processing")
    /\ holder' = IF call[c].content = "foreign" THEN holder ELSE {}
    /\ used' = used \cup {Settings}
    /\ UNCHANGED <<alive, once, core, server, err, portBusy>>

(* processMetrics, and the deferred Unlock.                                *)
ProcessMetrics(c) ==
    /\ ~NeedsTemplate(c) /\ Return(c, "processing")
    /\ holder' = {} /\ used' = used \cup {Settings}
    /\ UNCHANGED <<alive, once, core, server, err, portBusy>>

(* Publish recovers to print the stack and panics again.                   *)
ProcessPanics(c) == pc[c] = "processing" /\ NeedsTemplate(c) /\ Die

-----------------------------------------------------------------------------
(* The goroutine of ServerFunc.                                            *)

Listen ==
    /\ server.state = "starting" /\ ~portBusy
    /\ server' = [server EXCEPT !.state = "listening"]
    /\ UNCHANGED <<alive, once, core, err, holder, portBusy, used, pc, call,
                   initErr>>

(* Mutant: a port that is taken is tried again and again.                  *)
ListenRetries ==
    /\ server.state = "starting" /\ portBusy
    /\ UNCHANGED vars

(* ListenAndServe returns and err is set: by then nobody may look at it.   *)
ListenFails ==
    /\ server.state = "starting" /\ portBusy
    /\ server' = [server EXCEPT !.state = "failed"] /\ err' = TRUE
    /\ UNCHANGED <<alive, once, core, holder, portBusy, used, pc, call,
                   initErr>>

(* Another program, such as the process of a plugin not yet unloaded,      *)
(* takes the port or gives it back.                                        *)
OtherProgram ==
    /\ server.state # "listening" /\ portBusy' = ~portBusy
    /\ UNCHANGED <<alive, once, core, server, err, holder, used, pc, call,
                   initErr>>

(* snapd unloads the plugin, and loads it again.                           *)
Unload == alive /\ Die

Load ==
    /\ ~alive /\ alive' = TRUE
    /\ UNCHANGED <<once, core, server, err, holder, portBusy, used, pc, call,
                   initErr>>

-----------------------------------------------------------------------------
Initialise(c) ==
    \/ EnterOnce(c) \/ PassOnce(c)
    \/ ReadDepth(c) \/ ReadListen(c) \/ ReadListenPanics(c) \/ ReadSpan(c)
    \/ LoadMetricTemplate(c) \/ LoadFails(c) \/ LoadPanics(c) \/ ReadDelta(c)
    \/ EnsureStarted(c) \/ FinishInit(c)

Handle(c) ==
    Decline(c) \/ Decode(c) \/ Lock(c) \/ ProcessMetrics(c) \/ ProcessPanics(c)

ServerFunc == Listen \/ ListenFails

Next ==
    \/ \E c \in Callers : Publish(c) \/ Initialise(c) \/ Handle(c)
    \/ ServerFunc \/ OtherProgram \/ Unload \/ Load

(* A goroutine that can run is scheduled.  The lock serves the writers     *)
(* that wait for it in turn.                                               *)
Fairness ==
    /\ \A c \in Callers : WF_vars(Initialise(c) \/ Handle(c)) /\ SF_vars(Lock(c))
    /\ WF_vars(ServerFunc)

Spec == Init /\ [][Next]_vars /\ Fairness

-----------------------------------------------------------------------------
(* Properties.                                                             *)

Stages == {"depth", "listen", "span", "template", "delta", "serve", "started"}

(* core.once and the lock do what they are there for: one goroutine at     *)
(* most initialises, one at most processes a batch, and none of the latter *)
(* sees an initialisation that is not over, however it ended.              *)
Exclusive ==
    \A c, d \in Callers :
        /\ pc[c] \in Stages => once = "running" /\ (pc[d] \in Stages => c = d)
        /\ pc[c] \in {"decode", "locking", "processing"} => once = "done"
        /\ pc[c] = "processing" <=> c \in holder
        /\ c \in holder /\ d \in holder => c = d

(* What one manifest leads to.  An initialisation that panics leaves what  *)
(* it did not come to as NewCore made it, and the server not started.      *)
Effective(m) ==
    LET template == AddrOk(m) /\ Loading(m) = "loaded"
    IN  [depth    |-> DepthOf(m),
         span     |-> IF AddrOk(m) THEN SpanOf(m) ELSE DefSpan,
         delta    |-> IF template THEN DeltaOf(m) ELSE 0,
         template |-> IF template THEN "loaded" ELSE "none",
         addr     |-> IF template THEN AddrOf(m) ELSE "",
         port     |-> IF template THEN PortOf(m) ELSE 0]

ASSUME UnsetAssumption == \A m \in Admitted : Effective(m) # Unset

(* README: the configuration of the first call is kept for all further     *)
(* ones.  The steps of ensureInitialized, with calls waiting, passing and  *)
(* processing batches beside it, implement one choice of the settings of   *)
(* one manifest, under which every batch of the process is processed.      *)
FirstConfig == INSTANCE Setup
               WITH Manifests <- Admitted,
                    settings <- IF once = "done" THEN Settings ELSE Unset

ImplementsSetup == FirstConfig!Spec

(* An error that Publish logs is real: the server of this process does not *)
(* listen and never will (EnsureStarted reads err beside the goroutine).   *)
ErrorIsReal == \A c \in Callers : initErr[c] => server.state = "failed"

(* Whoever panics, declines or waits, every call of Publish returns or     *)
(* ends with the process.                                                  *)
PublishReturns == \A c \in Callers : pc[c] # "idle" ~> pc[c] = "idle"

(* Once a call has come the initialisation ends for good: with a server    *)
(* that listens or has failed, without one, or with the process.           *)
Settled == once = "done" /\ server.state # "starting"

InitSettles == (\E c \in Callers : pc[c] = "once") ~> (Settled \/ ~alive)

(* README: the "REST server is started at first call to PublishMetrics()". *)
ServerStarted == once = "done" => server.state # "none"
=============================================================================

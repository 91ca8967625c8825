-------------------------- MODULE LifecycleProofs --------------------------
(***************************************************************************)
(* The start-up of a plugin process, for any number of callers and any     *)
(* manifests: one of them initialises, an error it reports is real, and    *)
(* all batches are processed under the settings of one manifest.           *)
(***************************************************************************)
EXTENDS Lifecycle, TLAPS

Waiting == {"idle", "once"}

Over == {"decode", "locking", "processing"}

Calls == [config : Admitted \cup {Policy}, content : Contents]

TypeInv ==
    /\ pc \in [Callers -> Waiting \cup Stages \cup Over]
    /\ call \in [Callers -> Calls]
    /\ initErr \in [Callers -> BOOLEAN]
    /\ once \in {"new", "running", "done"} /\ err \in BOOLEAN
    /\ server = [state |-> server.state, addr |-> server.addr,
                 port |-> server.port]
    /\ holder \subseteq Callers
    /\ \A c \in Callers : pc[c] # "idle" => Config(c) \in Admitted

(* What the initialisation has done with manifest m when it is at a stage. *)
CoreAt(stage, m) ==
    [depth    |-> IF stage = "depth" THEN 10 ELSE DepthOf(m),
     span     |-> IF stage \in {"depth", "listen", "span"} THEN DefSpan
                  ELSE SpanOf(m),
     delta    |-> IF stage \in {"serve", "started"} THEN DeltaOf(m) ELSE 0,
     template |-> IF stage \in {"delta", "serve", "started"} THEN "loaded"
                  ELSE "none"]

PassedBefore(stage, m) ==
    /\ stage \notin {"depth", "listen"} => AddrOk(m)
    /\ stage \in {"delta", "serve", "started"} => Loading(m) = "loaded"

ServerAt(stage, m) ==
    /\ stage # "started" => server = NoServer
    /\ stage = "started" => server.addr = AddrOf(m) /\ server.port = PortOf(m)

Reached(stage, m) ==
    core = CoreAt(stage, m) /\ PassedBefore(stage, m) /\ ServerAt(stage, m)

Untouched == core = NewCore /\ server = NoServer /\ used = {}

(* Before, while and after one caller initialises.                         *)
NewInv == once = "new" => Untouched /\ \A c \in Callers : pc[c] \in Waiting

RunningInv ==
    /\ once = "running" =>
          used = {} /\ \A c \in Callers : pc[c] \in Waiting \cup Stages
    /\ \A c, d \in Callers : pc[c] \in Stages /\ pc[d] \in Stages => c = d

DoneInv == once = "done" =>
    /\ \A c \in Callers : pc[c] \in Waiting \cup Over
    /\ \E m \in Admitted : Settings = Effective(m)

StageInv ==
    \A c \in Callers : pc[c] \in Stages => Reached(pc[c], call[c].config)

OnceInv == NewInv /\ RunningInv /\ DoneInv /\ StageInv

LockInv == holder = {c \in Callers : pc[c] = "processing"}
           /\ \A c, d \in holder : c = d

ErrorInv ==
    /\ err => server.state = "failed"
    /\ ErrorIsReal

Inv == TypeInv /\ OnceInv /\ LockInv /\ ErrorInv

LEMMA InvInit == Init => Inv
  <1> SUFFICES ASSUME Init PROVE Inv
    OBVIOUS
  <1> USE DEF Init, FreshProcess
  <1>1. NoCall \in Calls
    BY DEF NoCall, Calls, Contents
  <1>2. TypeInv
    BY <1>1 DEF TypeInv, Waiting, NoServer
  <1>3. OnceInv
    BY DEF OnceInv, NewInv, RunningInv, DoneInv, StageInv, Untouched, Waiting,
           Stages
  <1>4. LockInv
    BY DEF LockInv
  <1>5. ErrorInv
    BY DEF ErrorInv, ErrorIsReal
  <1> QED
    BY <1>2, <1>3, <1>4, <1>5 DEF Inv

-----------------------------------------------------------------------------
(* Death leaves the state of a new process.                                *)
LEMMA InvDie == Die => Inv'
  <1> SUFFICES ASSUME Die PROVE Inv'
    OBVIOUS
  <1> USE DEF Die
  <1>1. NoCall \in Calls
    BY DEF NoCall, Calls, Contents
  <1>2. TypeInv'
    BY <1>1 DEF TypeInv, Waiting, NoServer
  <1>3. OnceInv'
    BY DEF OnceInv, NewInv, RunningInv, DoneInv, StageInv, Untouched, Waiting,
           Stages
  <1>4. LockInv'
    BY DEF LockInv
  <1>5. ErrorInv'
    BY DEF ErrorInv, ErrorIsReal
  <1> QED
    BY <1>2, <1>3, <1>4, <1>5 DEF Inv

(* What one caller's step does to pc.                                      *)
LEMMA Moved ==
  ASSUME TypeInv, NEW c \in Callers, NEW from,
         NEW to \in Waiting \cup Stages \cup Over, Goto(c, from, to)
  PROVE  /\ pc' \in [Callers -> Waiting \cup Stages \cup Over]
         /\ pc[c] = from /\ pc'[c] = to
         /\ \A d \in Callers : pc'[d] = IF d = c THEN to ELSE pc[d]
  BY DEF TypeInv, Goto

(* A step of a caller outside the initialisation, beside which the         *)
(* settings stay, keeps what was said of the initialisation.               *)
LEMMA KeepsOnce ==
  ASSUME OnceInv, once' = once, core' = core, server' = server,
         once = "done" \/ used' = used,
         \A d \in Callers :
            \/ pc'[d] = pc[d] /\ call'[d] = call[d]
            \/ pc[d] \in Waiting /\ pc'[d] \in Waiting
            \/ once = "done" /\ pc'[d] \in Waiting \cup Over
  PROVE  OnceInv'
  <1> USE DEF OnceInv
  <1>1. NewInv'
    BY DEF NewInv, Untouched, Waiting
  <1>2. \A d \in Callers : pc'[d] \in Stages => pc'[d] = pc[d] /\ call'[d] = call[d]
    BY DEF Waiting, Over, Stages, NewInv, DoneInv
  <1>3. RunningInv'
    BY <1>2 DEF RunningInv, Waiting, Over, Stages
  <1>4. DoneInv'
    <2> SUFFICES ASSUME once = "done"
                 PROVE  /\ \A d \in Callers : pc'[d] \in Waiting \cup Over
                        /\ \E m \in Admitted : Settings' = Effective(m)
      BY DEF DoneInv
    <2>1. \A d \in Callers : pc'[d] \in Waiting \cup Over
      BY DEF DoneInv
    <2>2. Settings' = Settings
      BY DEF Settings
    <2> QED
      BY <2>1, <2>2 DEF DoneInv
  <1>5. StageInv'
    <2> SUFFICES ASSUME NEW d \in Callers, pc'[d] \in Stages
                 PROVE  Reached(pc[d], call[d].config)'
      BY DEF StageInv
    <2>1. Reached(pc[d], call[d].config)
      BY <1>2 DEF StageInv
    <2>2. pc'[d] = pc[d] /\ call'[d] = call[d]
      BY <1>2
    <2> QED
      BY <2>1, <2>2 DEF Reached, ServerAt
  <1> QED
    BY <1>1, <1>3, <1>4, <1>5

(* A call comes.                                                           *)
LEMMA InvPublish == ASSUME Inv, NEW c \in Callers, Publish(c) PROVE Inv'
  <1> USE DEF Inv, Publish, shared
  <1>1. /\ pc' \in [Callers -> Waiting \cup Stages \cup Over]
        /\ pc[c] = "idle" /\ pc'[c] = "once"
        /\ \A d \in Callers : pc'[d] = IF d = c THEN "once" ELSE pc[d]
    BY Moved DEF Waiting
  <1>2. PICK m \in Admitted, content \in Contents :
           call' = [call EXCEPT ![c] = [config |-> m, content |-> content]]
    OBVIOUS
  <1>3. /\ call' \in [Callers -> Calls]
        /\ call'[c].config = m
        /\ \A d \in Callers : d # c => call'[d] = call[d]
    BY <1>2 DEF TypeInv, Calls
  <1>4. TypeInv'
    BY <1>1, <1>3 DEF TypeInv, Config
  <1>5. OnceInv'
    <2>1. \A d \in Callers : \/ pc'[d] = pc[d] /\ call'[d] = call[d]
                             \/ pc[d] \in Waiting /\ pc'[d] \in Waiting
      BY <1>1, <1>3 DEF Waiting
    <2> QED
      BY <2>1, KeepsOnce
  <1>6. LockInv'
    BY <1>1 DEF LockInv
  <1>7. ErrorInv'
    BY DEF ErrorInv, ErrorIsReal
  <1> QED
    BY <1>4, <1>5, <1>6, <1>7

(* A caller that once.Do lets pass, or that decodes its batch.             *)
LEMMA InvPass ==
  ASSUME Inv, NEW c \in Callers, PassOnce(c) \/ Decode(c) PROVE Inv'
  <1> USE DEF Inv, shared
  <1>1. PICK to \in {"decode", "locking"} :
           /\ Goto(c, pc[c], to) /\ pc[c] \in {"once", "decode"}
           /\ UNCHANGED <<shared, call, initErr>>
    BY DEF PassOnce, Decode, Goto
  <1>2. /\ pc' \in [Callers -> Waiting \cup Stages \cup Over]
        /\ pc'[c] = to
        /\ \A d \in Callers : pc'[d] = IF d = c THEN to ELSE pc[d]
    BY <1>1, Moved DEF Over
  <1>3. once = "done"
    BY <1>1 DEF PassOnce, OnceInv, NewInv, RunningInv, Waiting, Stages,
                TypeInv, Decode, Goto
  <1>4. TypeInv'
    BY <1>1, <1>2 DEF TypeInv, Config
  <1>5. OnceInv'
    <2>1. \A d \in Callers : \/ pc'[d] = pc[d] /\ call'[d] = call[d]
                             \/ once = "done" /\ pc'[d] \in Waiting \cup Over
      BY <1>1, <1>2, <1>3 DEF Over
    <2> QED
      BY <1>1, <2>1, KeepsOnce
  <1>6. LockInv'
    BY <1>1, <1>2 DEF LockInv
  <1>7. ErrorInv'
    BY <1>1 DEF ErrorInv, ErrorIsReal
  <1> QED
    BY <1>4, <1>5, <1>6, <1>7

(* A caller returns from Publish with its batch declined or processed.     *)
LEMMA InvReturn ==
  ASSUME Inv, NEW c \in Callers, Decline(c) \/ ProcessMetrics(c) PROVE Inv'
  <1> USE DEF Inv, shared
  <1>1. PICK from \in {"decode", "processing"} :
           /\ Return(c, from)
           /\ UNCHANGED <<once, core, server, err>>
           /\ from = "decode" => UNCHANGED <<holder, used>>
           /\ from = "processing" => holder' = {}
    BY DEF Decline, ProcessMetrics
  <1>2. /\ pc' \in [Callers -> Waiting \cup Stages \cup Over]
        /\ pc[c] = from /\ pc'[c] = "idle"
        /\ \A d \in Callers : pc'[d] = IF d = c THEN "idle" ELSE pc[d]
    BY <1>1, Moved DEF Return, Waiting
  <1>3. once = "done"
    BY <1>2 DEF OnceInv, NewInv, RunningInv, Waiting, Stages, TypeInv
  <1>4. /\ call' \in [Callers -> Calls]
        /\ \A d \in Callers : d # c => call'[d] = call[d]
    BY <1>1 DEF Return, TypeInv, NoCall, Calls, Contents
  <1>5. /\ initErr' \in [Callers -> BOOLEAN]
        /\ \A d \in Callers : initErr'[d] => initErr[d]
    BY <1>1 DEF Return, TypeInv
  <1>6. TypeInv'
    BY <1>1, <1>2, <1>4, <1>5 DEF TypeInv, Config
  <1>7. OnceInv'
    <2>1. \A d \in Callers : \/ pc'[d] = pc[d] /\ call'[d] = call[d]
                             \/ once = "done" /\ pc'[d] \in Waiting \cup Over
      BY <1>2, <1>3, <1>4 DEF Waiting
    <2> QED
      BY <1>1, <1>3, <2>1, KeepsOnce
  <1>8. LockInv'
    <2>1. CASE from = "decode"
      BY <1>1, <1>2, <2>1 DEF LockInv
    <2>2. CASE from = "processing"
      BY <1>1, <1>2, <2>2 DEF LockInv
    <2> QED
      BY <2>1, <2>2
  <1>9. ErrorInv'
    BY <1>1, <1>5 DEF ErrorInv, ErrorIsReal
  <1> QED
    BY <1>6, <1>7, <1>8, <1>9

(* A caller takes the lock.                                                *)
LEMMA InvLock == ASSUME Inv, NEW c \in Callers, Lock(c) PROVE Inv'
  <1> USE DEF Inv, Lock
  <1>1. /\ pc' \in [Callers -> Waiting \cup Stages \cup Over]
        /\ pc[c] = "locking" /\ pc'[c] = "processing"
        /\ \A d \in Callers : pc'[d] = IF d = c THEN "processing" ELSE pc[d]
    BY Moved DEF Over
  <1>2. once = "done"
    BY <1>1 DEF OnceInv, NewInv, RunningInv, Waiting, Stages, TypeInv
  <1>3. TypeInv'
    BY <1>1 DEF TypeInv, Config
  <1>4. OnceInv'
    <2>1. \A d \in Callers : \/ pc'[d] = pc[d] /\ call'[d] = call[d]
                             \/ once = "done" /\ pc'[d] \in Waiting \cup Over
      BY <1>1, <1>2 DEF Over
    <2> QED
      BY <2>1, KeepsOnce
  <1>5. LockInv'
    BY <1>1 DEF LockInv
  <1>6. ErrorInv'
    BY DEF ErrorInv, ErrorIsReal
  <1> QED
    BY <1>3, <1>4, <1>5, <1>6

-----------------------------------------------------------------------------
(* once.Do lets the first caller in.                                       *)
LEMMA InvEnterOnce == ASSUME Inv, NEW c \in Callers, EnterOnce(c) PROVE Inv'
  <1> USE DEF Inv, EnterOnce
  <1>1. /\ pc' \in [Callers -> Waiting \cup Stages \cup Over]
        /\ pc[c] = "once" /\ pc'[c] = "depth"
        /\ \A d \in Callers : pc'[d] = IF d = c THEN "depth" ELSE pc[d]
    BY Moved DEF Stages
  <1>2. Untouched /\ \A d \in Callers : pc[d] \in Waiting
    BY DEF OnceInv, NewInv
  <1>3. TypeInv'
    BY <1>1 DEF TypeInv, Config
  <1>4. OnceInv'
    <2>1. NewInv' /\ DoneInv'
      BY DEF NewInv, DoneInv
    <2>2. RunningInv'
      BY <1>1, <1>2 DEF RunningInv, Untouched, Waiting, Stages
    <2>3. \A d \in Callers : pc'[d] \in Stages => d = c
      BY <1>1, <1>2 DEF Waiting, Stages
    <2>4. core = CoreAt("depth", call[c].config)
      BY <1>2 DEF Untouched, NewCore, CoreAt
    <2>5. PassedBefore("depth", call[c].config) /\ server = NoServer
      BY <1>2 DEF Untouched, PassedBefore
    <2>6. StageInv'
      BY <1>1, <2>3, <2>4, <2>5 DEF StageInv, Reached, ServerAt
    <2> QED
      BY <2>1, <2>2, <2>6 DEF OnceInv
  <1>5. LockInv'
    BY <1>1 DEF LockInv
  <1>6. ErrorInv'
    BY DEF ErrorInv, ErrorIsReal
  <1> QED
    BY <1>3, <1>4, <1>5, <1>6

(* The initialising caller gets from one stage to the next, where it has   *)
(* reached what that stage says.                                           *)
LEMMA InvAdvance ==
  ASSUME Inv, NEW c \in Callers, NEW from \in Stages, NEW to \in Stages,
         Goto(c, from, to), UNCHANGED <<once, call, initErr, err, holder, used>>,
         \/ server' = server
         \/ /\ server.state = "none"
            /\ server' = [state |-> server'.state, addr |-> server'.addr,
                          port |-> server'.port],
         core' = CoreAt(to, call[c].config), PassedBefore(to, call[c].config),
         to # "started" => server' = NoServer,
         to = "started" => /\ server'.addr = AddrOf(call[c].config)
                           /\ server'.port = PortOf(call[c].config)
  PROVE  Inv'
  <1> USE DEF Inv
  <1>1. /\ pc' \in [Callers -> Waiting \cup Stages \cup Over]
        /\ pc[c] = from /\ pc'[c] = to
        /\ \A d \in Callers : pc'[d] = IF d = c THEN to ELSE pc[d]
    BY Moved
  <1>2. once = "running"
    BY <1>1 DEF OnceInv, NewInv, DoneInv, TypeInv, Waiting, Over, Stages
  <1>3. TypeInv'
    BY <1>1 DEF TypeInv, Config, Stages
  <1>4. OnceInv'
    <2>1. NewInv' /\ DoneInv'
      BY <1>2 DEF NewInv, DoneInv
    <2>2. \A d \in Callers : pc'[d] \in Stages => d = c
      BY <1>1 DEF OnceInv, RunningInv
    <2>3. RunningInv'
      BY <1>1, <1>2, <2>2 DEF OnceInv, RunningInv
    <2>4. StageInv'
      BY <1>1, <2>2 DEF StageInv, Reached, ServerAt
    <2> QED
      BY <2>1, <2>3, <2>4 DEF OnceInv
  <1>5. LockInv'
    BY <1>1 DEF LockInv, Stages
  <1>6. ErrorInv'
    BY DEF ErrorInv, ErrorIsReal
  <1> QED
    BY <1>3, <1>4, <1>5, <1>6

(* The initialisation is over, with the settings of the caller's manifest. *)
LEMMA InvInitOver ==
  ASSUME Inv, NEW c \in Callers, NEW from \in Stages, Goto(c, from, "decode"),
         once' = "done", UNCHANGED <<call, core, server, err, holder, used>>,
         initErr' = initErr \/ initErr' = [initErr EXCEPT ![c] = err],
         Settings = Effective(call[c].config)
  PROVE  Inv'
  <1> USE DEF Inv
  <1>1. /\ pc' \in [Callers -> Waiting \cup Stages \cup Over]
        /\ pc[c] = from /\ pc'[c] = "decode"
        /\ \A d \in Callers : pc'[d] = IF d = c THEN "decode" ELSE pc[d]
    BY Moved DEF Over
  <1>2. once = "running"
    BY <1>1 DEF OnceInv, NewInv, DoneInv, TypeInv, Waiting, Over, Stages
  <1>3. TypeInv'
    BY <1>1 DEF TypeInv, Config, Stages
  <1>4. OnceInv'
    <2>1. \A d \in Callers : pc'[d] \in Waiting \cup Over
      BY <1>1, <1>2 DEF OnceInv, RunningInv, Over
    <2>2. call[c].config \in Admitted
      BY <1>1 DEF TypeInv, Config, Stages
    <2>3. Settings' = Settings
      BY DEF Settings
    <2>4. DoneInv'
      BY <2>1, <2>2, <2>3 DEF DoneInv
    <2>5. NewInv' /\ RunningInv' /\ StageInv'
      BY <2>1 DEF NewInv, RunningInv, StageInv, Waiting, Over, Stages
    <2> QED
      BY <2>4, <2>5 DEF OnceInv
  <1>5. LockInv'
    BY <1>1 DEF LockInv, Stages
  <1>6. ErrorInv'
    BY DEF ErrorInv, ErrorIsReal, TypeInv
  <1> QED
    BY <1>3, <1>4, <1>5, <1>6

(* What an initialising caller knows of the state.                         *)
LEMMA AtStage ==
  ASSUME Inv, NEW c \in Callers, pc[c] \in Stages
  PROVE  /\ core = CoreAt(pc[c], call[c].config)
         /\ PassedBefore(pc[c], call[c].config)
         /\ pc[c] # "started" => server = NoServer
         /\ pc[c] = "started" => /\ server.addr = AddrOf(call[c].config)
                                 /\ server.port = PortOf(call[c].config)
  BY DEF Inv, OnceInv, StageInv, Reached, ServerAt

(* The stages that read a setting and go on.                               *)
LEMMA InvRead ==
  ASSUME Inv, NEW c \in Callers,
         \/ ReadDepth(c) \/ ReadListen(c) \/ ReadSpan(c)
         \/ LoadMetricTemplate(c) \/ ReadDelta(c)
  PROVE  Inv'
  <1> USE DEF SetCore, Goto, Config
  <1> DEFINE m == call[c].config
  <1>1. CASE ReadDepth(c)
    <2> USE <1>1 DEF ReadDepth
    <2>1. core = CoreAt("depth", m) /\ server = NoServer
      BY AtStage DEF Stages
    <2>2. core' = CoreAt("listen", m) /\ PassedBefore("listen", m)
      BY <2>1 DEF CoreAt, PassedBefore
    <2> QED
      BY <2>1, <2>2, InvAdvance DEF Stages
  <1>2. CASE ReadListen(c)
    <2> USE <1>2 DEF ReadListen, shared
    <2>1. core = CoreAt("listen", m) /\ server = NoServer
      BY AtStage DEF Stages
    <2>2. core' = CoreAt("span", m) /\ PassedBefore("span", m)
      BY <2>1 DEF CoreAt, PassedBefore
    <2> QED
      BY <2>1, <2>2, InvAdvance DEF Stages
  <1>3. CASE ReadSpan(c)
    <2> USE <1>3 DEF ReadSpan
    <2>1. core = CoreAt("span", m) /\ PassedBefore("span", m) /\ server = NoServer
      BY AtStage DEF Stages
    <2>2. core' = CoreAt("template", m) /\ PassedBefore("template", m)
      BY <2>1 DEF CoreAt, PassedBefore
    <2> QED
      BY <2>1, <2>2, InvAdvance DEF Stages
  <1>4. CASE LoadMetricTemplate(c)
    <2> USE <1>4 DEF LoadMetricTemplate
    <2>1. /\ core = CoreAt("template", m) /\ PassedBefore("template", m)
          /\ server = NoServer
      BY AtStage DEF Stages
    <2>2. core' = CoreAt("delta", m) /\ PassedBefore("delta", m)
      BY <2>1 DEF CoreAt, PassedBefore
    <2> QED
      BY <2>1, <2>2, InvAdvance DEF Stages
  <1>5. CASE ReadDelta(c)
    <2> USE <1>5 DEF ReadDelta
    <2>1. core = CoreAt("delta", m) /\ PassedBefore("delta", m) /\ server = NoServer
      BY AtStage DEF Stages
    <2>2. core' = CoreAt("serve", m) /\ PassedBefore("serve", m)
      BY <2>1 DEF CoreAt, PassedBefore
    <2> QED
      BY <2>1, <2>2, InvAdvance DEF Stages
  <1> QED
    BY <1>1, <1>2, <1>3, <1>4, <1>5

(* The goroutine of the server is started.                                 *)
LEMMA InvEnsureStarted ==
  ASSUME Inv, NEW c \in Callers, EnsureStarted(c) PROVE Inv'
  <1> USE DEF EnsureStarted, Goto, Config
  <1> DEFINE m == call[c].config
  <1>1. core = CoreAt("serve", m) /\ PassedBefore("serve", m) /\ server = NoServer
    BY AtStage DEF Stages
  <1>2. core' = CoreAt("started", m) /\ PassedBefore("started", m)
    BY <1>1 DEF CoreAt, PassedBefore
  <1>3. server' = [state |-> "starting", addr |-> AddrOf(m), port |-> PortOf(m)]
    BY <1>1 DEF NoServer
  <1>4. server.state = "none"
    BY <1>1 DEF NoServer
  <1>5. /\ server' = [state |-> server'.state, addr |-> server'.addr,
                      port |-> server'.port]
        /\ server'.addr = AddrOf(m) /\ server'.port = PortOf(m)
    BY <1>3
  <1>6. UNCHANGED <<once, call, initErr, err, holder, used>>
    OBVIOUS
  <1>7. Goto(c, "serve", "started") /\ "serve" \in Stages /\ "started" \in Stages
    BY DEF Stages
  <1> HIDE DEF m, EnsureStarted, Goto
  <1> QED
    BY <1>2, <1>4, <1>5, <1>6, <1>7, InvAdvance DEF m

(* The three ways the initialisation ends, each with the settings that     *)
(* Effective gives for the manifest.                                       *)
LEMMA Chosen ==
  ASSUME Inv, NEW c \in Callers,
         ReadListenPanics(c) \/ LoadPanics(c) \/ FinishInit(c)
  PROVE  Settings = Effective(call[c].config)
  <1> USE DEF Recover, Goto, Config
  <1> DEFINE m == call[c].config
  <1>1. CASE ReadListenPanics(c)
    <2> USE <1>1 DEF ReadListenPanics
    <2>1. core = CoreAt("listen", m) /\ server = NoServer
      BY AtStage DEF Stages
    <2> QED
      BY <2>1 DEF CoreAt, Settings, Effective, NoServer
  <1>2. CASE LoadPanics(c)
    <2> USE <1>2 DEF LoadPanics
    <2>1. /\ core = CoreAt("template", m) /\ PassedBefore("template", m)
          /\ server = NoServer
      BY AtStage DEF Stages
    <2> QED
      BY <2>1 DEF CoreAt, PassedBefore, Settings, Effective, NoServer
  <1>3. CASE FinishInit(c)
    <2> USE <1>3 DEF FinishInit
    <2>1. /\ core = CoreAt("started", m) /\ PassedBefore("started", m)
          /\ server.addr = AddrOf(m) /\ server.port = PortOf(m)
      BY AtStage DEF Stages
    <2> QED
      BY <2>1 DEF CoreAt, PassedBefore, Settings, Effective
  <1> QED
    BY <1>1, <1>2, <1>3

LEMMA InvEndOfInit ==
  ASSUME Inv, NEW c \in Callers,
         ReadListenPanics(c) \/ LoadPanics(c) \/ FinishInit(c)
  PROVE  Inv'
  <1>1. PICK from \in Stages : Goto(c, from, "decode")
    BY DEF ReadListenPanics, LoadPanics, FinishInit, Recover, Stages
  <1>2. /\ once' = "done" /\ UNCHANGED <<call, core, server, err, holder, used>>
        /\ initErr' = initErr \/ initErr' = [initErr EXCEPT ![c] = err]
    BY DEF ReadListenPanics, LoadPanics, FinishInit, Recover, ServeError
  <1> QED
    BY <1>1, <1>2, Chosen, InvInitOver

-----------------------------------------------------------------------------
(* The goroutine of the server, another program, and a process that comes. *)
LEMMA InvServer ==
  ASSUME Inv, ServerFunc \/ OtherProgram \/ Load PROVE Inv'
  <1> USE DEF Inv
  <1>1. /\ UNCHANGED <<once, core, holder, used, pc, call, initErr>>
        /\ \/ UNCHANGED <<server, err>>
           \/ /\ server.state = "starting"
              /\ \/ server' = [server EXCEPT !.state = "listening"] /\ err' = err
                 \/ server' = [server EXCEPT !.state = "failed"] /\ err' = TRUE
    BY DEF ServerFunc, Listen, ListenFails, OtherProgram, Load
  <1>2. CASE UNCHANGED <<server, err>>
    <2>1. TypeInv'
      BY <1>1, <1>2 DEF TypeInv, Config
    <2>2. OnceInv'
      BY <1>1, <1>2, KeepsOnce
    <2>3. LockInv' /\ ErrorInv'
      BY <1>1, <1>2 DEF LockInv, ErrorInv, ErrorIsReal
    <2> QED
      BY <2>1, <2>2, <2>3
  <1>3. CASE server.state = "starting" /\ ~UNCHANGED <<server, err>>
    <2>1. PICK st \in {"listening", "failed"} :
             /\ server' = [server EXCEPT !.state = st]
             /\ IF st = "failed" THEN err' = TRUE ELSE err' = err
      BY <1>1, <1>3
    <2>2. server' = [state |-> st, addr |-> server.addr, port |-> server.port]
      BY <2>1 DEF TypeInv
    <2>3. /\ server'.addr = server.addr /\ server'.port = server.port
          /\ server' = [state |-> server'.state, addr |-> server'.addr,
                        port |-> server'.port]
          /\ server'.state = st
      BY <2>2
    <2>4. err = FALSE /\ (err' => st = "failed") /\ err' \in BOOLEAN
      BY <1>3, <2>1 DEF TypeInv, ErrorInv
    <2>5. TypeInv'
      BY <1>1, <2>3, <2>4 DEF TypeInv, Config
    <2>6. server # NoServer
      <3>1. NoServer.state = "none"
        BY DEF NoServer
      <3> QED
        BY <1>3, <3>1
    <2>7. OnceInv'
      <3>1. NewInv'
        BY <1>1, <2>6 DEF OnceInv, NewInv, Untouched
      <3>2. RunningInv'
        BY <1>1 DEF OnceInv, RunningInv
      <3>3. Settings' = Settings
        BY <1>1, <2>3 DEF Settings
      <3>4. DoneInv'
        <4> SUFFICES ASSUME once' = "done"
                     PROVE  /\ \A d \in Callers : pc'[d] \in Waiting \cup Over
                            /\ \E m \in Admitted : Settings' = Effective(m)
          BY DEF DoneInv
        <4> QED
          BY <1>1, <3>3 DEF OnceInv, DoneInv
      <3>5. StageInv'
        BY <1>1, <2>3, <2>6 DEF OnceInv, StageInv, Reached, ServerAt
      <3> QED
        BY <3>1, <3>2, <3>4, <3>5 DEF OnceInv
    <2>8. LockInv'
      BY <1>1 DEF LockInv
    <2>9. ErrorInv'
      BY <1>1, <1>3, <2>3, <2>4 DEF ErrorInv, ErrorIsReal
    <2> QED
      BY <2>5, <2>7, <2>8, <2>9
  <1> QED
    BY <1>1, <1>2, <1>3

LEMMA InvStutter == Inv /\ UNCHANGED vars => Inv'
  <1> SUFFICES ASSUME Inv, UNCHANGED vars PROVE Inv'
    OBVIOUS
  <1> USE DEF Inv, vars, shared
  <1>1. TypeInv'
    BY DEF TypeInv, Config
  <1>2. OnceInv'
    BY KeepsOnce
  <1>3. LockInv' /\ ErrorInv'
    BY DEF LockInv, ErrorInv, ErrorIsReal
  <1> QED
    BY <1>1, <1>2, <1>3

(* The invariant holds in every state.                                     *)
LEMMA InvStep == Inv /\ [Next]_vars => Inv'
  <1> SUFFICES ASSUME Inv, [Next]_vars PROVE Inv'
    OBVIOUS
  <1>1. ASSUME NEW c \in Callers, Publish(c) PROVE Inv'
    BY <1>1, InvPublish
  <1>2. ASSUME NEW c \in Callers, Initialise(c) PROVE Inv'
    <2>1. CASE LoadFails(c)
      BY <2>1, InvDie DEF LoadFails
    <2> QED
      BY <1>2, <2>1, InvEnterOnce, InvPass, InvRead, InvEndOfInit, InvEnsureStarted
      DEF Initialise
  <1>3. ASSUME NEW c \in Callers, Handle(c) PROVE Inv'
    <2>1. CASE ProcessPanics(c)
      BY <2>1, InvDie DEF ProcessPanics
    <2> QED
      BY <1>3, <2>1, InvReturn, InvPass, InvLock DEF Handle
  <1>4. ASSUME ServerFunc \/ OtherProgram \/ Load PROVE Inv'
    BY <1>4, InvServer
  <1>5. ASSUME Unload PROVE Inv'
    BY <1>5, InvDie DEF Unload
  <1>6. ASSUME UNCHANGED vars PROVE Inv'
    BY <1>6, InvStutter
  <1> QED
    BY <1>1, <1>2, <1>3, <1>4, <1>5, <1>6 DEF Next

-----------------------------------------------------------------------------
(* The parts of the invariant hold in every state a process gets to.       *)
THEOREM LifecycleInvariant == Spec => []Inv
  BY InvInit, InvStep, PTL DEF Spec

(* core.once and the lock: one goroutine at most initialises, one at most  *)
(* processes a batch, and only once the initialisation is over, whatever   *)
(* panics on the way and however often the process is started again.       *)
THEOREM ExclusiveHolds == Spec => []Exclusive
  <1>1. Inv => Exclusive
    <2> SUFFICES ASSUME Inv, NEW c \in Callers, NEW d \in Callers
                 PROVE  /\ pc[c] \in Stages =>
                              once = "running" /\ (pc[d] \in Stages => c = d)
                        /\ pc[c] \in Over => once = "done"
                        /\ pc[c] = "processing" <=> c \in holder
                        /\ c \in holder /\ d \in holder => c = d
      BY DEF Exclusive, Over
    <2> USE DEF Inv, OnceInv
    <2>1. pc[c] \in Stages => once = "running"
      BY DEF TypeInv, NewInv, DoneInv, Waiting, Over, Stages
    <2>2. pc[c] \in Stages /\ pc[d] \in Stages => c = d
      BY DEF RunningInv
    <2>3. pc[c] \in Over => once = "done"
      BY DEF TypeInv, NewInv, RunningInv, Waiting, Over, Stages
    <2>4. /\ pc[c] = "processing" <=> c \in holder
          /\ c \in holder /\ d \in holder => c = d
      BY DEF LockInv
    <2> QED
      BY <2>1, <2>2, <2>3, <2>4
  <1> QED
    BY <1>1, LifecycleInvariant, PTL

(* What EnsureStarted returned as an error, though it read it while the    *)
(* server's goroutine could still write it, is an error.                   *)
THEOREM ErrorIsRealHolds == Spec => []ErrorIsReal
  <1>1. Inv => ErrorIsReal
    BY DEF Inv, ErrorInv
  <1> QED
    BY <1>1, LifecycleInvariant, PTL

-----------------------------------------------------------------------------
(* Every step of the process is one of Setup, or none.                     *)
Setting == IF once = "done" THEN Settings ELSE Unset

LEMMA SetupInit == Init => FirstConfig!Init
  BY DEF Init, FreshProcess, FirstConfig!Init

(* An end of the initialisation chooses, a batch uses, death forgets.      *)
LEMMA SetupChoose ==
  ASSUME Inv, NEW c \in Callers,
         ReadListenPanics(c) \/ LoadPanics(c) \/ FinishInit(c)
  PROVE  FirstConfig!Choose
  <1>1. /\ pc[c] \in Stages /\ once' = "done"
        /\ UNCHANGED <<core, server, used>>
    BY DEF ReadListenPanics, LoadPanics, FinishInit, Recover, Goto, Stages
  <1>2. once # "done" /\ call[c].config \in Admitted
    BY <1>1 DEF Inv, OnceInv, DoneInv, TypeInv, Config, Waiting, Over, Stages
  <1>3. Settings' = Settings
    BY <1>1 DEF Settings
  <1>4. Setting = Unset /\ Setting' = Settings
    BY <1>1, <1>2, <1>3 DEF Setting
  <1>5. Setting' = Effective(call[c].config)
    BY <1>4, Chosen
  <1> QED
    BY <1>1, <1>2, <1>4, <1>5 DEF FirstConfig!Choose, Setting

LEMMA SetupUse ==
  ASSUME Inv, NEW c \in Callers, ProcessMetrics(c) PROVE FirstConfig!Use
  <1>1. /\ pc[c] = "processing" /\ used' = used \cup {Settings}
        /\ UNCHANGED <<once, core, server>>
    BY DEF ProcessMetrics, Return, Goto
  <1>2. once = "done"
    BY <1>1 DEF Inv, OnceInv, NewInv, RunningInv, TypeInv, Waiting, Stages
  <1>3. Settings # Unset
    BY <1>2, UnsetAssumption DEF Inv, OnceInv, DoneInv
  <1>4. Settings' = Settings
    BY <1>1 DEF Settings
  <1> QED
    BY <1>1, <1>2, <1>3, <1>4 DEF FirstConfig!Use

LEMMA SetupForget == Die => FirstConfig!Forget
  BY DEF Die, FirstConfig!Forget

(* Every other step leaves what the process works with alone.              *)
LEMMA SetupKeeps ==
  ASSUME used' = used, once' = once \/ {once, once'} \subseteq {"new", "running"},
         once = "done" => Settings' = Settings
  PROVE  UNCHANGED FirstConfig!vars
  BY DEF FirstConfig!vars

LEMMA SetupInitialise ==
  ASSUME Inv, NEW c \in Callers, Initialise(c)
  PROVE  FirstConfig!Next \/ UNCHANGED FirstConfig!vars
  <1>1. ASSUME ReadListenPanics(c) \/ LoadPanics(c) \/ FinishInit(c)
        PROVE  FirstConfig!Next
    BY <1>1, SetupChoose DEF FirstConfig!Next
  <1>2. ASSUME LoadFails(c) PROVE FirstConfig!Next
    BY <1>2, SetupForget DEF LoadFails, FirstConfig!Next
  <1>3. ASSUME EnterOnce(c) \/ PassOnce(c) PROVE UNCHANGED FirstConfig!vars
    <2>1. /\ UNCHANGED <<used, core, server>>
          /\ once' = once \/ {once, once'} \subseteq {"new", "running"}
      BY <1>3 DEF EnterOnce, PassOnce, shared
    <2>2. Settings' = Settings
      BY <2>1 DEF Settings
    <2> QED
      BY <2>1, <2>2, SetupKeeps
  <1>4. ASSUME \/ ReadDepth(c) \/ ReadListen(c) \/ ReadSpan(c)
               \/ LoadMetricTemplate(c) \/ ReadDelta(c) \/ EnsureStarted(c)
        PROVE  UNCHANGED FirstConfig!vars
    <2>1. pc[c] \in Stages /\ UNCHANGED <<once, used>>
      BY <1>4 DEF ReadDepth, ReadListen, ReadSpan, LoadMetricTemplate, ReadDelta,
                  EnsureStarted, SetCore, Goto, Stages, shared
    <2>2. once # "done"
      BY <2>1 DEF Inv, OnceInv, DoneInv, Waiting, Over, Stages
    <2> QED
      BY <2>1, <2>2, SetupKeeps
  <1> QED
    BY <1>1, <1>2, <1>3, <1>4 DEF Initialise

LEMMA SetupHandle ==
  ASSUME Inv, NEW c \in Callers, Publish(c) \/ Handle(c)
  PROVE  FirstConfig!Next \/ UNCHANGED FirstConfig!vars
  <1>1. ASSUME ProcessMetrics(c) PROVE FirstConfig!Next
    BY <1>1, SetupUse DEF FirstConfig!Next
  <1>2. ASSUME ProcessPanics(c) PROVE FirstConfig!Next
    BY <1>2, SetupForget DEF ProcessPanics, FirstConfig!Next
  <1>3. ASSUME Publish(c) \/ Decline(c) \/ Decode(c) \/ Lock(c)
        PROVE  UNCHANGED FirstConfig!vars
    <2>1. UNCHANGED <<once, used, core, server>>
      BY <1>3 DEF Publish, Decline, Decode, Lock, shared
    <2>2. Settings' = Settings
      BY <2>1 DEF Settings
    <2> QED
      BY <2>1, <2>2, SetupKeeps
  <1> QED
    BY <1>1, <1>2, <1>3 DEF Handle

LEMMA SetupOther ==
  ASSUME Inv, ServerFunc \/ OtherProgram \/ Load \/ Unload
  PROVE  FirstConfig!Next \/ UNCHANGED FirstConfig!vars
  <1>1. ASSUME Unload PROVE FirstConfig!Next
    BY <1>1, SetupForget DEF Unload, FirstConfig!Next
  <1>2. ASSUME ServerFunc \/ OtherProgram \/ Load
        PROVE  UNCHANGED FirstConfig!vars
    <2>1. /\ UNCHANGED <<once, used, core>>
          /\ server' = server \/ \E st \in {"listening", "failed"} :
                                    server' = [server EXCEPT !.state = st]
      BY <1>2 DEF ServerFunc, Listen, ListenFails, OtherProgram, Load
    <2>2. server'.addr = server.addr /\ server'.port = server.port
      <3>1. ASSUME NEW st, server' = [server EXCEPT !.state = st]
            PROVE  server'.addr = server.addr /\ server'.port = server.port
        <4>1. server' = [state |-> st, addr |-> server.addr, port |-> server.port]
          BY <3>1 DEF Inv, TypeInv
        <4> QED
          BY <4>1
      <3> QED
        BY <2>1, <3>1
    <2>3. Settings' = Settings
      BY <2>1, <2>2 DEF Settings
    <2> QED
      BY <2>1, <2>3, SetupKeeps
  <1> QED
    BY <1>1, <1>2

LEMMA SetupStep == Inv /\ [Next]_vars => [FirstConfig!Next]_FirstConfig!vars
  <1> SUFFICES ASSUME Inv, [Next]_vars
               PROVE  FirstConfig!Next \/ UNCHANGED FirstConfig!vars
    OBVIOUS
  <1>1. ASSUME UNCHANGED vars PROVE UNCHANGED FirstConfig!vars
    <2>1. UNCHANGED <<once, used, core, server>>
      BY <1>1 DEF vars, shared
    <2>2. Settings' = Settings
      BY <2>1 DEF Settings
    <2> QED
      BY <2>1, <2>2, SetupKeeps
  <1> QED
    BY <1>1, SetupInitialise, SetupHandle, SetupOther DEF Next

(* The configuration of the first call is kept for all further ones:       *)
(* ensureInitialized, cut short by a panic or not, with callers that wait, *)
(* pass and process beside it, implements Setup.                           *)
THEOREM ImplementsSetupHolds == Spec => ImplementsSetup
  <1>1. Init => FirstConfig!Init
    BY SetupInit
  <1> QED
    BY <1>1, SetupStep, LifecycleInvariant, PTL
    DEF Spec, ImplementsSetup, FirstConfig!Spec
=============================================================================

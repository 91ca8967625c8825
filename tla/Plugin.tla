------------------------------- MODULE Plugin -------------------------------
(***************************************************************************)
(* The plugin process: the publisher, the REST server and the lock between *)
(* them.  A request may be at any point while batches are processed; what  *)
(* is not done under the lock is the encoding of the response, which then  *)
(* reads maps the publisher writes.  For the Go runtime that is a data     *)
(* race it may end the process for ("concurrent map iteration and map      *)
(* write"), or not notice.                                                 *)
(***************************************************************************)
EXTENDS RestServer

pluginVars == <<vars, mutexVars, handlerVars>>

PluginInit == Init /\ MutexInit /\ RestInit

-----------------------------------------------------------------------------
(* Publish.                                                                *)

(* The call has decoded its batch and asks for the lock.                   *)
PublishCalled ==
    /\ pc = "idle" /\ LockAnnounce
    /\ UNCHANGED <<vars, handlerVars>>

PublishLocked == Lock /\ LockAcquire /\ UNCHANGED handlerVars

ProcessMetric ==
    /\ \E m \in Metrics : Process(m)
    /\ UNCHANGED <<mutexVars, handlerVars>>

StartMerge == BeginMerge /\ UNCHANGED <<mutexVars, handlerVars>>

MergeContainer ==
    /\ \E p \in Paths : Merge(p)
    /\ UNCHANGED <<mutexVars, handlerVars>>

(* The deferred Unlock.                                                    *)
PublishDone ==
    /\ EndCustomOnly \/ EndMerge
    /\ WriterUnlock
    /\ UNCHANGED handlerVars

-----------------------------------------------------------------------------
(* The maps shared with an encoder that the next step of the batch writes. *)

WritesValues(p, s) ==
    /\ pc = "merge" /\ p \in toMerge /\ temp[p] # 0
    /\ LET list == Append(MakeRoomForStats(stats[p], objs[temp[p]].stamp),
                          temp[p])
       IN  \E e \in AttachedBy(p, list) : e[1] = s

WritesSpecs(m, p) ==
    /\ pc = "metrics" /\ rx < MaxBatch
    /\ m.path = p /\ p \in known /\ IsCustom(m) /\ NotStats(m)
    /\ ~(SpecNames(m) \subseteq specs[p])

(* The runtime notices that such a map is being iterated.                  *)
Throw ==
    /\ \E h \in inside :
          LET e == Current(h)
          IN  \/ ~IsSpec(e) /\ \E p \in Paths : WritesValues(p, e.obj)
              \/ IsSpec(e) /\ \E m \in Metrics : WritesSpecs(m, e.path)
    /\ pc' = "crashed"
    /\ UNCHANGED <<batchVars, objs, known, stats, labelled, customVars,
                   mutexVars, handlerVars>>

(* A new process: no lock is held and no request is being served.          *)
ProcessRestart ==
    /\ Restart
    /\ writer' = "free" /\ holding' = {} /\ blocked' = {}
    /\ hstate' = [h \in Handlers |-> "idle"]
    /\ req' = [h \in Handlers |-> Malformed]
    /\ resp' = [h \in Handlers |-> NoResponse]
    /\ next' = [h \in Handlers |-> 1] /\ inside' = {}
    /\ reading' = [h \in Handlers |-> {}]
    /\ reported' = [h \in Handlers |-> {}]
    /\ specsSent' = [h \in Handlers |-> {}]
    /\ atBuild' = [h \in Handlers |-> {}]

-----------------------------------------------------------------------------
(* A request, in a process that is alive.                                  *)

TakeRLock(h) == CallRLock(h) /\ RLock(h)
DropRLock(h) == CallRUnlock(h) /\ RUnlock(h)

WithoutLock(h) ==
    /\ Reject(h) \/ Build(h) \/ BeginEntry(h) \/ EndEntry(h) \/ Respond(h)
    /\ UNCHANGED mutexVars

Arrive(h) ==
    /\ pc # "crashed"
    /\ Receive(h)
    /\ UNCHANGED <<vars, mutexVars>>

Serve(h) ==
    /\ pc # "crashed"
    /\ TakeRLock(h) \/ DropRLock(h) \/ WithoutLock(h)
    /\ UNCHANGED vars

-----------------------------------------------------------------------------
Publishing ==
    \/ PublishLocked \/ StartMerge \/ MergeContainer \/ PublishDone

PluginNext ==
    \/ PublishCalled \/ Publishing \/ ProcessMetric
    \/ Throw \/ ProcessRestart
    \/ \E h \in Handlers : Arrive(h) \/ Serve(h)

PluginSpec == PluginInit /\ [][PluginNext]_pluginVars

(* A goroutine that can run is scheduled; a batch is finite.  Nothing makes*)
(* requests or batches come, or the process start again.                   *)
Fairness ==
    /\ WF_pluginVars(Publishing)
    /\ \A h \in Handlers : WF_pluginVars(Serve(h))

FairPluginSpec == PluginSpec /\ Fairness

-----------------------------------------------------------------------------
(* Batches and the building of responses exclude each other, and a request *)
(* that waits for the read lock is never forgotten: it may go on, or it is *)
(* queued behind a writer that has the lock or has asked for it.           *)
LockDiscipline ==
    /\ pc \in {"metrics", "merge"} => \A h \in Handlers : hstate[h] # "built"
    /\ \A h \in Handlers : hstate[h] = "locking" =>
          h \in holding \/ (h \in blocked /\ writer # "free")

(* Every request is answered, whatever the publisher does meanwhile, as    *)
(* long as the process lives: Unlock lets the waiting readers in.          *)
RequestAnswered ==
    \A h \in Handlers :
        hstate[h] = "received" ~> hstate[h] = "idle" \/ pc = "crashed"

(* Every call of Publish gets the lock and finishes, however many requests *)
(* keep coming: a waiting writer keeps new readers out.                    *)
PublishFinishes ==
    writer = "waiting" ~> writer = "free" \/ pc = "crashed"
=============================================================================

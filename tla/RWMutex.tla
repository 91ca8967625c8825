------------------------------ MODULE RWMutex ------------------------------
(***************************************************************************)
(* sync.RWMutex of Go, embedded in exchange.InnerState, as Publish and     *)
(* buildStatsResponse use it: one writer at a time; a writer that waits    *)
(* keeps new readers out, and its Unlock lets in those that queued up.     *)
(***************************************************************************)
CONSTANT Handlers   \* the request goroutines, which read

VARIABLES writer,   \* "free", "waiting" for the readers to leave, "held"
          holding,  \* readers inside
          blocked   \* readers queued behind a writer

mutexVars == <<writer, holding, blocked>>

MutexInit == writer = "free" /\ holding = {} /\ blocked = {}

(* Mutant: a waiting writer does not keep new readers out.                 *)
RLockBarging(h) ==
    /\ h \notin holding \cup blocked
    /\ IF writer # "held"
       THEN holding' = holding \cup {h} /\ UNCHANGED blocked
       ELSE blocked' = blocked \cup {h} /\ UNCHANGED holding
    /\ UNCHANGED writer

RLock(h) ==
    /\ h \notin holding \cup blocked
    /\ IF writer = "free"
       THEN holding' = holding \cup {h} /\ UNCHANGED blocked
       ELSE blocked' = blocked \cup {h} /\ UNCHANGED holding
    /\ UNCHANGED writer

RUnlock(h) ==
    /\ h \in holding
    /\ holding' = holding \ {h}
    /\ UNCHANGED <<writer, blocked>>

(* The two halves of Lock: announce the writer, then wait for the readers. *)
LockAnnounce ==
    /\ writer = "free"
    /\ writer' = "waiting"
    /\ UNCHANGED <<holding, blocked>>

LockAcquire ==
    /\ writer = "waiting" /\ holding = {}
    /\ writer' = "held"
    /\ UNCHANGED <<holding, blocked>>

(* Mutant: the readers that queued up are not woken.                       *)
WriterUnlockSilent ==
    /\ writer = "held"
    /\ writer' = "free"
    /\ UNCHANGED <<holding, blocked>>

WriterUnlock ==
    /\ writer = "held"
    /\ writer' = "free"
    /\ holding' = blocked /\ blocked' = {}
=============================================================================

------------------------------- MODULE Setup -------------------------------
(***************************************************************************)
(* The promise of the README about the configuration: what the first call  *)
(* of Publish sets up is kept for all further calls, until the process     *)
(* ends.  src/publisher/publisher.go.                                      *)
(***************************************************************************)
CONSTANTS
    Manifests,     \* the configurations calls come with
    Effective(_),  \* the settings that one of them leads to
    Unset          \* no settings yet

VARIABLES
    settings,  \* what the process works with
    used       \* the settings its batches were processed under

vars == <<settings, used>>

Init == settings = Unset /\ used = {}

(* The first call decides.                                                 *)
Choose ==
    /\ settings = Unset
    /\ \E m \in Manifests : settings' = Effective(m)
    /\ UNCHANGED used

(* A batch is processed.                                                   *)
Use ==
    /\ settings # Unset
    /\ used' = used \cup {settings}
    /\ UNCHANGED settings

(* The process ends.                                                       *)
Forget == settings' = Unset /\ used' = {}

Next == Choose \/ Use \/ Forget

Spec == Init /\ [][Next]_vars
=============================================================================

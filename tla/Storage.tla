------------------------------ MODULE Storage -------------------------------
(***************************************************************************)
(* What the Storage interface of persist.go promises a node: Save stores   *)
(* the whole state or, when it fails or is cut off, leaves the old one or  *)
(* the new one, and Load returns what is stored.                           *)
(***************************************************************************)
CONSTANTS
  Value,   \* the persistent states a node may save
  Fresh    \* the zero value, what Load returns on fresh storage

VARIABLES
  phase,   \* is the process "down", "idle" or in a call ("saving")?
  arg,     \* the argument of the last Save
  stored,  \* the states that Load may find
  loaded,  \* the state that the last Load returned
  err      \* did the last Save return an error?

storageVars == <<phase, arg, stored, loaded, err>>

Init ==
  /\ phase = "down" /\ arg = Fresh
  /\ stored = {Fresh} /\ loaded = Fresh /\ err = FALSE

Load ==
  /\ phase = "down" /\ phase' = "idle"
  /\ loaded' \in stored
  /\ UNCHANGED <<arg, stored, err>>

Save(v) ==
  /\ phase = "idle" /\ phase' = "saving"
  /\ arg' = v /\ stored' = stored \cup {v}
  /\ UNCHANGED <<loaded, err>>

SaveReturns ==
  /\ phase = "saving" /\ phase' = "idle"
  /\ stored' = {arg} /\ err' = FALSE
  /\ UNCHANGED <<arg, loaded>>

(* An error, or a crash at any time, settles nothing or something. *)
CutOff(end) ==
  /\ phase' = end
  /\ stored' \subseteq stored /\ stored' # {}
  /\ UNCHANGED <<arg, loaded>>
SaveFails == phase = "saving" /\ CutOff("idle") /\ err' = TRUE
Crash == CutOff("down") /\ err' = err

Next ==
  \/ Load
  \/ \E v \in Value : Save(v)
  \/ SaveReturns \/ SaveFails \/ Crash

Spec == Init /\ [][Next]_storageVars

=============================================================================

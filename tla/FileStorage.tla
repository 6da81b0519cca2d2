---------------------------- MODULE FileStorage -----------------------------
(***************************************************************************)
(* The Storage in a file of filestorage.go: Save writes state.tmp, syncs   *)
(* it, renames it over state and syncs the directory.  Any of these may    *)
(* fail, and the process or the machine may stop between any two.          *)
(*                                                                         *)
(* The file system (external): written data and renames are in the page    *)
(* cache until they are synced.  A process that dies loses none of that, a *)
(* machine that stops may lose all of it: the directory on disk names any  *)
(* of the files that state was since the directory was last synced, and a  *)
(* file whose data was not synced may hold part of it.                     *)
(*                                                                         *)
(* A definition whose name starts with "Wrong" is a faulty variant of the  *)
(* definition after it; nothing uses it but the mutation runs.             *)
(***************************************************************************)
CONSTANTS
  Value, Fresh,   \* as in Storage
  NoFile,         \* the content of a file that does not exist
  Partial,        \* the content of a file that does not decode
  CrashKinds      \* which of "process" and "power" may stop

ASSUME FileAssumption ==
  /\ Fresh \in Value /\ NoFile \notin Value /\ Partial \notin Value
  /\ NoFile # Partial
  /\ CrashKinds \subseteq {"process", "power"}

VARIABLES
  pc,      \* where the process is: "down", "idle" or the next step of Save
  arg,     \* the argument of the last Save
  loaded,  \* the state that the last Load returned
  err,     \* did the last Save return an error?
  quiet,   \* history: has Load returned, and nothing been saved since?
  size,    \* f.size, as the content whose length it is
  tmp,     \* the file state.tmp: its data, and whether they are synced
  state,   \* the file state, likewise
  onDisk   \* the contents that state may have after a power failure

files == <<tmp, state, onDisk>>
fileVars == <<pc, arg, loaded, err, quiet, size, files>>

File == [data : Value \cup {NoFile, Partial}, synced : BOOLEAN]
InSave == {"open", "write", "sync", "rename", "syncDir"}

Survivors(f) == IF f.synced THEN {f.data} ELSE {f.data, Partial}

Init ==
  /\ pc = "down" /\ arg = Fresh /\ loaded = Fresh
  /\ err = FALSE /\ quiet = FALSE /\ size = NoFile
  /\ tmp = [data |-> NoFile, synced |-> TRUE]
  /\ state = [data |-> NoFile, synced |-> TRUE]
  /\ onDisk = {NoFile}

(* NewFileStorage, and Load by New; a file that does not decode is an      *)
(* error, and the node does not start.                                     *)
WrongDecode(data) == data
Decode(data) == IF data = NoFile THEN Fresh ELSE data
Load ==
  /\ pc = "down" /\ state.data # Partial
  /\ pc' = "idle"
  /\ loaded' = Decode(state.data) /\ size' = state.data /\ quiet' = TRUE
  /\ UNCHANGED <<arg, err, files>>

Save(v) ==
  /\ pc = "idle" /\ pc' = "open"
  /\ arg' = v /\ quiet' = FALSE
  /\ UNCHANGED <<loaded, err, size, files>>

(* writeAndSync. *)
Open ==
  /\ pc = "open" /\ pc' = "write"
  /\ tmp' = [data |-> Partial, synced |-> FALSE]
  /\ UNCHANGED <<arg, loaded, err, quiet, size, state, onDisk>>

Write ==
  /\ pc = "write" /\ pc' = "sync"
  /\ tmp' = [data |-> arg, synced |-> FALSE]
  /\ UNCHANGED <<arg, loaded, err, quiet, size, state, onDisk>>

WrongSync ==
  /\ pc = "sync" /\ pc' = "rename"
  /\ UNCHANGED <<arg, loaded, err, quiet, size, tmp, state, onDisk>>
Sync ==
  /\ pc = "sync" /\ pc' = "rename"
  /\ tmp' = [tmp EXCEPT !.synced = TRUE]
  /\ UNCHANGED <<arg, loaded, err, quiet, size, state, onDisk>>

Rename ==
  /\ pc = "rename" /\ pc' = "syncDir"
  /\ state' = tmp
  /\ tmp' = [data |-> NoFile, synced |-> TRUE]
  /\ onDisk' = onDisk \cup Survivors(tmp)
  /\ UNCHANGED <<arg, loaded, err, quiet, size>>

(* syncDir, and Save returns nil. *)
WrongSyncDir ==
  /\ pc = "syncDir" /\ pc' = "idle"
  /\ size' = arg /\ err' = FALSE
  /\ UNCHANGED <<arg, loaded, quiet, files>>
SyncDir ==
  /\ pc = "syncDir" /\ pc' = "idle"
  /\ onDisk' = Survivors(state)
  /\ size' = arg /\ err' = FALSE
  /\ UNCHANGED <<arg, loaded, quiet, tmp, state>>

(* A step of Save fails, and Save returns the error. *)
SaveFails ==
  /\ pc \in InSave /\ pc' = "idle"
  /\ err' = TRUE
  /\ UNCHANGED <<arg, loaded, quiet, size, files>>

Crash(kind) ==
  /\ pc' = "down"
  /\ \/ /\ kind = "process" /\ pc # "down"
        /\ UNCHANGED files
     \/ /\ kind = "power"
        /\ \E data \in onDisk :
             /\ state' = [data |-> data, synced |-> TRUE]
             /\ onDisk' = {data}
        /\ tmp' = [data |-> Partial, synced |-> TRUE]
  /\ UNCHANGED <<arg, loaded, err, quiet, size>>

Next ==
  \/ Load
  \/ \E v \in Value : Save(v)
  \/ Open \/ Write \/ Sync \/ Rename \/ SyncDir
  \/ SaveFails
  \/ \E kind \in CrashKinds : Crash(kind)

Spec == Init /\ [][Next]_fileVars

-----------------------------------------------------------------------------
(* Every variable keeps its type. *)
TypeOK ==
  /\ pc \in {"down", "idle"} \cup InSave
  /\ arg \in Value /\ loaded \in Value
  /\ err \in BOOLEAN /\ quiet \in BOOLEAN
  /\ size \in Value \cup {NoFile}
  /\ tmp \in File /\ state \in File
  /\ onDisk \subseteq Value \cup {NoFile, Partial}

(* What Load may find: the file as it is now, as a power failure would     *)
(* leave it, and what a Save under way is about to store.                  *)
Loadable ==
  {Decode(data) : data \in {state.data} \cup onDisk}
    \cup (IF pc \in InSave THEN {arg} ELSE {})
Phase == IF pc \in InSave THEN "saving" ELSE pc

Promise == INSTANCE Storage WITH phase <- Phase, stored <- Loadable

(* FileStorage keeps the promise of Storage: "A crash at any point leaves  *)
(* either the old state or the new one, never half of each", and a state   *)
(* whose Save returned is what every Load returns until the next Save.     *)
KeepsPromise == Promise!Spec

(* A node that starts twice and saves nothing in between starts twice from *)
(* the same state: "Load returns the last saved state".                    *)
LoadStays == [][Load /\ quiet => loaded' = loaded]_fileVars

(* What the proof rests on: no file that state is or may become is torn,   *)
(* state.tmp is whole and synced before it is renamed.                     *)
NeverTorn ==
  /\ state.synced /\ state.data \in onDisk /\ Partial \notin onDisk
  /\ pc \in {"sync", "rename"} => tmp.data = arg
  /\ pc = "rename" => tmp.synced
  /\ pc = "syncDir" => state.data = arg

(* What Load reads after a power failure, and as long as nothing is saved, *)
(* is what is on disk.                                                     *)
Settled ==
  /\ pc \in InSave => ~ quiet
  /\ pc = "down" => onDisk = {state.data}
  /\ quiet => onDisk = {state.data} /\ loaded = Decode(state.data)

=============================================================================

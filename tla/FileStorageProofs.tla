------------------------- MODULE FileStorageProofs --------------------------
(***************************************************************************)
(* FileStorage implements Storage, for any states and any number of failed *)
(* saves and power failures.                                               *)
(***************************************************************************)
EXTENDS FileStorage, TLAPS

FileInv == TypeOK /\ NeverTorn
PowerOnly == CrashKinds = {"power"}

(* On fresh storage there is nothing that could be torn. *)
LEMMA FileInit == Init => FileInv /\ Settled
<1> SUFFICES ASSUME Init PROVE FileInv /\ Settled
  OBVIOUS
<1>1. err \in BOOLEAN /\ quiet \in BOOLEAN
  BY Zenon DEF Init
<1>2. tmp \in File /\ state \in File
  BY DEF Init, File
<1>3. TypeOK
  BY <1>1, <1>2, FileAssumption DEF Init, TypeOK
<1>4. NeverTorn /\ Settled
  BY FileAssumption DEF Init, NeverTorn, Settled, InSave
<1> QED
  BY <1>3, <1>4 DEF FileInv

(* Every step of Save, its failure and both kinds of crash keep the file   *)
(* whole.                                                                  *)
LEMMA FileStep == FileInv /\ [Next]_fileVars => FileInv'
<1> SUFFICES ASSUME FileInv, [Next]_fileVars PROVE FileInv'
  OBVIOUS
<1> USE FileAssumption DEF FileInv, TypeOK, NeverTorn, File, InSave
<1>1. CASE Load
  BY <1>1 DEF Load, Decode, files
<1>2. ASSUME NEW v \in Value, Save(v) PROVE FileInv'
  BY Zenon, <1>2 DEF Save, files
<1>3. CASE Open
  BY <1>3 DEF Open
<1>4. CASE Write
  BY <1>4 DEF Write
<1>5. CASE Sync
  BY Zenon, <1>5 DEF Sync
<1>6. CASE Rename
  BY <1>6 DEF Rename, Survivors
<1>7. CASE SyncDir
  BY Zenon, <1>7 DEF SyncDir, Survivors
<1>8. CASE SaveFails
  BY <1>8 DEF SaveFails, files
<1>9. ASSUME NEW kind \in CrashKinds, Crash(kind) PROVE FileInv'
  <2>1. CASE UNCHANGED files
    BY <1>9, <2>1 DEF Crash, files
  <2>2. ASSUME NEW data \in onDisk,
               state' = [data |-> data, synced |-> TRUE], onDisk' = {data},
               tmp' = [data |-> Partial, synced |-> TRUE]
        PROVE  FileInv'
    BY <1>9, <2>2 DEF Crash
  <2> QED  BY <1>9, <2>1, <2>2 DEF Crash
<1>10. CASE UNCHANGED fileVars
  BY <1>10 DEF fileVars, files
<1> QED
  BY <1>1, <1>2, <1>3, <1>4, <1>5, <1>6, <1>7, <1>8, <1>9, <1>10 DEF Next

(* If only the machine stops, never the process alone, what is read after  *)
(* a stop is what is on disk.                                              *)
LEMMA SettledStep ==
  PowerOnly /\ FileInv /\ Settled /\ [Next]_fileVars => Settled'
<1> SUFFICES ASSUME PowerOnly, FileInv, Settled, [Next]_fileVars PROVE Settled'
  OBVIOUS
<1> USE DEF Settled, InSave
<1>1. CASE Load
  BY <1>1 DEF Load, files
<1>2. ASSUME NEW v \in Value, Save(v) PROVE Settled'
  BY <1>2 DEF Save
<1>3. CASE Open \/ Write \/ Sync \/ Rename \/ SyncDir \/ SaveFails
  <2>1. ~ quiet /\ ~ quiet' /\ pc' # "down"
    BY <1>3 DEF Open, Write, Sync, Rename, SyncDir, SaveFails
  <2> QED  BY <2>1
<1>4. ASSUME NEW kind \in CrashKinds, Crash(kind) PROVE Settled'
  <2>1. PICK data \in onDisk : /\ state' = [data |-> data, synced |-> TRUE]
                               /\ onDisk' = {data}
    BY <1>4 DEF Crash, PowerOnly
  <2>2. quiet => data = state.data
    BY <2>1
  <2> QED  BY <1>4, <2>1, <2>2 DEF Crash, Decode
<1>5. CASE UNCHANGED fileVars
  BY <1>5 DEF fileVars, files
<1> QED
  BY <1>1, <1>2, <1>3, <1>4, <1>5 DEF Next
(* Each step of FileStorage is a step of Storage or changes nothing that   *)
(* Storage speaks of.                                                      *)
LEMMA PromiseStep ==
  FileInv /\ FileInv' /\ [Next]_fileVars
    => [Promise!Next]_(Promise!storageVars)
<1> SUFFICES ASSUME FileInv, FileInv', [Next]_fileVars
             PROVE  [Promise!Next]_(Promise!storageVars)
  OBVIOUS
<1> USE FileAssumption
    DEF FileInv, TypeOK, NeverTorn, InSave, Phase, Loadable, Promise!storageVars
<1>1. ASSUME NEW v \in Value, Save(v) PROVE Promise!Next
  <2>1. Promise!Save(v)
    BY <1>1 DEF Save, Promise!Save, files
  <2> QED  BY <2>1 DEF Promise!Next
<1>2. CASE Open \/ Write \/ Sync
  BY <1>2 DEF Open, Write, Sync
<1>3. CASE Rename
  <2>1. Loadable' = Loadable
    BY <1>3 DEF Rename, Survivors, Decode
  <2> QED  BY <1>3, <2>1 DEF Rename
<1>4. CASE SyncDir
  <2>1. Promise!SaveReturns
    BY <1>4 DEF SyncDir, Survivors, Decode, Promise!SaveReturns
  <2> QED  BY <2>1 DEF Promise!Next
<1>5. CASE SaveFails
  <2>1. Promise!SaveFails
    BY <1>5 DEF SaveFails, files, Promise!SaveFails, Promise!CutOff
  <2> QED  BY <2>1 DEF Promise!Next
<1>6. ASSUME NEW kind \in CrashKinds, Crash(kind) PROVE Promise!Next
  <2>1. Promise!Crash
    BY <1>6 DEF Crash, files, Promise!Crash, Promise!CutOff
  <2> QED  BY <2>1 DEF Promise!Next
<1>7. CASE UNCHANGED fileVars
  BY <1>7 DEF fileVars, files
<1>8. CASE Load
  <2>1. Promise!Load
    BY <1>8 DEF Load, Promise!Load, files
  <2> QED  BY <2>1 DEF Promise!Next
<1> QED
  BY Zenon, <1>1, <1>2, <1>3, <1>4, <1>5, <1>6, <1>7, <1>8 DEF Next

(* The initial states are those of a fresh Storage. *)
LEMMA PromiseInit == Init => Promise!Init
BY DEF Init, Promise!Init, Phase, Loadable, Decode, InSave

(* Every step of Save, every failure and every crash keeps the types.      *)
THEOREM FileTypeCorrect == Spec => []TypeOK
<1>1. Init => FileInv
  BY FileInit
<1>2. FileInv => TypeOK
  BY DEF FileInv
<1> QED
  BY <1>1, <1>2, FileStep, PTL DEF Spec

(* Whatever stops, fails or is cut off, the file that Load reads decodes:  *)
(* "never half of each".                                                   *)
THEOREM FileNeverTorn == Spec => []NeverTorn
<1>1. Init => FileInv
  BY FileInit
<1>2. FileInv => NeverTorn
  BY DEF FileInv
<1> QED
  BY <1>1, <1>2, FileStep, PTL DEF Spec

(* FileStorage keeps the promise of Storage, whatever steps of Save fail   *)
(* and wherever the process or the machine stops.                          *)
THEOREM FileKeepsPromise == Spec => KeepsPromise
<1>1. Init => FileInv /\ Promise!Init
  BY FileInit, PromiseInit
<1> QED
  BY <1>1, FileStep, PromiseStep, PTL DEF Spec, KeepsPromise, Promise!Spec

(* As long as a stop of the process is a stop of the machine, a node that  *)
(* starts again with nothing saved in between starts from the same state.  *)
THEOREM LoadStaysAfterPowerFailures == PowerOnly => (Spec => LoadStays)
<1> SUFFICES ASSUME PowerOnly PROVE Spec => LoadStays
  OBVIOUS
<1>1. Init => FileInv /\ Settled
  BY FileInit
<1>2. FileInv /\ Settled /\ [Next]_fileVars => FileInv' /\ Settled'
  BY FileStep, SettledStep
<1>3. Settled => (Load /\ quiet => loaded' = loaded)
  BY DEF Settled, Load
<1>4. Settled => [Load /\ quiet => loaded' = loaded]_fileVars
  BY <1>3
<1> QED
  BY <1>1, <1>2, <1>4, PTL DEF Spec, LoadStays

=============================================================================

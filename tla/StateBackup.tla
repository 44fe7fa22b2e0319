------------------------------- MODULE StateBackup -------------------------------
(***************************************************************************)
(* Backup and restoration of the agent's state (agent/src/stateBackup.ts).  *)
(* A timer that does not wait for the previous backup saves a stamped state *)
(* to every store in turn; a restarted agent takes the first value that one *)
(* of the stores, primary first, returns.  The state is the moment it was   *)
(* stamped at.                                                              *)
(***************************************************************************)
EXTENDS Naturals

CONSTANTS
  Stores,        \* how many stores the agent has, the primary is 1
  FileStores,    \* those whose failed write may leave a file nobody can parse
  Backups,       \* backups that may be under way at a time
  MaxBackups, MaxRestores, MaxReleases  \* bounds of the runs

ASSUME BackupAssumption ==
  /\ Stores \in Nat \ {0} /\ FileStores \subseteq 1 .. Stores
  /\ {MaxBackups, MaxRestores, MaxReleases} \subseteq Nat

VARIABLES
  agentPhase,    \* what the process is doing
  release,       \* its AGENT_STATE_VERSION
  stamp,         \* the clock, advanced by a backup
  backup,        \* backups under way
  stored,        \* what each store holds under the key
  lastState,
  restoring,     \* the restoration under way
  settled,       \* newest stamp that every store accepted, undisturbed
  restarts

backupVars == <<agentPhase, release, stamp, backup, stored, lastState, restoring, settled, restarts>>
process == <<agentPhase, release, restarts>>

NoState == [version |-> 0, savedAt |-> 0]
Unreadable == [version |-> 0, savedAt |-> 1]  \* half a file
States == [version : 0 .. 1 + MaxReleases, savedAt : 0 .. MaxBackups + 1]
NoBackup == [at |-> 0, state |-> NoState, failed |-> 0, alone |-> FALSE]
NoRestore == [at |-> 0, threw |-> FALSE, state |-> NoState]

BackupTypeOK ==
  /\ agentPhase \in {"down", "restoring", "restored", "running"}
  /\ release \in 1 .. 1 + MaxReleases
  /\ stamp \in 0 .. MaxBackups
  /\ backup \in [Backups -> [at : 0 .. Stores + 1, state : States, failed : 0 .. Stores,
                             alone : BOOLEAN]]
  /\ stored \in [1 .. Stores -> States]
  /\ lastState \in States
  /\ restoring \in [at : 0 .. Stores + 1, threw : BOOLEAN, state : States]
  /\ settled \in 0 .. MaxBackups /\ restarts \in 0 .. MaxRestores

BackupInit ==
  /\ agentPhase = "running" /\ release = 1 /\ stamp = 0
  /\ backup = [b \in Backups |-> NoBackup]
  /\ stored = [s \in 1 .. Stores |-> NoState]
  /\ lastState = NoState /\ restoring = NoRestore /\ settled = 0 /\ restarts = 0

-----------------------------------------------------------------------------
(* startAutoBackup, and MultiStateStore.save. *)

UnderWay == {b \in Backups : backup[b].at > 0}

\* The timer fires: backup() stamps the state and begins with the primary.
BeginBackup(b) ==
  /\ agentPhase = "running" /\ b \notin UnderWay /\ stamp < MaxBackups
  /\ stamp' = stamp + 1
  /\ backup' = [c \in Backups |->
       IF c = b THEN [at |-> 1, state |-> [version |-> release, savedAt |-> stamp'],
                      failed |-> 0, alone |-> UnderWay = {}]
       ELSE [backup[c] EXCEPT !.alone = FALSE]]
  /\ UNCHANGED process /\ UNCHANGED <<stored, lastState, restoring, settled>>

\* Mutant of Upserted: the row that is there is kept.
KeptOnConflict(s, state) == IF stored[s] = NoState THEN state ELSE stored[s]
\* ON CONFLICT DO UPDATE, writeFile, PUT
Upserted(s, state) == state

SaveSucceeds(b) ==
  LET s == backup[b].at IN
  /\ s \in 1 .. Stores
  /\ stored' = [stored EXCEPT ![s] = Upserted(s, backup[b].state)]
  /\ backup' = [backup EXCEPT ![b].at = s + 1]
  /\ UNCHANGED process /\ UNCHANGED <<stamp, lastState, restoring, settled>>

\* The error is collected and the next store tried; the state may have arrived
\* although the answer did not, and half of a file may.
SaveFails(b) ==
  LET s == backup[b].at IN
  /\ s \in 1 .. Stores
  /\ \E left \in {stored[s], Upserted(s, backup[b].state)}
                   \cup (IF s \in FileStores THEN {Unreadable} ELSE {}) :
       stored' = [stored EXCEPT ![s] = left]
  /\ backup' = [backup EXCEPT ![b].at = s + 1, ![b].failed = @ + 1]
  /\ UNCHANGED process /\ UNCHANGED <<stamp, lastState, restoring, settled>>

\* Throws only if every store failed; a store's failure is only logged.
EndBackup(b) ==
  /\ backup[b].at = Stores + 1
  /\ lastState' = IF backup[b].failed = Stores THEN lastState ELSE backup[b].state
  /\ settled' = IF backup[b].failed = 0 /\ backup[b].alone THEN backup[b].state.savedAt
                ELSE settled
  /\ backup' = [backup EXCEPT ![b] = NoBackup]
  /\ UNCHANGED process /\ UNCHANGED <<stamp, stored, restoring>>

-----------------------------------------------------------------------------
(* A crash, perhaps a new release, and the restoration. *)

Crash ==
  /\ agentPhase # "down" /\ restarts < MaxRestores
  /\ agentPhase' = "down" /\ restarts' = restarts + 1
  /\ backup' = [b \in Backups |-> NoBackup] /\ lastState' = NoState /\ restoring' = NoRestore
  /\ UNCHANGED <<release, stamp, stored, settled>>

Starts ==
  /\ agentPhase = "down"
  /\ agentPhase' = "restoring" /\ restoring' = [NoRestore EXCEPT !.at = 1]
  /\ release' \in release .. 1 + MaxReleases
  /\ UNCHANGED <<restarts, stamp, backup, stored, lastState, settled>>

\* parseAgentState
Parsed(raw) == IF raw.version = release THEN raw ELSE NoState

Restores(raw) ==
  /\ agentPhase' = "restored"
  /\ restoring' = [restoring EXCEPT !.at = 0, !.state = Parsed(raw)]
  /\ lastState' = IF Parsed(raw) = NoState THEN lastState ELSE Parsed(raw)

\* MultiStateStore.load: the first value that is not null, whatever it is.
LoadFrom ==
  LET s == restoring.at IN
  /\ agentPhase = "restoring" /\ s \in 1 .. Stores
  /\ IF stored[s] \in {NoState, Unreadable}
       THEN /\ restoring' = [restoring EXCEPT !.at = s + 1]
            /\ UNCHANGED <<agentPhase, lastState>>
       ELSE Restores(stored[s])
  /\ UNCHANGED <<release, restarts, stamp, backup, stored, settled>>

LoadThrows ==
  /\ agentPhase = "restoring" /\ restoring.at \in 1 .. Stores
  /\ restoring' = [restoring EXCEPT !.at = @ + 1, !.threw = TRUE]
  /\ UNCHANGED process /\ UNCHANGED <<stamp, backup, stored, lastState, settled>>

NothingFound ==
  /\ agentPhase = "restoring" /\ restoring.at = Stores + 1
  /\ Restores(NoState)
  /\ UNCHANGED <<release, restarts, stamp, backup, stored, settled>>

\* The agent goes on from what it was given, and starts the timer.
Resumes ==
  /\ agentPhase = "restored" /\ agentPhase' = "running" /\ restoring' = NoRestore
  /\ UNCHANGED <<release, restarts, stamp, backup, stored, lastState, settled>>

BackupNext ==
  \/ \E b \in Backups : BeginBackup(b) \/ SaveSucceeds(b) \/ SaveFails(b) \/ EndBackup(b)
  \/ Crash \/ Starts \/ LoadFrom \/ LoadThrows \/ NothingFound \/ Resumes

BackupSpec == BackupInit /\ [][BackupNext]_backupVars

-----------------------------------------------------------------------------
(* Properties. *)

(***************************************************************************)
(* The recovery point: whatever loads fail, a restart never resumes from a  *)
(* state older than the newest one that every store had accepted while no   *)
(* other backup was under way.                                              *)
(***************************************************************************)
RestoredIsFresh ==
  agentPhase = "restored" /\ restoring.state # NoState => restoring.state.savedAt >= settled

(***************************************************************************)
(* "An old/incompatible backup is rejected instead of silently corrupting   *)
(* the new instance": what the agent holds as its last state, saved or      *)
(* restored, has the version of its release.                                *)
(***************************************************************************)
LastStateIsOfRelease ==
  agentPhase # "down" /\ lastState # NoState => lastState.version = release

(***************************************************************************)
(* What a restarted agent begins with is usable and as fresh as its stores  *)
(* allow.                                                                   *)
(***************************************************************************)
BackupSafety == BackupTypeOK /\ RestoredIsFresh /\ LastStateIsOfRelease
================================================================================

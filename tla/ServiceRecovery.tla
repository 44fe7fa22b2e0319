--------------------------- MODULE ServiceRecovery ---------------------------
(***************************************************************************)
(* Recovery after an outage of Redis and the database (serviceRecovery.ts). *)
(* Each ledger carries one event of the vault, so "head" counts both.  The  *)
(* adapters behave like those of the rehearsal harness: every job is        *)
(* returned whatever its status, and inserts are idempotent.                *)
(***************************************************************************)
EXTENDS Integers, FiniteSets

CONSTANTS
  RecoveryJobs,   \* jobs in the Redis queue
  KeyOf,          \* their idempotency keys
  LastEvent,      \* bound of the runs on the ledger
  MaxOutages      \* failed requests, crashes and reruns

RecoveryKeys == {KeyOf[j] : j \in RecoveryJobs}

\* The ledger has room for the event of each action.
ASSUME ServiceAssumption ==
  /\ IsFiniteSet(RecoveryKeys) /\ LastEvent \in Nat /\ MaxOutages \in Nat
  /\ Cardinality(RecoveryKeys) < LastEvent

VARIABLES
  malformed,     \* jobs validateQueuedTransaction rejects
  status,        \* status of each job
  actionLanded,        \* how often the action of each key took effect
  pending,       \* keys with a submission the network may still apply
  doubtful,      \* keys whose submission ended without an answer
  redisKeys,     \* idempotency keys in Redis
  dbKeys,        \* idempotency keys in the database
  eventHead,     \* latest ledger of the chain
  unserved,      \* ledgers whose events the RPC cannot return for now
  indexed,       \* ledgers whose event is in the database
  saved,         \* the checkpoint in the database
  run,           \* the recovery under way
  outages

serviceVars == <<malformed, status, actionLanded, pending, doubtful, redisKeys, dbKeys, eventHead,
                 unserved, indexed, saved, run, outages>>
chain == <<actionLanded, pending, doubtful, eventHead, unserved>>

Events == 1 .. LastEvent
RunPhases == {"down", "backfill", "dedupe", "reconcile", "execute", "record", "up"}

\* top: chainLatestLedger; fetched: events still to insert; confirmed:
\* chainConfirmedMap; left: jobs not yet looked at; gaps: is a gap unresolved?
NoRecovery == [phase |-> "down", top |-> 0, fetched |-> {}, confirmed |-> {},
               left |-> {}, ready |-> {}, gaps |-> FALSE, note |-> 0]

ServiceTypeOK ==
  /\ status \in [RecoveryJobs ->
                   {"queued", "in_flight", "confirmed", "skipped_duplicate", "blocked"}]
  /\ malformed \subseteq RecoveryJobs
  /\ actionLanded \in [RecoveryKeys -> Nat]
  /\ pending \subseteq RecoveryKeys /\ doubtful \subseteq RecoveryKeys
  /\ redisKeys \subseteq RecoveryKeys /\ dbKeys \subseteq RecoveryKeys
  /\ eventHead \in Events /\ saved \in Events
  /\ unserved \subseteq Events /\ indexed \subseteq Events
  /\ run \in [phase : RunPhases, top : 0 .. LastEvent, fetched : SUBSET Events,
              confirmed : SUBSET RecoveryKeys, left : SUBSET RecoveryJobs,
              ready : SUBSET RecoveryJobs, gaps : BOOLEAN, note : 0 .. 2]
  /\ outages \in 0 .. MaxOutages

\* The outage: what was in flight has landed, may land, or was dropped.
ServiceInit ==
  /\ malformed \in SUBSET RecoveryJobs
  /\ status \in [RecoveryJobs -> {"queued", "in_flight"}]
  /\ doubtful = {KeyOf[j] : j \in {i \in RecoveryJobs : status[i] = "in_flight"}}
  /\ pending \in SUBSET doubtful
  /\ actionLanded \in {f \in [RecoveryKeys -> 0 .. 1] :
                   \A k \in RecoveryKeys : f[k] = 1 => k \in doubtful \ pending}
  /\ redisKeys = {}
  /\ dbKeys \in SUBSET {k \in RecoveryKeys : actionLanded[k] = 1}
  /\ saved = 1 /\ indexed = {1}
  /\ eventHead = 1 + Cardinality({k \in RecoveryKeys : actionLanded[k] = 1})
  /\ unserved \in SUBSET (2 .. eventHead)
  /\ run = NoRecovery /\ outages = 0

\* Pings, getNetworkPassphrase, getCheckpointLedger, getLatestLedger and
\* getVaultEvents: the events of the window the RPC can return.
BeginRecovery ==
  /\ run.phase = "down"
  /\ LET window == saved + 1 .. eventHead
     IN  run' = [NoRecovery EXCEPT !.phase = "backfill", !.top = eventHead,
                                   !.fetched = window \ unserved,
                                   !.gaps = window \cap unserved # {}]
  /\ UNCHANGED <<status, redisKeys, dbKeys, indexed, saved, outages>> /\ UNCHANGED chain

\* The adapters: an event is inserted once; every job is returned whatever its
\* status; the totals agree when every event of the chain is in the database.
Inserted(e) == indexed \cup {e}
PendingJobs == RecoveryJobs
ConfirmedOnChain == {k \in RecoveryKeys : actionLanded[k] > 0}
TotalsAgree == indexed = 1 .. eventHead

InsertIndexedEvent ==
  /\ run.phase = "backfill"
  /\ \E e \in run.fetched : /\ indexed' = Inserted(e)
                            /\ run' = [run EXCEPT !.fetched = @ \ {e}]
  /\ UNCHANGED <<status, redisKeys, dbKeys, saved, outages>> /\ UNCHANGED chain

\* The keys of Redis and the database are read as well, and not changed by others.
ReadQueue ==
  /\ run.phase = "backfill" /\ run.fetched = {}
  /\ run' = [run EXCEPT !.phase = "dedupe", !.left = PendingJobs,
                        !.confirmed = ConfirmedOnChain]
  /\ UNCHANGED <<status, redisKeys, dbKeys, indexed, saved, outages>> /\ UNCHANGED chain

InBatch(k) == k \in {KeyOf[j] : j \in run.ready}

\* The key is in Redis, in the database or confirmed on chain, or twice in the batch.
DuplicateOfRecords(k) == k \in redisKeys \cup dbKeys \cup run.confirmed
Duplicate(k) == DuplicateOfRecords(k) \/ InBatch(k)
Remembered(k) == redisKeys \cup {k}
RecordedIfConfirmed(k) == IF k \in run.confirmed THEN dbKeys \cup {k} ELSE dbKeys

Blocks(j) ==
  /\ status' = [status EXCEPT ![j] = "blocked"]
  /\ run' = [run EXCEPT !.left = @ \ {j}, !.gaps = TRUE]
  /\ UNCHANGED <<redisKeys, dbKeys>>

SkipsDuplicate(j) ==
  /\ status' = [status EXCEPT ![j] = "skipped_duplicate"]
  /\ redisKeys' = Remembered(KeyOf[j])
  /\ dbKeys' = RecordedIfConfirmed(KeyOf[j])
  /\ run' = [run EXCEPT !.left = @ \ {j}]

Deduplicate(j) ==
  /\ run.phase = "dedupe" /\ j \in run.left
  /\ \/ j \in malformed /\ Blocks(j)
     \/ j \notin malformed /\ Duplicate(KeyOf[j]) /\ SkipsDuplicate(j)
     \/ /\ j \notin malformed /\ ~Duplicate(KeyOf[j])
        /\ \/ status[j] = "in_flight" /\ Blocks(j)
           \/ /\ status[j] # "in_flight"
              /\ run' = [run EXCEPT !.left = @ \ {j}, !.ready = @ \cup {j}]
              /\ UNCHANGED <<status, redisKeys, dbKeys>>
  /\ UNCHANGED <<indexed, saved, outages>> /\ UNCHANGED chain

Reconcile ==
  /\ run.phase = "dedupe" /\ run.left = {}
  /\ run' = [run EXCEPT !.phase = "reconcile", !.gaps = @ \/ ~TotalsAgree]
  /\ UNCHANGED <<status, redisKeys, dbKeys, indexed, saved, outages>> /\ UNCHANGED chain

BlockRecovery ==
  /\ run.phase = "reconcile" /\ run.gaps
  /\ status' = [j \in RecoveryJobs |-> IF j \in run.ready THEN "blocked" ELSE status[j]]
  /\ run' = NoRecovery
  /\ UNCHANGED <<redisKeys, dbKeys, indexed, saved, outages>> /\ UNCHANGED chain

OpenGate ==
  /\ run.phase = "reconcile" /\ ~run.gaps
  /\ run' = [run EXCEPT !.phase = "execute"]
  /\ UNCHANGED <<status, redisKeys, dbKeys, indexed, saved, outages>> /\ UNCHANGED chain

Landing(k) == /\ eventHead < LastEvent /\ eventHead' = eventHead + 1
              /\ actionLanded' = [actionLanded EXCEPT ![k] = @ + 1]

\* executeFinancialAction returns the hash; the three records follow, each
\* awaited: "note" counts the ones written.
Execute(j) ==
  /\ run.phase = "execute" /\ j \in run.ready
  /\ Landing(KeyOf[j])
  /\ run' = [run EXCEPT !.phase = "record", !.left = {j}]
  /\ UNCHANGED <<status, pending, doubtful, redisKeys, dbKeys, unserved, indexed, saved, outages>>

RecordExecuted(j) ==
  /\ run.phase = "record" /\ run.left = {j}
  /\ redisKeys' = IF run.note = 0 THEN redisKeys \cup {KeyOf[j]} ELSE redisKeys
  /\ status' = IF run.note = 1 THEN [status EXCEPT ![j] = "confirmed"] ELSE status
  /\ dbKeys' = IF run.note = 2 THEN dbKeys \cup {KeyOf[j]} ELSE dbKeys
  /\ run' = IF run.note < 2 THEN [run EXCEPT !.note = @ + 1]
            ELSE [run EXCEPT !.phase = "execute", !.left = {}, !.note = 0,
                             !.ready = @ \ {j}]
  /\ UNCHANGED <<indexed, saved, outages>> /\ UNCHANGED chain

\* Mutant of ReconciledLedger: the ledger of the chain by now.
LedgerAtEnd == eventHead
ReconciledLedger == run.top

\* saveCheckpointLedger, the backup and onWorkerResume.
ResumeWorkers ==
  /\ run.phase = "execute" /\ run.ready = {}
  /\ saved' = ReconciledLedger
  /\ run' = [NoRecovery EXCEPT !.phase = "up"]
  /\ UNCHANGED <<status, redisKeys, dbKeys, indexed, outages>> /\ UNCHANGED chain

\* executeFinancialAction throws after it has submitted: so does runRecovery.
ExecuteThrows(j) ==
  /\ run.phase = "execute" /\ j \in run.ready
  /\ outages < MaxOutages /\ outages' = outages + 1
  /\ pending' = pending \cup {KeyOf[j]} /\ doubtful' = doubtful \cup {KeyOf[j]}
  /\ run' = NoRecovery
  /\ UNCHANGED <<status, actionLanded, redisKeys, dbKeys, eventHead, unserved, indexed, saved>>

\* A request fails or the process dies at any await.
RecoveryDies ==
  /\ run.phase \notin {"down", "up"}
  /\ outages < MaxOutages /\ outages' = outages + 1
  /\ run' = NoRecovery
  /\ UNCHANGED <<status, redisKeys, dbKeys, indexed, saved>> /\ UNCHANGED chain

PendingLands(k) ==
  /\ k \in pending
  /\ Landing(k)
  /\ pending' = pending \ {k}
  /\ UNCHANGED <<status, doubtful, redisKeys, dbKeys, unserved, indexed, saved, run, outages>>

PendingExpires(k) ==
  /\ k \in pending /\ pending' = pending \ {k}
  /\ UNCHANGED <<status, actionLanded, doubtful, redisKeys, dbKeys, eventHead, unserved,
                 indexed, saved, run, outages>>

UserEvent ==
  /\ eventHead < LastEvent /\ eventHead' = eventHead + 1
  /\ UNCHANGED <<status, actionLanded, pending, doubtful, redisKeys, dbKeys, unserved,
                 indexed, saved, run, outages>>

RpcHeals ==
  /\ unserved # {} /\ unserved' = {}
  /\ UNCHANGED <<status, actionLanded, pending, doubtful, redisKeys, dbKeys, eventHead,
                 indexed, saved, run, outages>>

ServiceNext ==
  /\ UNCHANGED malformed
  /\ \/ BeginRecovery \/ InsertIndexedEvent \/ ReadQueue \/ Reconcile \/ BlockRecovery
     \/ OpenGate \/ ResumeWorkers \/ RecoveryDies \/ UserEvent \/ RpcHeals
     \/ \E j \in RecoveryJobs : Deduplicate(j) \/ Execute(j) \/ RecordExecuted(j) \/ ExecuteThrows(j)
     \/ \E k \in RecoveryKeys : PendingLands(k) \/ PendingExpires(k)

ServiceSpec == ServiceInit /\ [][ServiceNext]_serviceVars

(***************************************************************************)
(* The saved checkpoint never passes a ledger whose event is missing from   *)
(* the database, whatever lands, fails or crashes between the read of the   *)
(* latest ledger and the write of the checkpoint.                           *)
(***************************************************************************)
CheckpointCovered == 1 .. saved \subseteq indexed

(***************************************************************************)
(* An action lands twice only when an earlier submission of it ended        *)
(* without an answer: the same key queued twice, a crash between the        *)
(* execution and its three records, and a rerun do not repeat it.           *)
(***************************************************************************)
RepeatsOnlyInDoubt == \A k \in RecoveryKeys : actionLanded[k] > 1 => k \in doubtful

(***************************************************************************)
(* When the workers resume, Redis knows every queued action that has       *)
(* landed by then, whatever was in the air at the outage or was submitted   *)
(* by a recovery that failed: no worker will repeat it.                     *)
(***************************************************************************)
ResumedKnowsLanded ==
  run.phase = "up" => {k \in RecoveryKeys : actionLanded[k] > 0} \subseteq redisKeys

(***************************************************************************)
(* A recovery neither loses events nor repeats what it can know has landed. *)
(***************************************************************************)
RecoverySafety ==
  /\ ServiceTypeOK
  /\ CheckpointCovered /\ RepeatsOnlyInDoubt /\ ResumedKnowsLanded
================================================================================

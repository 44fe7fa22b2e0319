--------------------------- MODULE TransactionQueue ---------------------------
(***************************************************************************)
(* The agent's Stellar submission queue (agent/src/transactionQueue.ts):   *)
(* callers enqueue under a deduplication key, workers build, sign and      *)
(* submit, Bull retries, and exhausted jobs are copied to a dead-letter    *)
(* queue.  Redis, Bull and Horizon are external.                           *)
(*                                                                         *)
(* Callers ask for one and the same request, so all use one deduplication  *)
(* key.  Every await is a point where other callers, workers, timers and a *)
(* crash of the process may step in.                                       *)
(***************************************************************************)
EXTENDS Naturals, FiniteSets

CONSTANTS
  Callers,
  Jobs,         \* identities Bull can give to jobs
  Runs,         \* executions of the processor at one time (CONCURRENCY)
  Kinds,        \* "payment": built by the worker, "envelope": built by the caller
  MaxLost,      \* lost replies, timeouts and crashes in a behaviour
  MaxMisses,    \* submissions that fail without an effect
  KeysExpire    \* does the time to live of a key pass?

ASSUME QueueAssumption ==
  /\ Jobs # {} /\ IsFiniteSet(Runs)
  /\ Kinds \subseteq {"payment", "envelope"}
  /\ MaxLost \in Nat /\ MaxMisses \in Nat
  /\ KeysExpire \in BOOLEAN

VARIABLES
  caller,       \* where each call of enqueueTransaction stands
  seen,         \* is dedup:tx:<key> set in Redis?
  jobs,         \* Bull's record of each job
  runs,         \* what each execution of the processor is doing
  failedEvents, \* jobs whose `failed' handler has yet to add the dead letter
  dead,         \* jobs in the dead-letter queue
  sequence,     \* the agent account's sequence number on the network
  applied,      \* how often the network has applied each job's transaction
  lost,         \* outcomes of each job's submissions nobody has learned of
  misses,       \* submissions so far that failed without an effect
  crashed       \* has the process died?

queueVars == <<caller, seen, jobs, runs, failedEvents, dead, sequence, applied,
               lost, misses, crashed>>

Attempts           == 3   \* defaultJobOptions.attempts
MAX_SEQUENCE_RETRIES == 3

JobStates  == {"none", "waiting", "active", "delayed", "completed", "failed"}
JobRecords == [state : JobStates, kind : Kinds, made : 0..Attempts, seq : Nat]
\* Where a run of submitWithSequenceRetry stands; `own' is false once Bull has
\* given up on the run, which goes on all the same.
RunRecords == [step : {"free", "build", "submit"}, job : Jobs, own : BOOLEAN,
               attempt : 0..MAX_SEQUENCE_RETRIES - 1, seq : Nat]
NoRun == [step |-> "free", job |-> CHOOSE j \in Jobs : TRUE, own |-> FALSE,
          attempt |-> 0, seq |-> 0]

QueueTypeOK ==
  /\ caller \in [Callers -> {"idle", "unseen", "marked"}]
  /\ seen \in BOOLEAN
  /\ jobs \in [Jobs -> JobRecords]
  /\ runs \in [Runs -> RunRecords]
  /\ failedEvents \subseteq Jobs /\ dead \subseteq Jobs
  /\ sequence \in Nat /\ misses \in Nat /\ crashed \in BOOLEAN
  /\ applied \in [Jobs -> Nat] /\ lost \in [Jobs -> Nat]

LostSoFar == Cardinality({s \in Jobs \X (1..MaxLost) : s[2] <= lost[s[1]]})

QueueInit ==
  /\ caller = [c \in Callers |-> "idle"]
  /\ seen = FALSE
  /\ jobs \in [Jobs -> [state : {"none"}, kind : Kinds, made : {0}, seq : {0}]]
  /\ runs = [r \in Runs |-> NoRun]
  /\ failedEvents = {} /\ dead = {}
  /\ sequence = 0 /\ misses = 0 /\ crashed = FALSE
  /\ applied = [j \in Jobs |-> 0] /\ lost = [j \in Jobs |-> 0]

-----------------------------------------------------------------------------
(* enqueueTransaction: three calls to Redis, each awaited. *)

\* isDuplicate; a duplicate returns null.
CheckSeen(c) ==
  /\ caller[c] = "idle"
  /\ ~seen
  /\ caller' = [caller EXCEPT ![c] = "unseen"]
  /\ UNCHANGED <<seen, jobs, runs, failedEvents, dead, sequence, applied, lost, misses, crashed>>

MarkSeen(c) ==
  /\ caller[c] = "unseen"
  /\ seen' = TRUE
  /\ caller' = [caller EXCEPT ![c] = "marked"]
  /\ UNCHANGED <<jobs, runs, failedEvents, dead, sequence, applied, lost, misses, crashed>>

\* An envelope carries the sequence number its builder saw.
AddJob(c) ==
  /\ caller[c] = "marked"
  /\ \E j \in Jobs :
       /\ jobs[j].state = "none"
       /\ jobs' = [jobs EXCEPT ![j].state = "waiting", ![j].seq = sequence + 1]
  /\ caller' = [caller EXCEPT ![c] = "idle"]
  /\ UNCHANGED <<seen, runs, failedEvents, dead, sequence, applied, lost, misses, crashed>>

\* The key's time to live, DEDUP_TTL_MS.
ForgetKey ==
  /\ seen /\ KeysExpire
  /\ seen' = FALSE
  /\ UNCHANGED <<caller, jobs, runs, failedEvents, dead, sequence, applied, lost, misses, crashed>>

-----------------------------------------------------------------------------
(* The processor. *)

Free(r) == [runs EXCEPT ![r] = NoRun]

\* Bull's record of j after a failed attempt: delayed, or failed for good.
AfterFailure(j) ==
  [jobs EXCEPT ![j].made = @ + 1,
               ![j].state = IF jobs[j].made + 1 < Attempts THEN "delayed" ELSE "failed"]

\* The `failed' handler's test, with attemptsMade counting this failure.
Exhausted(j) == jobs[j].made + 1 >= Attempts

\* A failure of attempt reaches Bull only while the attempt is still its own.
FailAttempt(r) ==
  LET j == runs[r].job IN
  /\ runs' = Free(r)
  /\ IF runs[r].own
       THEN /\ jobs' = AfterFailure(j)
            /\ failedEvents' = IF Exhausted(j) THEN failedEvents \cup {j} ELSE failedEvents
       ELSE UNCHANGED <<jobs, failedEvents>>

StartRun(r) ==
  /\ runs[r].step = "free"
  /\ \E j \in Jobs :
       /\ jobs[j].state = "waiting"
       /\ jobs' = [jobs EXCEPT ![j].state = "active"]
       /\ runs' = [runs EXCEPT ![r] = [step |-> "build", job |-> j, own |-> TRUE,
                                       attempt |-> 0, seq |-> 0]]
  /\ UNCHANGED <<caller, seen, failedEvents, dead, sequence, applied, lost, misses, crashed>>

\* Mutant of SequenceFor: an envelope is rebuilt on the account just loaded, as the
\* comments of the code say it is (transactionQueue.ts:199-202).
SequenceRefetched(j) == sequence + 1
\* loadAccount, then a new transaction, or the envelope as it was, signed again: what the
\* account has become by then is not used.
SequenceFor(j) == IF jobs[j].kind = "payment" THEN sequence + 1 ELSE jobs[j].seq

BuildAndSign(r) ==
  /\ runs[r].step = "build"
  /\ runs' = [runs EXCEPT ![r].step = "submit", ![r].seq = SequenceFor(runs[r].job)]
  /\ UNCHANGED <<caller, seen, jobs, failedEvents, dead, sequence, applied, lost, misses, crashed>>

\* The network applies the transaction and Horizon's answer arrives.
Submit(r) ==
  LET j == runs[r].job IN
  /\ runs[r].step = "submit"
  /\ runs[r].seq = sequence + 1
  /\ sequence' = sequence + 1
  /\ applied' = [applied EXCEPT ![j] = @ + 1]
  /\ runs' = Free(r)
  /\ jobs' = IF runs[r].own THEN [jobs EXCEPT ![j].state = "completed"] ELSE jobs
  /\ UNCHANGED <<caller, seen, failedEvents, dead, lost, misses, crashed>>

\* It is applied, but the answer is a gateway timeout.
ReplyLost(r) ==
  LET j == runs[r].job IN
  /\ runs[r].step = "submit"
  /\ runs[r].seq = sequence + 1
  /\ LostSoFar < MaxLost
  /\ sequence' = sequence + 1
  /\ applied' = [applied EXCEPT ![j] = @ + 1]
  /\ lost' = [lost EXCEPT ![j] = @ + 1]
  /\ FailAttempt(r)
  /\ UNCHANGED <<caller, seen, dead, misses, crashed>>

\* Mutant of RetrySequence: the attempt is not counted.
RetrySequenceForever(r) ==
  /\ runs[r].step = "submit" /\ runs[r].seq # sequence + 1
  /\ runs' = [runs EXCEPT ![r].step = "build"]
  /\ UNCHANGED <<caller, seen, jobs, failedEvents, dead, sequence, applied, lost, misses, crashed>>
\* tx_bad_seq, recognised by the wording of the error: re-fetch and retry.
RetrySequence(r) ==
  /\ runs[r].step = "submit"
  /\ runs[r].seq # sequence + 1
  /\ runs[r].attempt < MAX_SEQUENCE_RETRIES - 1
  /\ runs' = [runs EXCEPT ![r].step = "build", ![r].attempt = @ + 1]
  /\ UNCHANGED <<caller, seen, jobs, failedEvents, dead, sequence, applied, lost, misses, crashed>>

\* Any other error, a mismatch the wording hides, or the last retry: the
\* attempt fails and the network has applied nothing.
SubmitFails(r) ==
  /\ runs[r].step = "submit"
  /\ \/ runs[r].seq # sequence + 1 /\ UNCHANGED misses
     \/ misses < MaxMisses /\ misses' = misses + 1
  /\ FailAttempt(r)
  /\ UNCHANGED <<caller, seen, dead, sequence, applied, lost, crashed>>

-----------------------------------------------------------------------------
(* Bull: the back-off, the job timeout, and a restart of the process. *)

Promote(j) ==
  /\ jobs[j].state = "delayed"
  /\ jobs' = [jobs EXCEPT ![j].state = "waiting"]
  /\ UNCHANGED <<caller, seen, runs, failedEvents, dead, sequence, applied, lost, misses, crashed>>

Disowned(r) == [runs EXCEPT ![r].own = FALSE]

\* After 60 s Bull fails the attempt; the processor's promise is not stopped.
AttemptTimesOut(r) ==
  LET j == runs[r].job IN
  /\ runs[r].step # "free" /\ runs[r].own
  /\ LostSoFar < MaxLost
  /\ lost' = [lost EXCEPT ![j] = @ + 1]
  /\ runs' = Disowned(r)
  /\ jobs' = AfterFailure(j)
  /\ failedEvents' = IF Exhausted(j) THEN failedEvents \cup {j} ELSE failedEvents
  /\ UNCHANGED <<caller, seen, dead, sequence, applied, misses, crashed>>

\* The `failed' handler adds the dead letter, under an id made from the job's.
AddDeadLetter(j) ==
  /\ j \in failedEvents
  /\ dead' = dead \cup {j}
  /\ failedEvents' = failedEvents \ {j}
  /\ UNCHANGED <<caller, seen, jobs, runs, sequence, applied, lost, misses, crashed>>

\* The process dies with a run under way: the calls under way are gone and
\* Bull puts the stalled jobs back once.
CrashAgent ==
  LET stalled == {j \in Jobs : jobs[j].state = "active"} IN
  /\ stalled # {}
  /\ LostSoFar + Cardinality(stalled) <= MaxLost
  /\ caller' = [c \in Callers |-> "idle"]
  /\ runs' = [r \in Runs |-> NoRun]
  /\ jobs' = [j \in Jobs |-> IF j \in stalled THEN [jobs[j] EXCEPT !.state = "waiting"]
                             ELSE jobs[j]]
  /\ lost' = [j \in Jobs |-> IF j \in stalled THEN lost[j] + 1 ELSE lost[j]]
  /\ failedEvents' = {} /\ crashed' = TRUE
  /\ UNCHANGED <<seen, dead, sequence, applied, misses>>

RunStep(r) == BuildAndSign(r) \/ Submit(r) \/ RetrySequence(r) \/ SubmitFails(r)

QueueNext ==
  \/ \E c \in Callers : CheckSeen(c) \/ MarkSeen(c) \/ AddJob(c)
  \/ ForgetKey
  \/ \E r \in Runs : StartRun(r) \/ RunStep(r) \/ ReplyLost(r) \/ AttemptTimesOut(r)
  \/ \E j \in Jobs : Promote(j) \/ AddDeadLetter(j)
  \/ CrashAgent

\* Bull's timers and the processor go on; callers and faults need not.
QueueFairness ==
  /\ \A r \in Runs : WF_queueVars(StartRun(r)) /\ WF_queueVars(RunStep(r))
  /\ \A j \in Jobs : WF_queueVars(Promote(j)) /\ WF_queueVars(AddDeadLetter(j))

QueueSpec == QueueInit /\ [][QueueNext]_queueVars /\ QueueFairness

-----------------------------------------------------------------------------
(* Properties. *)

\* A transaction the caller built is applied at most once, whatever is retried, timed
\* out or run twice, because signing it again keeps its sequence number.  Had the code
\* the fresh number its comments speak of, a lost answer would have it applied twice.
EnvelopeAppliedOnce ==
  \A j \in Jobs : jobs[j].kind = "envelope" => applied[j] <= 1

\* A payment is applied again only for an outcome nobody learned of: a lost
\* reply, a timed-out attempt or a crash.
RepeatsOnlyAfterLostOutcome == \A j \in Jobs : applied[j] <= 1 + lost[j]

\* An attempt the process still owns is of an active job, and of one only, so
\* the same job is not run twice by workers that both report to Bull.
OneOwnerPerJob ==
  /\ \A r \in Runs : runs[r].own => jobs[runs[r].job].state = "active"
  /\ \A r1, r2 \in Runs : runs[r1].own /\ runs[r2].own /\ runs[r1].job = runs[r2].job
       => r1 = r2

\* A dead letter is a job out of attempts, never one that may still complete.
DeadLettersAreFinal ==
  \A j \in dead \cup failedEvents : jobs[j].state = "failed" /\ jobs[j].made = Attempts

\* Every job Bull has taken ends: it is completed or fails for good.
JobsEnd ==
  \A j \in Jobs : jobs[j].state = "waiting" ~> jobs[j].state \in {"completed", "failed"}

\* A job that is out of attempts reaches the dead-letter queue, unless the
\* process that was to add it has died.
DeadLetterArrives ==
  \A j \in Jobs : jobs[j].state = "failed" ~> (j \in dead \/ crashed)

(***************************************************************************)
(* The queue repeats no transaction without need and no job has two owners. *)
(***************************************************************************)
QueueSafety ==
  /\ QueueTypeOK
  /\ EnvelopeAppliedOnce /\ RepeatsOnlyAfterLostOutcome
  /\ OneOwnerPerJob /\ DeadLettersAreFinal
================================================================================

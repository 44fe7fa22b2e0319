---------------------------- MODULE AccountSequence ----------------------------
(***************************************************************************)
(* Serialized use of one Stellar account (agent/src/accountSequence.ts),   *)
(* with a submission that resolves a timeout by the transaction's hash     *)
(* (agent/src/transactionSubmission.ts) as the operation under the lock.   *)
(* Requests of one process queue on a chain of promises; processes exclude *)
(* each other by a lock in Redis that expires.                             *)
(***************************************************************************)
EXTENDS Naturals, Sequences

CONSTANTS
  Requests,   \* calls of withAccountSequenceLock, each with a token of its own
  Hosts,      \* processes
  HostOf,     \* the process of each request
  NoToken,
  LeasesExpire,  \* may a lease run out at any time?
  Mortal         \* processes that may die

ASSUME SequenceAssumption ==
  /\ HostOf \in [Requests -> Hosts] /\ NoToken \notin Requests
  /\ LeasesExpire \in BOOLEAN /\ Mortal \subseteq Hosts

VARIABLES
  phase,      \* where each call stands
  tails,      \* accountTails: the calls of a process, in their order
  lock,       \* the value of stellar:sequence-lock:<account>
  account,    \* the account's sequence number on the network
  built,      \* the sequence number each call has signed for, 0 before
  flying,     \* signed transactions the network may still apply
  landed,     \* transactions the network has applied
  result,     \* what the operation of each call has found out
  overrun     \* calls whose lease ran out before they let go of it

sequenceVars == <<phase, tails, lock, account, built, flying, landed, result, overrun>>

Ended   == {"ended", "timedOut", "gone"}
Results == {"none", "accepted", "refused", "unknown"}
Holding == {"holding", "signed", "looking", "releasing"}
Phases  == {"out", "queued", "polling"} \cup Holding \cup Ended

\* The lock's life: LOCK_TTL_MS passes while the value stands.
SequenceTypeOK ==
  /\ phase \in [Requests -> Phases]
  /\ tails \in [Hosts -> Seq(Requests)]
  /\ lock \in Requests \cup {NoToken}
  /\ account \in Nat /\ built \in [Requests -> Nat]
  /\ flying \subseteq Requests /\ landed \subseteq Requests
  /\ result \in [Requests -> Results] /\ overrun \subseteq Requests

SequenceInit ==
  /\ phase = [r \in Requests |-> "out"]
  /\ tails = [h \in Hosts |-> <<>>]
  /\ lock = NoToken
  /\ account = 0 /\ built = [r \in Requests |-> 0]
  /\ flying = {} /\ landed = {} /\ overrun = {}
  /\ result = [r \in Requests |-> "none"]

To(r, p) == phase' = [phase EXCEPT ![r] = p]

-----------------------------------------------------------------------------
(* withAccountSequenceLock *)

Call(r) ==
  /\ phase[r] = "out"
  /\ To(r, "queued")
  /\ tails' = [tails EXCEPT ![HostOf[r]] = Append(@, r)]
  /\ UNCHANGED <<lock, account, built, flying, landed, result, overrun>>

\* The preceding call of the process has resolved its promise.
MyTurn(r) == Head(tails[HostOf[r]]) = r

BeginPolling(r) ==
  /\ phase[r] = "queued" /\ MyTurn(r)
  /\ To(r, "polling")
  /\ UNCHANGED <<tails, lock, account, built, flying, landed, result, overrun>>

\* SET NX succeeds.
Acquire(r) ==
  /\ phase[r] = "polling" /\ lock = NoToken
  /\ lock' = r
  /\ To(r, "holding")
  /\ UNCHANGED <<tails, account, built, flying, landed, result, overrun>>

\* The call leaves the chain; the next one of its process may go on.
LeaveChain(r) == tails' = [tails EXCEPT ![HostOf[r]] = Tail(@)]

\* LOCK_WAIT_MS pass while another call has the lock, or the request fails; if
\* only its answer is lost, the lock stays until its time to live ends.
GiveUp(r) ==
  /\ phase[r] = "polling"
  /\ \/ UNCHANGED lock
     \/ lock = NoToken /\ lock' = r
  /\ To(r, "timedOut")
  /\ LeaveChain(r)
  /\ UNCHANGED <<account, built, flying, landed, result, overrun>>

\* Mutant of Unlocked: deletes the lock whoever has it.
UnlockedAlways(r) == NoToken
\* The script deletes the lock if it still has the call's token.
Unlocked(r) == IF lock = r THEN NoToken ELSE lock

\* `finally': release the lock; a failing release is swallowed and leaves the
\* lock to its time to live.
Release(r) ==
  /\ phase[r] = "releasing"
  /\ lock' \in {Unlocked(r), lock}
  /\ To(r, "ended")
  /\ LeaveChain(r)
  /\ UNCHANGED <<account, built, flying, landed, result, overrun>>

-----------------------------------------------------------------------------
(* The operation: submitExactlyOnceOnTimeout. *)

Sign(r) ==
  /\ phase[r] = "holding"
  /\ built' = [built EXCEPT ![r] = account + 1]
  /\ flying' = flying \cup {r}
  /\ To(r, "signed")
  /\ UNCHANGED <<tails, lock, account, landed, result, overrun>>

\* The network applies a transaction, at once or after the client gave up.
Land(r) ==
  /\ r \in flying /\ phase[r] # "holding"
  /\ built[r] = account + 1
  /\ account' = account + 1
  /\ flying' = flying \ {r} /\ landed' = landed \cup {r}
  /\ UNCHANGED <<phase, tails, lock, built, result, overrun>>

\* Its sequence number is gone: the network refuses it.
Refuse(r) ==
  /\ r \in flying /\ built[r] <= account
  /\ flying' = flying \ {r}
  /\ UNCHANGED <<phase, tails, lock, account, built, landed, result, overrun>>

Learns(r, x) == To(r, "releasing") /\ result' = [result EXCEPT ![r] = x]

\* The answer of submit arrives, or does not: a timeout.
Answered(r) ==
  /\ phase[r] = "signed"
  /\ \/ r \in landed /\ Learns(r, "accepted")
     \/ r \notin landed \cup flying /\ Learns(r, "refused")
     \/ To(r, "looking") /\ UNCHANGED result
  /\ UNCHANGED <<tails, lock, account, built, flying, landed, overrun>>

\* What a lookup by hash that succeeds tells.
Found(r) == IF r \in landed THEN "accepted" ELSE "unknown"

\* The lookup succeeds, or fails and leaves the outcome unknown as well.
LookedUp(r) ==
  /\ phase[r] = "looking"
  /\ Learns(r, Found(r)) \/ Learns(r, "unknown")
  /\ UNCHANGED <<tails, lock, account, built, flying, landed, overrun>>

-----------------------------------------------------------------------------
(* Faults. *)

LeaseExpires ==
  /\ lock # NoToken
  /\ LeasesExpire \/ phase[lock] \notin Holding
  /\ lock' = NoToken
  /\ overrun' = IF phase[lock] \in Holding THEN overrun \cup {lock} ELSE overrun
  /\ UNCHANGED <<phase, tails, account, built, flying, landed, result>>

HostDies(h) ==
  /\ h \in Mortal
  /\ \E r \in Requests : HostOf[r] = h /\ phase[r] \in Holding
  /\ phase' = [r \in Requests |->
                 IF HostOf[r] = h /\ phase[r] \notin Ended \cup {"out"} THEN "gone"
                 ELSE phase[r]]
  /\ tails' = [tails EXCEPT ![h] = <<>>]
  /\ UNCHANGED <<lock, account, built, flying, landed, result, overrun>>

Progress(r) == BeginPolling(r) \/ Acquire(r) \/ GiveUp(r) \/ Sign(r) \/ Answered(r)
                 \/ LookedUp(r) \/ Release(r)

SequenceNext ==
  \/ \E r \in Requests : Call(r) \/ Progress(r) \/ Land(r) \/ Refuse(r)
  \/ LeaseExpires
  \/ \E h \in Hosts : HostDies(h)

\* Promises and timers run; Redis expires keys; a call may never be made, a
\* transaction may never be applied.
SequenceFairness ==
  /\ \A r \in Requests : WF_sequenceVars(Progress(r))
  /\ WF_sequenceVars(LeaseExpires)

SequenceSpec == SequenceInit /\ [][SequenceNext]_sequenceVars /\ SequenceFairness

-----------------------------------------------------------------------------
(* Properties. *)

Operating == {r \in Requests : phase[r] \in Holding}

\* Two operations overlap only once the lease of one of them has run out.
OneOperation ==
  \A q, r \in Operating : q = r \/ {q, r} \cap overrun # {}

\* A process never runs two operations on the account, expired lease or not.
OneOperationPerHost ==
  \A q, r \in Operating : HostOf[q] = HostOf[r] => q = r

\* Two transactions are signed for one sequence number only after a lease ran
\* out, or when nobody has learned what became of the earlier one.
SequenceNumbersDistinct ==
  \A q, r \in Requests :
    built[q] = built[r] /\ built[q] > 0
      => \/ q = r
         \/ {q, r} \cap overrun # {}
         \/ \E x \in {q, r} : result[x] = "unknown" \/ phase[x] = "gone"

\* A request reported as refused is never applied, not even later: its caller
\* may build a replacement.
RefusedIsFinal ==
  \A r \in Requests : result[r] = "refused" => r \notin landed \cup flying

\* Every call ends: it runs or gives up, whatever becomes of other processes.
CallsEnd == \A r \in Requests : phase[r] = "queued" ~> phase[r] \in Ended

(***************************************************************************)
(* The account is used by one operation at a time, and what the callers     *)
(* learn of its transactions stays true.                                    *)
(***************************************************************************)
SequenceSafety ==
  /\ SequenceTypeOK
  /\ OneOperation /\ OneOperationPerHost
  /\ SequenceNumbersDistinct /\ RefusedIsFinal
=============================================================================

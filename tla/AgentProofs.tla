------------------------------ MODULE AgentProofs ------------------------------
(***************************************************************************)
(* The agent: the lock on an account's sequence number, the queue of        *)
(* transactions, how it answers failed rebalances, failed harvests,        *)
(* frozen issuers and failing dependencies, the rebalance scheduler,       *)
(* failover, and the clients of Stellar RPC and of the vault.              *)
(***************************************************************************)
EXTENDS AccountSequence, TransactionQueue, Alerts, Scheduler, Failover, RpcCircuit, VaultClient,
        SequenceTheorems, FiniteSetTheorems, WellFoundedInduction, TLAPS

-----------------------------------------------------------------------------
(***************************************************************************)
(* The lock on an account's sequence number, for any number of calls and   *)
(* processes (accountSequence.ts, transactionSubmission.ts).  A call that   *)
(* operates on the account has the lock or has overrun its lease; it is the *)
(* first of its process; and the number of a transaction whose fate is      *)
(* known has been used.                                                     *)
(***************************************************************************)


Queued == {"queued", "polling"}

\* The lock.
LockInv == \A r \in Operating : lock = r \/ r \in overrun

\* A call under way is in the chain of its process, one past its turn leads it.
ChainInv ==
  \A r \in Requests :
    /\ phase[r] \in Queued \cup Holding =>
         \E i \in 1 .. Len(tails[HostOf[r]]) : tails[HostOf[r]][i] = r
    /\ phase[r] \in {"polling"} \cup Holding => Head(tails[HostOf[r]]) = r

\* A transaction is in the air, or its number has been used; it is landed or
\* refused when its caller says so, and one that was not sent has no outcome.
OutcomeInv ==
  /\ flying \cap landed = {}
  /\ \A r \in Requests :
       /\ built[r] = 0 \/ r \in flying \/ built[r] <= account
       /\ result[r] = "accepted" => r \in landed
       /\ result[r] = "refused" => r \notin landed \cup flying
       /\ r \in landed \cup flying => built[r] > 0
       /\ built[r] > 0 /\ result[r] = "none" => phase[r] \in {"signed", "looking", "gone"}
       /\ phase[r] \in {"out", "queued", "polling", "holding"} => built[r] = 0
       /\ phase[r] \in {"out", "queued", "polling", "holding", "signed", "looking"}
            => result[r] = "none"

SequenceInv == SequenceTypeOK /\ LockInv /\ ChainInv /\ OutcomeInv /\ SequenceNumbersDistinct

-----------------------------------------------------------------------------

LEMMA SequenceInitInv == SequenceInit => SequenceInv
  <1> SUFFICES ASSUME SequenceInit PROVE SequenceInv
    OBVIOUS
  <1> USE SequenceAssumption DEF SequenceInit
  <1>1. SequenceTypeOK
    BY DEF SequenceTypeOK, Phases, Results
  <1>2. \A r \in Requests : phase[r] = "out" /\ built[r] = 0 /\ result[r] = "none"
    OBVIOUS
  <1>3. LockInv /\ ChainInv
    BY <1>2 DEF LockInv, ChainInv, Operating, Holding, Queued
  <1>4. OutcomeInv /\ SequenceNumbersDistinct
    BY <1>2 DEF OutcomeInv, SequenceNumbersDistinct
  <1> QED
    BY <1>1, <1>3, <1>4 DEF SequenceInv

\* How the phase of one call changes.
LEMMA ToChanges ==
  ASSUME SequenceTypeOK, NEW r \in Requests, NEW p \in Phases, To(r, p)
  PROVE  /\ phase' \in [Requests -> Phases]
         /\ phase'[r] = p
         /\ \A q \in Requests \ {r} : phase'[q] = phase[q]
  BY DEF SequenceTypeOK, To

\* The chain of a process whose first call leaves.
LEMMA LeaveChanges ==
  ASSUME SequenceTypeOK, ChainInv, NEW r \in Requests, NEW p \in Ended, To(r, p), LeaveChain(r),
         phase[r] \in {"polling"} \cup Holding
  PROVE  tails' \in [Hosts -> Seq(Requests)] /\ ChainInv'
  <1> DEFINE h == HostOf[r]
  <1>1. h \in Hosts /\ tails[h] \in Seq(Requests)
    BY SequenceAssumption DEF SequenceTypeOK
  <1>2. Len(tails[h]) > 0 /\ Head(tails[h]) = r
    BY <1>1 DEF ChainInv, Queued
  <1>3. tails[h] # <<>>
    BY <1>1, <1>2
  <1>4. /\ Tail(tails[h]) \in Seq(Requests)
        /\ Len(Tail(tails[h])) = Len(tails[h]) - 1
        /\ \A i \in 1 .. Len(Tail(tails[h])) : Tail(tails[h])[i] = tails[h][i + 1]
    BY <1>1, <1>3, HeadTailProperties
  <1>5. tails' = [tails EXCEPT ![h] = Tail(tails[h])]
    BY DEF LeaveChain
  <1>6. tails' \in [Hosts -> Seq(Requests)]
    BY <1>1, <1>4, <1>5 DEF SequenceTypeOK
  <1>7. p \in Phases /\ p \notin Queued \cup {"polling"} \cup Holding
    BY DEF Phases, Ended, Queued, Holding
  <1>8. ASSUME NEW q \in Requests, phase'[q] \in Queued \cup {"polling"} \cup Holding
        PROVE  /\ q # r /\ phase'[q] = phase[q]
               /\ HostOf[q] = h => phase[q] = "queued"
    <2>1. q # r /\ phase'[q] = phase[q]
      BY <1>7, <1>8, ToChanges
    <2>2. HostOf[q] = h => phase[q] \notin {"polling"} \cup Holding
      BY <1>2, <2>1 DEF ChainInv
    <2> QED
      BY <1>8, <2>1, <2>2 DEF Queued
  <1>9. ASSUME NEW q \in Requests, phase'[q] \in Queued \cup Holding
        PROVE  \E i \in 1 .. Len(tails'[HostOf[q]]) : tails'[HostOf[q]][i] = q
    <2>1. q # r /\ phase[q] \in Queued \cup Holding
      BY <1>8, <1>9
    <2>2. PICK i \in 1 .. Len(tails[HostOf[q]]) : tails[HostOf[q]][i] = q
      BY <2>1 DEF ChainInv
    <2>3. CASE HostOf[q] = h
      <3>1. i # 1
        BY <1>1, <1>2, <2>1, <2>2, <2>3
      <3>2. i \in Nat /\ i - 1 \in 1 .. Len(Tail(tails[h])) /\ (i - 1) + 1 = i
        BY <1>1, <1>4, <2>2, <2>3, <3>1, LenProperties
      <3>3. Tail(tails[h])[i - 1] = q
        BY <1>4, <2>2, <2>3, <3>2
      <3>4. tails'[h] = Tail(tails[h])
        BY <1>1, <1>5 DEF SequenceTypeOK
      <3> QED
        BY <2>3, <3>2, <3>3, <3>4
    <2>4. CASE HostOf[q] # h
      <3>1. tails'[HostOf[q]] = tails[HostOf[q]]
        BY <1>5, <2>4, SequenceAssumption DEF SequenceTypeOK
      <3> QED
        BY <2>2, <3>1
    <2> QED
      BY <2>3, <2>4
  <1>10. ASSUME NEW q \in Requests, phase'[q] \in {"polling"} \cup Holding
         PROVE  Head(tails'[HostOf[q]]) = q
    <2>1. HostOf[q] # h /\ phase'[q] = phase[q]
      BY <1>8, <1>10 DEF Holding
    <2>2. tails'[HostOf[q]] = tails[HostOf[q]]
      BY <1>5, <2>1, SequenceAssumption DEF SequenceTypeOK
    <2> QED
      BY <1>10, <2>1, <2>2 DEF ChainInv
  <1> QED
    BY <1>6, <1>9, <1>10 DEF ChainInv

\* A step that changes no chain, and brings a call under way no further than
\* its turn allows.
LEMMA ChainKept ==
  ASSUME ChainInv, UNCHANGED tails,
         \A q \in Requests :
           \/ phase'[q] = phase[q]
           \/ phase'[q] \notin Queued \cup Holding
           \/ phase[q] \in {"polling"} \cup Holding
           \/ phase[q] = "queued" /\ Head(tails[HostOf[q]]) = q
  PROVE  ChainInv'
  BY DEF ChainInv, Queued, Holding

\* A step of the lock that only lets the call r operate, when it has the lock.
LEMMA LockKept ==
  ASSUME LockInv, overrun \subseteq overrun',
         \A q \in Requests : phase'[q] \in Holding =>
           \/ lock' = q
           \/ q \in overrun'
           \/ phase[q] \in Holding /\ (lock = q => lock' = q)
  PROVE  LockInv'
  BY DEF LockInv, Operating

\* A step that signs nothing and forgets no outcome.
LEMMA NumbersKept ==
  ASSUME SequenceNumbersDistinct, UNCHANGED built, overrun \subseteq overrun',
         \A q \in Requests : /\ result[q] = "unknown" => result'[q] = "unknown"
                             /\ phase[q] = "gone" => phase'[q] = "gone"
  PROVE  SequenceNumbersDistinct'
  BY DEF SequenceNumbersDistinct

-----------------------------------------------------------------------------
(* The steps of one call. *)

LEMMA CallInv ==
  ASSUME SequenceInv, NEW r \in Requests, Call(r)
  PROVE  SequenceInv'
  <1> USE DEF SequenceInv
  <1> DEFINE h == HostOf[r]
  <1>1. /\ phase[r] = "out" /\ To(r, "queued") /\ tails' = [tails EXCEPT ![h] = Append(@, r)]
        /\ UNCHANGED <<lock, account, built, flying, landed, result, overrun>>
    BY DEF Call
  <1>2. /\ phase' \in [Requests -> Phases] /\ phase'[r] = "queued"
        /\ \A q \in Requests \ {r} : phase'[q] = phase[q]
    BY <1>1, ToChanges DEF Phases
  <1>3. h \in Hosts /\ tails[h] \in Seq(Requests)
    BY SequenceAssumption DEF SequenceTypeOK
  <1>4. /\ Append(tails[h], r) \in Seq(Requests)
        /\ Len(Append(tails[h], r)) = Len(tails[h]) + 1
        /\ \A i \in 1 .. Len(tails[h]) : Append(tails[h], r)[i] = tails[h][i]
        /\ Append(tails[h], r)[Len(tails[h]) + 1] = r
    BY <1>3, AppendProperties
  <1>5. tails' \in [Hosts -> Seq(Requests)] /\ tails'[h] = Append(tails[h], r)
    BY <1>1, <1>3, <1>4 DEF SequenceTypeOK
  <1>6. SequenceTypeOK'
    BY <1>1, <1>2, <1>5 DEF SequenceTypeOK
  <1>7. ChainInv'
    <2>1. \E i \in 1 .. Len(tails'[h]) : tails'[h][i] = r
      BY <1>3, <1>4, <1>5, LenProperties
    <2>2. ASSUME NEW q \in Requests \ {r}, phase[q] \in Queued \cup Holding
          PROVE  /\ \E i \in 1 .. Len(tails'[HostOf[q]]) : tails'[HostOf[q]][i] = q
                 /\ Head(tails'[HostOf[q]]) = Head(tails[HostOf[q]])
      <3>1. PICK i \in 1 .. Len(tails[HostOf[q]]) : tails[HostOf[q]][i] = q
        BY <2>2 DEF ChainInv
      <3>2. CASE HostOf[q] = h
        <4>1. Len(tails[h]) \in Nat /\ i \in 1 .. Len(tails'[h]) /\ tails'[h][i] = q
          BY <1>3, <1>4, <1>5, <3>1, <3>2, LenProperties
        <4>2. tails[h] # <<>> /\ tails'[h] # <<>> /\ tails'[h][1] = tails[h][1]
          BY <1>3, <1>4, <1>5, <3>1, <3>2, <4>1
        <4>3. Head(tails'[h]) = tails'[h][1] /\ Head(tails[h]) = tails[h][1]
          BY <1>3, <1>4, <1>5, <4>2, HeadTailProperties
        <4> QED
          BY <3>2, <4>1, <4>2, <4>3
      <3>3. CASE HostOf[q] # h
        <4>1. tails'[HostOf[q]] = tails[HostOf[q]]
          BY <1>1, <3>3, SequenceAssumption DEF SequenceTypeOK
        <4> QED
          BY <3>1, <4>1
      <3> QED
        BY <3>2, <3>3
    <2> QED
      BY <1>2, <2>1, <2>2 DEF ChainInv, Queued, Holding
  <1>8. LockInv'
    BY <1>1, <1>2, LockKept DEF Holding
  <1>9. OutcomeInv'
    BY <1>1, <1>2 DEF OutcomeInv
  <1>10. SequenceNumbersDistinct'
    BY <1>1, <1>2, NumbersKept
  <1> QED
    BY <1>6, <1>7, <1>8, <1>9, <1>10

LEMMA BeginPollingInv ==
  ASSUME SequenceInv, NEW r \in Requests, BeginPolling(r)
  PROVE  SequenceInv'
  <1> USE DEF SequenceInv
  <1>1. /\ phase[r] = "queued" /\ Head(tails[HostOf[r]]) = r /\ To(r, "polling")
        /\ UNCHANGED <<tails, lock, account, built, flying, landed, result, overrun>>
    BY DEF BeginPolling, MyTurn
  <1>2. /\ phase' \in [Requests -> Phases] /\ phase'[r] = "polling"
        /\ \A q \in Requests \ {r} : phase'[q] = phase[q]
    BY <1>1, ToChanges DEF Phases
  <1>3. SequenceTypeOK'
    BY <1>1, <1>2 DEF SequenceTypeOK
  <1>4. ChainInv'
    BY <1>1, <1>2, ChainKept
  <1>5. LockInv'
    BY <1>1, <1>2, LockKept DEF Holding
  <1>6. OutcomeInv'
    BY <1>1, <1>2 DEF OutcomeInv
  <1>7. SequenceNumbersDistinct'
    BY <1>1, <1>2, NumbersKept
  <1> QED
    BY <1>3, <1>4, <1>5, <1>6, <1>7

LEMMA AcquireInv ==
  ASSUME SequenceInv, NEW r \in Requests, Acquire(r)
  PROVE  SequenceInv'
  <1> USE DEF SequenceInv
  <1>1. /\ phase[r] = "polling" /\ lock = NoToken /\ lock' = r /\ To(r, "holding")
        /\ UNCHANGED <<tails, account, built, flying, landed, result, overrun>>
    BY DEF Acquire
  <1>2. /\ phase' \in [Requests -> Phases] /\ phase'[r] = "holding"
        /\ \A q \in Requests \ {r} : phase'[q] = phase[q]
    BY <1>1, ToChanges DEF Phases, Holding
  <1>3. SequenceTypeOK'
    BY <1>1, <1>2 DEF SequenceTypeOK
  <1>4. ChainInv'
    BY <1>1, <1>2, ChainKept
  <1>5. LockInv'
    <2>1. \A q \in Requests : lock # q
      BY <1>1, SequenceAssumption
    <2> QED
      BY <1>1, <1>2, <2>1, LockKept
  <1>6. OutcomeInv'
    BY <1>1, <1>2 DEF OutcomeInv
  <1>7. SequenceNumbersDistinct'
    BY <1>1, <1>2, NumbersKept
  <1> QED
    BY <1>3, <1>4, <1>5, <1>6, <1>7

LEMMA GiveUpInv ==
  ASSUME SequenceInv, NEW r \in Requests, GiveUp(r)
  PROVE  SequenceInv'
  <1> USE DEF SequenceInv
  <1>1. /\ phase[r] = "polling" /\ To(r, "timedOut") /\ LeaveChain(r)
        /\ lock' = lock \/ (lock = NoToken /\ lock' = r)
        /\ UNCHANGED <<account, built, flying, landed, result, overrun>>
    BY DEF GiveUp
  <1>2. /\ phase' \in [Requests -> Phases] /\ phase'[r] = "timedOut"
        /\ \A q \in Requests \ {r} : phase'[q] = phase[q]
    BY <1>1, ToChanges DEF Phases, Ended
  <1>3. tails' \in [Hosts -> Seq(Requests)] /\ ChainInv'
    BY <1>1, LeaveChanges DEF Ended
  <1>4. SequenceTypeOK'
    BY <1>1, <1>2, <1>3 DEF SequenceTypeOK
  <1>5. LockInv'
    <2>1. \A q \in Requests : lock = q => lock' = q
      BY <1>1, SequenceAssumption
    <2> QED
      BY <1>1, <1>2, <2>1, LockKept DEF Holding
  <1>6. OutcomeInv'
    BY <1>1, <1>2 DEF OutcomeInv
  <1>7. SequenceNumbersDistinct'
    BY <1>1, <1>2, NumbersKept
  <1> QED
    BY <1>3, <1>4, <1>5, <1>6, <1>7

LEMMA ReleaseInv ==
  ASSUME SequenceInv, NEW r \in Requests, Release(r)
  PROVE  SequenceInv'
  <1> USE DEF SequenceInv
  <1>1. /\ phase[r] = "releasing" /\ To(r, "ended") /\ LeaveChain(r)
        /\ lock' = lock \/ (lock = r /\ lock' = NoToken)
        /\ UNCHANGED <<account, built, flying, landed, result, overrun>>
    BY DEF Release, Unlocked
  <1>2. /\ phase' \in [Requests -> Phases] /\ phase'[r] = "ended"
        /\ \A q \in Requests \ {r} : phase'[q] = phase[q]
    BY <1>1, ToChanges DEF Phases, Ended
  <1>3. tails' \in [Hosts -> Seq(Requests)] /\ ChainInv'
    BY <1>1, LeaveChanges DEF Ended, Holding
  <1>4. SequenceTypeOK'
    BY <1>1, <1>2, <1>3 DEF SequenceTypeOK
  <1>5. LockInv'
    BY <1>1, <1>2, LockKept DEF Holding
  <1>6. OutcomeInv'
    BY <1>1, <1>2 DEF OutcomeInv
  <1>7. SequenceNumbersDistinct'
    BY <1>1, <1>2, NumbersKept
  <1> QED
    BY <1>3, <1>4, <1>5, <1>6, <1>7

LEMMA SignInv ==
  ASSUME SequenceInv, NEW r \in Requests, Sign(r)
  PROVE  SequenceInv'
  <1> USE DEF SequenceInv
  <1>1. /\ phase[r] = "holding" /\ To(r, "signed")
        /\ built' = [built EXCEPT ![r] = account + 1] /\ flying' = flying \cup {r}
        /\ UNCHANGED <<tails, lock, account, landed, result, overrun>>
    BY DEF Sign
  <1>2. /\ phase' \in [Requests -> Phases] /\ phase'[r] = "signed"
        /\ \A q \in Requests \ {r} : phase'[q] = phase[q]
    BY <1>1, ToChanges DEF Phases, Holding
  <1>3. /\ built[r] = 0 /\ r \notin landed \cup flying /\ result[r] = "none"
        /\ account \in Nat /\ built \in [Requests -> Nat]
    BY <1>1 DEF OutcomeInv, SequenceTypeOK
  <1>4. /\ built'[r] = account + 1 /\ built' \in [Requests -> Nat]
        /\ \A q \in Requests \ {r} : built'[q] = built[q]
    BY <1>1, <1>3
  <1>5. SequenceTypeOK'
    BY <1>1, <1>2, <1>4 DEF SequenceTypeOK
  <1>6. ChainInv'
    BY <1>1, <1>2, ChainKept DEF Holding
  <1>7. LockInv'
    BY <1>1, <1>2, LockKept DEF Holding
  <1>8. OutcomeInv'
    BY <1>1, <1>2, <1>3, <1>4 DEF OutcomeInv
  \* The number r takes is free, unless an operation overlaps or an outcome is unknown.
  <1>9. ASSUME NEW q \in Requests \ {r}, built[q] = account + 1
        PROVE  \/ {q, r} \cap overrun # {}
               \/ result[q] = "unknown" \/ phase[q] = "gone"
    <2>1. q \in flying /\ built[q] > 0
      BY <1>3, <1>9 DEF OutcomeInv
    <2>2. result[q] \in {"none", "unknown"}
      <3>1. result[q] # "accepted" /\ result[q] # "refused"
        BY <2>1 DEF OutcomeInv
      <3> QED
        BY <3>1 DEF SequenceTypeOK, Results
    <2>3. CASE phase[q] \in {"signed", "looking"}
      <3>1. q \in Operating /\ r \in Operating
        BY <1>1, <2>3 DEF Operating, Holding
      <3> QED
        BY <3>1 DEF LockInv
    <2> QED
      BY <2>1, <2>2, <2>3 DEF OutcomeInv
  <1>10. SequenceNumbersDistinct'
    <2> SUFFICES ASSUME NEW q \in Requests, NEW s \in Requests, built'[q] = built'[s],
                        built'[q] > 0, q # s
                 PROVE  \/ {q, s} \cap overrun # {}
                        \/ \E x \in {q, s} : result[x] = "unknown" \/ phase'[x] = "gone"
      BY <1>1 DEF SequenceNumbersDistinct
    <2>1. CASE q # r /\ s # r
      BY <1>2, <1>4, <2>1 DEF SequenceNumbersDistinct
    <2>2. CASE q = r
      BY <1>2, <1>4, <1>9, <2>2
    <2>3. CASE s = r
      BY <1>2, <1>4, <1>9, <2>3
    <2> QED
      BY <2>1, <2>2, <2>3
  <1> QED
    BY <1>5, <1>6, <1>7, <1>8, <1>10

\* What a call learns: a step from "signed" or "looking" that decides its outcome.
LEMMA LearnsInv ==
  ASSUME SequenceInv, NEW r \in Requests, phase[r] \in {"signed", "looking"},
         NEW x \in {"accepted", "refused", "unknown"}, Learns(r, x),
         x = "accepted" => r \in landed, x = "refused" => r \notin landed \cup flying,
         UNCHANGED <<tails, lock, account, built, flying, landed, overrun>>
  PROVE  SequenceInv'
  <1> USE DEF SequenceInv
  <1>1. /\ phase' \in [Requests -> Phases] /\ phase'[r] = "releasing"
        /\ \A q \in Requests \ {r} : phase'[q] = phase[q]
    BY ToChanges DEF Learns, Phases, Holding
  <1>2. /\ result' \in [Requests -> Results] /\ result'[r] = x
        /\ \A q \in Requests \ {r} : result'[q] = result[q]
        /\ result[r] = "none"
    BY DEF Learns, SequenceTypeOK, OutcomeInv, Results
  <1>3. SequenceTypeOK'
    BY <1>1, <1>2 DEF SequenceTypeOK
  <1>4. ChainInv'
    BY <1>1, ChainKept DEF Holding
  <1>5. LockInv'
    BY <1>1, LockKept DEF Holding
  <1>6. OutcomeInv'
    BY <1>1, <1>2 DEF OutcomeInv
  <1>7. SequenceNumbersDistinct'
    BY <1>1, <1>2, NumbersKept
  <1> QED
    BY <1>3, <1>4, <1>5, <1>6, <1>7

LEMMA AnsweredInv ==
  ASSUME SequenceInv, NEW r \in Requests, Answered(r)
  PROVE  SequenceInv'
  <1> USE DEF SequenceInv
  <1>1. phase[r] = "signed" /\ UNCHANGED <<tails, lock, account, built, flying, landed, overrun>>
    BY DEF Answered
  <1>2. CASE r \in landed /\ Learns(r, "accepted")
    BY <1>1, <1>2, LearnsInv
  <1>3. CASE r \notin landed \cup flying /\ Learns(r, "refused")
    BY <1>1, <1>3, LearnsInv
  <1>4. CASE To(r, "looking") /\ UNCHANGED result
    <2>1. /\ phase' \in [Requests -> Phases] /\ phase'[r] = "looking"
          /\ \A q \in Requests \ {r} : phase'[q] = phase[q]
      BY <1>4, ToChanges DEF Phases, Holding
    <2>2. SequenceTypeOK'
      BY <1>1, <1>4, <2>1 DEF SequenceTypeOK
    <2>3. ChainInv'
      BY <1>1, <2>1, ChainKept DEF Holding
    <2>4. LockInv'
      BY <1>1, <2>1, LockKept DEF Holding
    <2>5. OutcomeInv'
      BY <1>1, <1>4, <2>1 DEF OutcomeInv
    <2>6. SequenceNumbersDistinct'
      BY <1>1, <1>4, <2>1, NumbersKept
    <2> QED
      BY <2>2, <2>3, <2>4, <2>5, <2>6
  <1> QED
    BY <1>2, <1>3, <1>4 DEF Answered

LEMMA LookedUpInv ==
  ASSUME SequenceInv, NEW r \in Requests, LookedUp(r)
  PROVE  SequenceInv'
  <1>1. PICK x \in {"accepted", "unknown"} : Learns(r, x) /\ (x = "accepted" => r \in landed)
    BY DEF LookedUp, Found
  <1> QED
    BY <1>1, LearnsInv DEF LookedUp

-----------------------------------------------------------------------------
(* The network, the leases and the processes. *)

\* A transaction of a call that has signed it leaves the air.
LEMMA NetworkInv ==
  ASSUME SequenceInv, NEW r \in Requests, Land(r) \/ Refuse(r)
  PROVE  SequenceInv'
  <1> USE DEF SequenceInv
  <1>1. /\ r \in flying /\ flying' = flying \ {r}
        /\ UNCHANGED <<phase, tails, lock, built, result, overrun>>
    BY DEF Land, Refuse
  <1>2. account' \in Nat /\ account <= account' /\ built[r] <= account'
    BY DEF Land, Refuse, SequenceTypeOK
  <1>3. landed' = landed \/ landed' = landed \cup {r}
    BY DEF Land, Refuse
  <1>4. SequenceTypeOK'
    BY <1>1, <1>2, <1>3 DEF SequenceTypeOK
  <1>5. ChainInv' /\ LockInv'
    BY <1>1 DEF ChainInv, LockInv, Operating
  <1>6. OutcomeInv'
    <2>1. \A q \in Requests : built[q] \in Nat /\ account \in Nat
      BY DEF SequenceTypeOK
    <2> QED
      BY <1>1, <1>2, <1>3, <2>1 DEF OutcomeInv
  <1>7. SequenceNumbersDistinct'
    BY <1>1, NumbersKept
  <1> QED
    BY <1>4, <1>5, <1>6, <1>7

LEMMA LeaseExpiresInv ==
  ASSUME SequenceInv, LeaseExpires
  PROVE  SequenceInv'
  <1> USE DEF SequenceInv
  <1>1. /\ lock \in Requests /\ lock' = NoToken
        /\ overrun' = IF phase[lock] \in Holding THEN overrun \cup {lock} ELSE overrun
        /\ UNCHANGED <<phase, tails, account, built, flying, landed, result>>
    BY DEF LeaseExpires, SequenceTypeOK
  <1>2. SequenceTypeOK'
    BY <1>1 DEF SequenceTypeOK
  <1>3. LockInv'
    BY <1>1 DEF LockInv, Operating
  <1>4. ChainInv' /\ OutcomeInv'
    BY <1>1 DEF ChainInv, OutcomeInv
  <1>5. SequenceNumbersDistinct'
    BY <1>1, NumbersKept
  <1> QED
    BY <1>2, <1>3, <1>4, <1>5

LEMMA HostDiesInv ==
  ASSUME SequenceInv, NEW h \in Hosts, HostDies(h)
  PROVE  SequenceInv'
  <1> USE DEF SequenceInv
  <1>1. /\ phase' = [r \in Requests |->
                       IF HostOf[r] = h /\ phase[r] \notin Ended \cup {"out"} THEN "gone"
                       ELSE phase[r]]
        /\ tails' = [tails EXCEPT ![h] = <<>>]
        /\ UNCHANGED <<lock, account, built, flying, landed, result, overrun>>
    BY DEF HostDies
  <1>2. \A r \in Requests :
          \/ phase'[r] = phase[r] /\ (HostOf[r] = h => phase[r] \in Ended \cup {"out"})
          \/ phase'[r] = "gone" /\ HostOf[r] = h
    BY <1>1
  <1>3. SequenceTypeOK'
    <2>1. "gone" \in Phases
      BY DEF Phases, Ended
    <2>2. phase' \in [Requests -> Phases]
      BY <1>1, <2>1 DEF SequenceTypeOK
    <2>3. <<>> \in Seq(Requests)
      BY EmptySeq
    <2>4. tails' \in [Hosts -> Seq(Requests)]
      BY <1>1, <2>3 DEF SequenceTypeOK
    <2> QED
      BY <1>1, <2>2, <2>4 DEF SequenceTypeOK
  <1>4. ChainInv'
    <2>1. ASSUME NEW q \in Requests, phase'[q] \in Queued \cup {"polling"} \cup Holding
          PROVE  phase'[q] = phase[q] /\ tails'[HostOf[q]] = tails[HostOf[q]]
      <3>1. HostOf[q] # h /\ phase'[q] = phase[q]
        BY <1>2, <2>1 DEF Queued, Holding, Ended
      <3> QED
        BY <1>1, <3>1, SequenceAssumption DEF SequenceTypeOK
    <2> QED
      BY <2>1 DEF ChainInv
  <1>5. LockInv'
    BY <1>1, <1>2, LockKept DEF Holding
  <1>6. OutcomeInv'
    BY <1>1, <1>2 DEF OutcomeInv
  <1>7. SequenceNumbersDistinct'
    BY <1>1, <1>2, NumbersKept
  <1> QED
    BY <1>3, <1>4, <1>5, <1>6, <1>7

LEMMA SequenceStepInv ==
  ASSUME SequenceInv, [SequenceNext]_sequenceVars
  PROVE  SequenceInv'
  <1>1. CASE UNCHANGED sequenceVars
    <2>1. SequenceTypeOK'
      BY <1>1 DEF sequenceVars, SequenceInv, SequenceTypeOK
    <2>2. LockInv'
      BY <1>1 DEF sequenceVars, SequenceInv, LockInv, Operating
    <2>3. ChainInv'
      BY <1>1 DEF sequenceVars, SequenceInv, ChainInv
    <2>4. OutcomeInv'
      BY <1>1 DEF sequenceVars, SequenceInv, OutcomeInv
    <2>5. SequenceNumbersDistinct'
      BY <1>1 DEF sequenceVars, SequenceInv, SequenceNumbersDistinct
    <2> QED
      BY <2>1, <2>2, <2>3, <2>4, <2>5 DEF SequenceInv
  <1>2. ASSUME NEW r \in Requests, Progress(r) PROVE SequenceInv'
    BY <1>2, BeginPollingInv, AcquireInv, GiveUpInv, SignInv, AnsweredInv, LookedUpInv,
       ReleaseInv DEF Progress
  <1> QED
    BY <1>1, <1>2, CallInv, NetworkInv, LeaseExpiresInv, HostDiesInv DEF SequenceNext

LEMMA SequenceInvariant == SequenceSpec => []SequenceInv
  BY SequenceInitInv, SequenceStepInv, PTL DEF SequenceSpec

-----------------------------------------------------------------------------
(* What the agent relies on. *)

\* Operations on the account overlap only once a lease ran out (accountSequence.ts).
THEOREM LockExcludes == SequenceSpec => []OneOperation
  <1>1. SequenceInv => OneOperation
    BY DEF SequenceInv, LockInv, OneOperation
  <1> QED
    BY <1>1, SequenceInvariant, PTL

\* Not even then within one process: the chain of promises excludes it.
THEOREM ChainExcludes == SequenceSpec => []OneOperationPerHost
  <1>1. SequenceInv => OneOperationPerHost
    BY DEF SequenceInv, ChainInv, OneOperationPerHost, Operating
  <1> QED
    BY <1>1, SequenceInvariant, PTL

\* Two transactions for one sequence number mean an expired lease or an unknown outcome.
THEOREM NumbersDistinct == SequenceSpec => []SequenceNumbersDistinct
  <1>1. SequenceInv => SequenceNumbersDistinct
    BY DEF SequenceInv
  <1> QED
    BY <1>1, SequenceInvariant, PTL

\* A transaction reported refused is never applied (transactionSubmission.ts), so
\* that a replacement cannot be a second payment.
THEOREM RefusedStaysOut == SequenceSpec => []RefusedIsFinal
  <1>1. SequenceInv => RefusedIsFinal
    BY DEF SequenceInv, OutcomeInv, RefusedIsFinal
  <1> QED
    BY <1>1, SequenceInvariant, PTL

\* All of it together: the account is used by one operation at a time, and what callers
\* learn of its transactions stays true (accountSequence.ts, transactionSubmission.ts).
THEOREM SequenceSafe == SequenceSpec => []SequenceSafety
  <1>1. SequenceInv => SequenceTypeOK
    BY DEF SequenceInv
  <1> QED
    BY <1>1, SequenceInvariant, LockExcludes, ChainExcludes, NumbersDistinct, RefusedStaysOut,
       PTL DEF SequenceSafety

-----------------------------------------------------------------------------
(***************************************************************************)
(* The queue of transactions (transactionQueue.ts).  What a job may still   *)
(* have applied, by a run under way or one to come, is paid for: by its     *)
(* first attempt, and after that by an outcome nobody has learned of.       *)
(***************************************************************************)

RunsOf(j) == {r \in Runs : runs[r].step # "free" /\ runs[r].job = j}
Due(state) == IF state \in {"none", "waiting", "delayed"} THEN 1 ELSE 0

JobStands(j) ==
  /\ jobs[j].state = "failed" <=> jobs[j].made = Attempts
  /\ jobs[j].state = "none" => applied[j] = 0
  /\ jobs[j].kind = "envelope" =>
       applied[j] <= 1 /\ (applied[j] > 0 => jobs[j].seq <= sequence)
  /\ applied[j] + Cardinality(RunsOf(j)) + Due(jobs[j].state) <= 1 + lost[j]

RunStands(r) ==
  /\ runs[r].own => runs[r].step # "free" /\ jobs[runs[r].job].state = "active"
  /\ runs[r].step # "free" => jobs[runs[r].job].state # "none"
  /\ runs[r].step = "submit" /\ jobs[runs[r].job].kind = "envelope" =>
       runs[r].seq = jobs[runs[r].job].seq

OneOwner ==
  \A r1, r2 \in Runs : runs[r1].own /\ runs[r2].own /\ runs[r1].job = runs[r2].job => r1 = r2

QueueInv ==
  /\ QueueTypeOK
  /\ \A j \in Jobs : JobStands(j)
  /\ \A r \in Runs : RunStands(r)
  /\ OneOwner /\ DeadLettersAreFinal

LEMMA NoRunIsTyped == NoRun \in RunRecords
  BY QueueAssumption DEF NoRun, RunRecords, MAX_SEQUENCE_RETRIES

LEMMA RunsAreFinite ==
  ASSUME NEW j
  PROVE  /\ IsFiniteSet(RunsOf(j)) /\ Cardinality(RunsOf(j)) \in Nat
         /\ RunsOf(j) \subseteq Runs
  <1>1. RunsOf(j) \subseteq Runs /\ IsFiniteSet(Runs)
    BY QueueAssumption DEF RunsOf
  <1>2. IsFiniteSet(RunsOf(j))
    BY <1>1, FS_Subset
  <1> QED
    BY <1>1, <1>2, FS_CardinalityType

LEMMA RunsAreFiniteNext ==
  ASSUME NEW j
  PROVE  IsFiniteSet(RunsOf(j)') /\ Cardinality(RunsOf(j)') \in Nat
  <1>1. RunsOf(j)' \subseteq Runs /\ IsFiniteSet(Runs)
    BY QueueAssumption DEF RunsOf
  <1>2. IsFiniteSet(RunsOf(j)')
    BY <1>1, FS_Subset
  <1> QED
    BY <1>1, <1>2, FS_CardinalityType

\* A job that a step leaves alone.
LEMMA JobKept ==
  ASSUME NEW j \in Jobs, JobStands(j), jobs'[j] = jobs[j], applied'[j] = applied[j],
         applied[j] \in Nat, lost[j] \in Nat, lost'[j] \in Nat, lost'[j] >= lost[j],
         sequence \in Nat, sequence' \in Nat, sequence' >= sequence,
         jobs[j].seq \in Nat, RunsOf(j)' \subseteq RunsOf(j)
  PROVE  JobStands(j)'
  <1>1. IsFiniteSet(RunsOf(j)) /\ Cardinality(RunsOf(j)) \in Nat
    BY RunsAreFinite
  <1>2. Cardinality(RunsOf(j)') \in Nat /\ Cardinality(RunsOf(j)') <= Cardinality(RunsOf(j))
    BY <1>1, FS_Subset, RunsAreFiniteNext
  <1>3. Due(jobs[j].state)' = Due(jobs[j].state) /\ Due(jobs[j].state) \in Nat
    BY DEF Due
  <1>4. Cardinality(RunsOf(j))' = Cardinality(RunsOf(j)')
    OBVIOUS
  <1> QED
    BY <1>1, <1>2, <1>3, <1>4 DEF JobStands

\* A run that a step leaves alone, as it leaves what matters of its job.
LEMMA RunKept ==
  ASSUME NEW r \in Runs, RunStands(r), runs'[r] = runs[r],
         LET j == runs[r].job IN
           /\ runs[r].step # "free" =>
                /\ jobs'[j].kind = jobs[j].kind /\ jobs'[j].seq = jobs[j].seq
                /\ jobs'[j].state # "none"
           /\ runs[r].own => jobs'[j].state = jobs[j].state
  PROVE  RunStands(r)'
  BY DEF RunStands

\* One run fewer.
LEMMA FreedRuns ==
  ASSUME QueueTypeOK, NEW r \in Runs, runs' = Free(r), runs[r].step # "free", NEW j \in Jobs
  PROVE  /\ runs'[r] = NoRun /\ \A q \in Runs \ {r} : runs'[q] = runs[q]
         /\ j # runs[r].job => RunsOf(j)' = RunsOf(j)
         /\ j = runs[r].job => Cardinality(RunsOf(j)') = Cardinality(RunsOf(j)) - 1
         /\ RunsOf(j)' \subseteq RunsOf(j)
  <1>1. /\ runs'[r] = NoRun /\ \A q \in Runs \ {r} : runs'[q] = runs[q]
        /\ NoRun.step = "free"
    BY DEF Free, QueueTypeOK, NoRun
  <1> HIDE DEF NoRun
  <1>2. RunsOf(j)' = RunsOf(j) \ {r}
    BY <1>1 DEF RunsOf
  <1>3. r \in RunsOf(j) <=> j = runs[r].job
    BY DEF RunsOf
  <1>4. r \in RunsOf(j) => Cardinality(RunsOf(j) \ {r}) = Cardinality(RunsOf(j)) - 1
    BY RunsAreFinite, FS_RemoveElement
  <1> QED
    BY <1>1, <1>2, <1>3, <1>4

LEMMA QueueInitInv == QueueInit => QueueInv
  <1> SUFFICES ASSUME QueueInit PROVE QueueInv
    OBVIOUS
  <1>1. /\ \A j \in Jobs : /\ jobs[j] \in JobRecords /\ jobs[j].state = "none"
                           /\ jobs[j].made = 0 /\ applied[j] = 0 /\ lost[j] = 0
        /\ \A r \in Runs : runs[r] = NoRun
        /\ NoRun.step = "free" /\ ~NoRun.own
    <2>1. NoRun.step = "free" /\ ~NoRun.own
      BY DEF NoRun
    <2> HIDE DEF NoRun
    <2> QED
      BY <2>1 DEF QueueInit, JobRecords, JobStates, Attempts
  <1> HIDE DEF NoRun
  <1>2. QueueTypeOK
    <2>1. jobs \in [Jobs -> JobRecords]
      BY <1>1 DEF QueueInit
    <2> QED
      BY <2>1, NoRunIsTyped DEF QueueInit, QueueTypeOK
  <1>3. ASSUME NEW j \in Jobs PROVE JobStands(j)
    <2>1. RunsOf(j) = {}
      BY <1>1 DEF RunsOf
    <2>2. Cardinality(RunsOf(j)) = 0
      BY <2>1, FS_EmptySet
    <2> QED
      BY <1>1, <2>2 DEF JobStands, Due, Attempts
  <1>4. \A r \in Runs : RunStands(r)
    BY <1>1 DEF RunStands
  <1>5. OneOwner /\ DeadLettersAreFinal
    BY <1>1 DEF OneOwner, DeadLettersAreFinal, QueueInit
  <1> QED
    BY <1>2, <1>3, <1>4, <1>5 DEF QueueInv

\* Steps of callers, of Redis and of the dead-letter queue.
LEMMA AsideInv ==
  ASSUME QueueInv,
         \/ ForgetKey \/ \E c \in Callers : CheckSeen(c) \/ MarkSeen(c)
         \/ \E j \in Jobs : AddDeadLetter(j)
  PROVE  QueueInv'
  <1>1. /\ jobs' = jobs /\ runs' = runs /\ sequence' = sequence /\ applied' = applied
        /\ lost' = lost /\ misses' = misses /\ crashed' = crashed
        /\ dead' \cup failedEvents' = dead \cup failedEvents
        /\ caller' \in [Callers -> {"idle", "unseen", "marked"}] /\ seen' \in BOOLEAN
    BY DEF QueueInv, QueueTypeOK, CheckSeen, MarkSeen, ForgetKey, AddDeadLetter
  <1>2. QueueTypeOK'
    BY <1>1 DEF QueueInv, QueueTypeOK
  <1>3. ASSUME NEW i \in Jobs PROVE JobStands(i)'
    BY <1>1 DEF QueueInv, JobStands, RunsOf, Due
  <1>4. ASSUME NEW r \in Runs PROVE RunStands(r)'
    BY <1>1 DEF QueueInv, RunStands
  <1>5. OneOwner' /\ DeadLettersAreFinal'
    BY <1>1 DEF QueueInv, OneOwner, DeadLettersAreFinal
  <1> QED
    BY <1>2, <1>3, <1>4, <1>5 DEF QueueInv

\* A job that a step changes without touching the runs, the network or the end
\* of the job.
LEMMA JobChanges ==
  ASSUME QueueInv, NEW j \in Jobs, NEW z \in JobRecords, jobs' = [jobs EXCEPT ![j] = z],
         caller' \in [Callers -> {"idle", "unseen", "marked"}],
         runs' = runs, seen' = seen, failedEvents' = failedEvents, dead' = dead,
         sequence' = sequence, applied' = applied, lost' = lost, misses' = misses,
         crashed' = crashed,
         jobs[j].state \in {"none", "delayed"}, z.state = "waiting", z.made = jobs[j].made,
         z.kind = jobs[j].kind, jobs[j].state # "none" => z.seq = jobs[j].seq
  PROVE  QueueInv'
  <1>1. /\ jobs'[j] = z /\ \A i \in Jobs \ {j} : jobs'[i] = jobs[i]
        /\ jobs' \in [Jobs -> JobRecords] /\ QueueTypeOK
    BY DEF QueueInv, QueueTypeOK
  <1>2. QueueTypeOK'
    BY <1>1 DEF QueueTypeOK
  <1>3. ASSUME NEW i \in Jobs PROVE JobStands(i)'
    <2>1. RunsOf(i)' = RunsOf(i)
      BY DEF RunsOf
    <2>2. CASE i # j
      BY <1>1, <2>1, <2>2 DEF QueueInv, JobStands, Due
    <2>3. CASE i = j
      <3>1. JobStands(j)
        BY DEF QueueInv
      <3>2. jobs[j].state = "none" => applied[j] = 0
        BY <3>1 DEF JobStands
      <3> QED
        BY <1>1, <2>1, <2>3, <3>1, <3>2 DEF JobStands, Due
    <2> QED
      BY <2>2, <2>3
  <1>4. ASSUME NEW r \in Runs PROVE RunStands(r)'
    <2>1. RunStands(r) /\ runs[r].job \in Jobs
      BY DEF QueueInv, QueueTypeOK, RunRecords
    <2> QED
      BY <1>1, <2>1 DEF RunStands
  <1>5. OneOwner'
    BY DEF QueueInv, OneOwner
  <1>6. DeadLettersAreFinal'
    BY <1>1 DEF QueueInv, QueueTypeOK, DeadLettersAreFinal
  <1> QED
    BY <1>2, <1>3, <1>4, <1>5, <1>6 DEF QueueInv

LEMMA AddJobInv ==
  ASSUME QueueInv, NEW c \in Callers, AddJob(c)
  PROVE  QueueInv'
  <1>1. PICK j \in Jobs :
          /\ jobs[j].state = "none"
          /\ jobs' = [jobs EXCEPT ![j].state = "waiting", ![j].seq = sequence + 1]
    BY DEF AddJob
  <1>2. PICK z : z = [jobs[j] EXCEPT !.state = "waiting", !.seq = sequence + 1]
    OBVIOUS
  <1>3. jobs[j] \in JobRecords /\ sequence + 1 \in Nat
    BY DEF QueueInv, QueueTypeOK
  <1>4. /\ z \in JobRecords /\ z.state = "waiting" /\ z.made = jobs[j].made
        /\ z.kind = jobs[j].kind
    BY <1>2, <1>3 DEF JobRecords, JobStates
  <1>5. /\ caller' \in [Callers -> {"idle", "unseen", "marked"}]
        /\ runs' = runs /\ seen' = seen /\ failedEvents' = failedEvents /\ dead' = dead
        /\ sequence' = sequence /\ applied' = applied /\ lost' = lost /\ misses' = misses
        /\ crashed' = crashed
    BY DEF QueueInv, QueueTypeOK, AddJob
  <1>6. jobs' = [jobs EXCEPT ![j] = z]
    BY <1>1, <1>2 DEF QueueInv, QueueTypeOK
  <1> QED
    BY <1>1, <1>4, <1>5, <1>6, JobChanges

LEMMA PromoteInv ==
  ASSUME QueueInv, NEW j \in Jobs, Promote(j)
  PROVE  QueueInv'
  <1>1. /\ jobs[j].state = "delayed" /\ jobs' = [jobs EXCEPT ![j].state = "waiting"]
        /\ caller' = caller
        /\ runs' = runs /\ seen' = seen /\ failedEvents' = failedEvents /\ dead' = dead
        /\ sequence' = sequence /\ applied' = applied /\ lost' = lost /\ misses' = misses
        /\ crashed' = crashed
    BY DEF Promote
  <1>2. PICK z : z = [jobs[j] EXCEPT !.state = "waiting"]
    OBVIOUS
  <1>3. jobs[j] \in JobRecords /\ caller \in [Callers -> {"idle", "unseen", "marked"}]
    BY DEF QueueInv, QueueTypeOK
  <1>4. /\ z \in JobRecords /\ z.state = "waiting" /\ z.made = jobs[j].made
        /\ z.kind = jobs[j].kind /\ z.seq = jobs[j].seq
    BY <1>2, <1>3 DEF JobRecords, JobStates
  <1>5. jobs' = [jobs EXCEPT ![j] = z]
    BY <1>1, <1>2 DEF QueueInv, QueueTypeOK
  <1> QED
    BY <1>1, <1>3, <1>4, <1>5, JobChanges

\* The run is the owner of the job: none was while it waited.
LEMMA StartRunInv ==
  ASSUME QueueInv, NEW r \in Runs, StartRun(r)
  PROVE  QueueInv'
  <1>1. PICK j \in Jobs :
          /\ jobs[j].state = "waiting"
          /\ jobs' = [jobs EXCEPT ![j].state = "active"]
          /\ runs' = [runs EXCEPT ![r] = [step |-> "build", job |-> j, own |-> TRUE,
                                          attempt |-> 0, seq |-> 0]]
    BY DEF StartRun
  <1>2. PICK x : x = [step |-> "build", job |-> j, own |-> TRUE, attempt |-> 0, seq |-> 0]
    OBVIOUS
  <1>3. x \in RunRecords /\ x.step = "build" /\ x.job = j /\ x.own
    BY <1>2 DEF RunRecords, MAX_SEQUENCE_RETRIES
  <1>4. /\ runs[r].step = "free"
        /\ caller' = caller /\ seen' = seen /\ failedEvents' = failedEvents /\ dead' = dead
        /\ sequence' = sequence /\ applied' = applied /\ lost' = lost /\ misses' = misses
        /\ crashed' = crashed
    BY DEF StartRun
  <1>5. QueueTypeOK /\ jobs[j] \in JobRecords
    BY DEF QueueInv, QueueTypeOK
  <1>6. /\ jobs'[j] \in JobRecords /\ jobs'[j].state = "active" /\ jobs'[j].made = jobs[j].made
        /\ jobs'[j].kind = jobs[j].kind /\ jobs'[j].seq = jobs[j].seq
        /\ \A i \in Jobs \ {j} : jobs'[i] = jobs[i]
    BY <1>1, <1>5 DEF QueueTypeOK, JobRecords, JobStates
  <1>7. runs'[r] = x /\ \A q \in Runs \ {r} : runs'[q] = runs[q]
    BY <1>1, <1>2, <1>5 DEF QueueTypeOK
  <1>8. QueueTypeOK'
    BY <1>1, <1>2, <1>3, <1>4, <1>5, <1>6 DEF QueueTypeOK
  <1>9. ASSUME NEW i \in Jobs PROVE JobStands(i)'
    <2>1. CASE i # j
      <3>1. RunsOf(i)' = RunsOf(i)
        BY <1>3, <1>4, <1>7, <2>1 DEF RunsOf
      <3> QED
        BY <1>4, <1>6, <2>1, <3>1 DEF QueueInv, JobStands, Due
    <2>2. CASE i = j
      <3>1. RunsOf(j)' = RunsOf(j) \cup {r} /\ r \notin RunsOf(j)
        BY <1>3, <1>4, <1>7 DEF RunsOf
      <3>2. Cardinality(RunsOf(j)') = Cardinality(RunsOf(j)) + 1
        BY <3>1, RunsAreFinite, FS_AddElement
      <3>3. Cardinality(RunsOf(j))' = Cardinality(RunsOf(j)')
        OBVIOUS
      <3>4. JobStands(j) /\ Due(jobs[j].state) = 1 /\ Due(jobs[j].state)' = 0
        BY <1>1, <1>6 DEF QueueInv, Due
      <3>5. /\ applied[j] \in Nat /\ lost[j] \in Nat /\ Cardinality(RunsOf(j)) \in Nat
        BY <1>5, RunsAreFinite DEF QueueTypeOK
      <3> QED
        BY <1>1, <1>4, <1>6, <2>2, <3>2, <3>3, <3>4, <3>5 DEF JobStands
    <2> QED
      BY <2>1, <2>2
  <1>10. ASSUME NEW q \in Runs PROVE RunStands(q)'
    <2>1. CASE q = r
      BY <1>3, <1>6, <1>7, <2>1 DEF RunStands
    <2>2. CASE q # r
      <3>1. RunStands(q) /\ runs'[q] = runs[q] /\ runs[q].job \in Jobs
        BY <1>5, <1>7, <2>2 DEF QueueInv, QueueTypeOK, RunRecords
      <3> QED
        BY <1>1, <1>6, <3>1 DEF RunStands
    <2> QED
      BY <2>1, <2>2
  <1>11. OneOwner'
    <2>1. \A q \in Runs \ {r} : runs[q].own => runs[q].job # j
      BY <1>1 DEF QueueInv, RunStands
    <2> QED
      BY <1>3, <1>7, <2>1 DEF QueueInv, OneOwner
  <1>12. DeadLettersAreFinal'
    BY <1>1, <1>4, <1>5, <1>6 DEF QueueInv, QueueTypeOK, DeadLettersAreFinal
  <1> QED
    BY <1>8, <1>9, <1>10, <1>11, <1>12 DEF QueueInv

\* A run goes on: it builds, or starts over with the sequence of now.
LEMMA RunGoesOn ==
  ASSUME QueueInv, NEW r \in Runs, NEW x \in RunRecords, runs' = [runs EXCEPT ![r] = x],
         jobs' = jobs, caller' = caller, seen' = seen, failedEvents' = failedEvents,
         dead' = dead, sequence' = sequence, applied' = applied, lost' = lost,
         misses' = misses, crashed' = crashed,
         runs[r].step # "free", x.step # "free", x.job = runs[r].job, x.own = runs[r].own,
         x.step = "submit" /\ jobs[x.job].kind = "envelope" => x.seq = jobs[x.job].seq
  PROVE  QueueInv'
  <1>1. QueueTypeOK /\ runs'[r] = x /\ \A q \in Runs \ {r} : runs'[q] = runs[q]
    BY DEF QueueInv, QueueTypeOK
  <1>2. QueueTypeOK'
    BY <1>1 DEF QueueTypeOK
  <1>3. ASSUME NEW j \in Jobs PROVE JobStands(j)'
    <2>1. RunsOf(j)' = RunsOf(j)
      BY <1>1 DEF RunsOf
    <2> QED
      BY <2>1 DEF QueueInv, JobStands, Due
  <1>4. ASSUME NEW q \in Runs PROVE RunStands(q)'
    BY <1>1 DEF QueueInv, RunStands
  <1>5. OneOwner'
    BY <1>1 DEF QueueInv, OneOwner
  <1>6. DeadLettersAreFinal'
    BY DEF QueueInv, DeadLettersAreFinal
  <1> QED
    BY <1>2, <1>3, <1>4, <1>5, <1>6 DEF QueueInv

LEMMA BuildAndSignInv ==
  ASSUME QueueInv, NEW r \in Runs, BuildAndSign(r) \/ RetrySequence(r)
  PROVE  QueueInv'
  <1>1. QueueTypeOK /\ runs[r] \in RunRecords /\ runs[r].job \in Jobs
        /\ jobs[runs[r].job] \in JobRecords
    BY DEF QueueInv, QueueTypeOK, RunRecords
  <1>2. /\ jobs' = jobs /\ caller' = caller /\ seen' = seen /\ failedEvents' = failedEvents
        /\ dead' = dead /\ sequence' = sequence /\ applied' = applied /\ lost' = lost
        /\ misses' = misses /\ crashed' = crashed /\ runs[r].step # "free"
    BY DEF BuildAndSign, RetrySequence
  <1>3. CASE BuildAndSign(r)
    <2>1. PICK x : x = [runs[r] EXCEPT !.step = "submit", !.seq = SequenceFor(runs[r].job)]
      OBVIOUS
    <2>2. SequenceFor(runs[r].job) \in Nat
      BY <1>1 DEF SequenceFor, QueueTypeOK, JobRecords
    <2>3. /\ x \in RunRecords /\ x.step = "submit" /\ x.job = runs[r].job
          /\ x.own = runs[r].own /\ x.seq = SequenceFor(runs[r].job)
      BY <1>1, <2>1, <2>2 DEF RunRecords
    <2>4. runs' = [runs EXCEPT ![r] = x]
      BY <1>1, <1>3, <2>1 DEF BuildAndSign, QueueTypeOK
    <2>5. jobs[x.job].kind = "envelope" => x.seq = jobs[x.job].seq
      BY <2>3 DEF SequenceFor
    <2> QED
      BY <1>2, <2>3, <2>4, <2>5, RunGoesOn
  <1>4. CASE RetrySequence(r)
    <2>1. PICK x : x = [runs[r] EXCEPT !.step = "build", !.attempt = runs[r].attempt + 1]
      OBVIOUS
    <2>2. runs[r].attempt + 1 \in 0 .. MAX_SEQUENCE_RETRIES - 1
      BY <1>1, <1>4 DEF RetrySequence, RunRecords, MAX_SEQUENCE_RETRIES
    <2>3. /\ x \in RunRecords /\ x.step = "build" /\ x.job = runs[r].job /\ x.own = runs[r].own
      BY <1>1, <2>1, <2>2 DEF RunRecords
    <2>4. runs' = [runs EXCEPT ![r] = x]
      BY <1>1, <1>4, <2>1 DEF RetrySequence, QueueTypeOK
    <2> QED
      BY <1>2, <2>3, <2>4, RunGoesOn
  <1> QED
    BY <1>3, <1>4

\* What Bull makes of a job whose attempt failed.
LEMMA AfterFailureIs ==
  ASSUME QueueInv, NEW j \in Jobs, jobs[j].state = "active"
  PROVE  \E z \in JobRecords :
           /\ AfterFailure(j) = [jobs EXCEPT ![j] = z]
           /\ z.kind = jobs[j].kind /\ z.seq = jobs[j].seq
           /\ z.state \in {"delayed", "failed"}
           /\ z.state = "failed" <=> z.made = Attempts
           /\ Exhausted(j) <=> z.state = "failed"
  <1>1. jobs[j] \in JobRecords /\ jobs[j].made # Attempts
    BY DEF QueueInv, QueueTypeOK, JobStands
  <1>2. PICK m : m = jobs[j].made + 1
    OBVIOUS
  <1>3. PICK s : s = IF m < Attempts THEN "delayed" ELSE "failed"
    OBVIOUS
  <1>4. m \in 0 .. Attempts /\ s \in {"delayed", "failed"} /\ (s = "failed" <=> m = Attempts)
    BY <1>1, <1>2, <1>3 DEF JobRecords, Attempts
  <1>5. PICK z : z = [jobs[j] EXCEPT !.made = m, !.state = s]
    OBVIOUS
  <1>6. /\ z \in JobRecords /\ z.kind = jobs[j].kind /\ z.seq = jobs[j].seq /\ z.state = s
        /\ z.made = m
    BY <1>1, <1>4, <1>5 DEF JobRecords, JobStates
  <1>7. AfterFailure(j) = [jobs EXCEPT ![j] = z]
    BY <1>2, <1>3, <1>5 DEF AfterFailure, QueueInv, QueueTypeOK
  <1>8. Exhausted(j) <=> s = "failed"
    BY <1>1, <1>2, <1>4 DEF Exhausted, Attempts, JobRecords
  <1> QED
    BY <1>4, <1>6, <1>7, <1>8

\* A run ends.  If the network applies its transaction, that was paid for by the
\* run, and a next attempt by the first, or by the outcome that is lost.
LEMMA RunEnds ==
  ASSUME QueueInv, NEW r \in Runs, NEW j \in Jobs, j = runs[r].job, runs[r].step = "submit",
         runs' = Free(r), caller' = caller, seen' = seen, dead' = dead, crashed' = crashed,
         misses' \in Nat,
         NEW z \in JobRecords, jobs' = [jobs EXCEPT ![j] = z],
         z.kind = jobs[j].kind, z.seq = jobs[j].seq, z.state # "none",
         ~runs[r].own => z = jobs[j],
         z.state = "failed" <=> z.made = Attempts,
         NEW n \in Nat, applied' = [applied EXCEPT ![j] = n],
         \/ n = applied[j] /\ sequence' = sequence
         \/ n = applied[j] + 1 /\ sequence' = sequence + 1 /\ runs[r].seq = sequence + 1,
         NEW l \in Nat, lost' = [lost EXCEPT ![j] = l], l >= lost[j],
         n + Due(z.state) + lost[j] <= applied[j] + Due(jobs[j].state) + l + 1,
         \/ failedEvents' = failedEvents
         \/ failedEvents' = failedEvents \cup {j} /\ z.state = "failed"
  PROVE  QueueInv'
  <1>1. /\ QueueTypeOK /\ runs[r] \in RunRecords /\ jobs[j] \in JobRecords
        /\ applied[j] \in Nat /\ lost[j] \in Nat /\ sequence \in Nat /\ sequence' \in Nat
        /\ jobs[j].seq \in Nat /\ sequence' >= sequence
    BY DEF QueueInv, QueueTypeOK, JobRecords
  <1>2. jobs'[j] = z /\ \A i \in Jobs \ {j} : jobs'[i] = jobs[i]
    BY <1>1 DEF QueueTypeOK
  <1>3. /\ applied'[j] = n /\ lost'[j] = l
        /\ \A i \in Jobs \ {j} : applied'[i] = applied[i] /\ lost'[i] = lost[i]
    BY <1>1 DEF QueueTypeOK
  <1>4. runs'[r] = NoRun /\ \A q \in Runs \ {r} : runs'[q] = runs[q]
    BY <1>1 DEF Free, QueueTypeOK
  <1>5. NoRun.step = "free" /\ ~NoRun.own
    BY DEF NoRun
  <1>6. runs' \in [Runs -> RunRecords]
    BY <1>1, NoRunIsTyped DEF Free, QueueTypeOK
  <1> HIDE DEF NoRun
  <1>7. QueueTypeOK'
    <2>1. jobs' \in [Jobs -> JobRecords] /\ applied' \in [Jobs -> Nat] /\ lost' \in [Jobs -> Nat]
      BY <1>1 DEF QueueTypeOK
    <2>2. failedEvents' \subseteq Jobs
      BY <1>1 DEF QueueTypeOK
    <2> QED
      BY <1>1, <1>6, <2>1, <2>2 DEF QueueTypeOK
  <1>8. ASSUME NEW i \in Jobs PROVE JobStands(i)'
    <2>1. CASE i # j
      <3>1. RunsOf(i)' = RunsOf(i)
        BY <1>1, <2>1, FreedRuns
      <3>2. applied[i] \in Nat /\ lost[i] \in Nat /\ jobs[i].seq \in Nat /\ JobStands(i)
        BY <1>1 DEF QueueInv, QueueTypeOK, JobRecords
      <3>3. RunsOf(i)' \subseteq RunsOf(i) /\ lost'[i] \in Nat /\ lost'[i] >= lost[i]
        BY <1>3, <2>1, <3>1, <3>2
      <3> QED
        BY <1>1, <1>2, <1>3, <2>1, <3>2, <3>3, JobKept
    <2>2. CASE i = j
      <3>1. JobStands(j)
        BY DEF QueueInv
      <3>2. Cardinality(RunsOf(j)') = Cardinality(RunsOf(j)) - 1
        BY <1>1, FreedRuns
      <3>3. Cardinality(RunsOf(j)) \in Nat /\ Cardinality(RunsOf(j))' = Cardinality(RunsOf(j)')
        BY RunsAreFinite
      <3>4. Due(z.state) \in 0 .. 1 /\ Due(jobs[j].state) \in 0 .. 1
            /\ Due(jobs[j].state)' = Due(z.state)
        BY <1>2 DEF Due
      <3>5. applied[j] + Cardinality(RunsOf(j)) + Due(jobs[j].state) <= 1 + lost[j]
        BY <3>1 DEF JobStands
      <3>6. n + Cardinality(RunsOf(j))' + Due(jobs[j].state)' <= 1 + l
        BY <1>1, <3>2, <3>3, <3>4, <3>5
      <3>7. jobs[j].kind = "envelope" => n <= 1 /\ (n > 0 => jobs[j].seq <= sequence')
        <4> SUFFICES ASSUME jobs[j].kind = "envelope"
                     PROVE  n <= 1 /\ (n > 0 => jobs[j].seq <= sequence')
          OBVIOUS
        <4>1. runs[r].seq = jobs[j].seq
          BY DEF QueueInv, RunStands
        <4> QED
          BY <1>1, <3>1, <4>1 DEF JobStands
      <3> QED
        BY <1>2, <1>3, <2>2, <3>6, <3>7 DEF JobStands
    <2> QED
      BY <2>1, <2>2
  <1>9. ASSUME NEW q \in Runs PROVE RunStands(q)'
    <2>1. CASE q = r
      BY <1>4, <1>5, <2>1 DEF RunStands
    <2>2. CASE q # r
      <3>1. /\ RunStands(q) /\ runs'[q] = runs[q] /\ runs[q].job \in Jobs
            /\ jobs[runs[q].job] \in JobRecords
        BY <1>1, <1>4, <2>2 DEF QueueInv, QueueTypeOK, RunRecords
      <3>2. CASE runs[q].job # j
        BY <1>2, <3>1, <3>2 DEF RunStands
      <3>3. CASE runs[q].job = j
        <4>1. runs[q].own => ~runs[r].own
          BY <2>2, <3>3 DEF QueueInv, OneOwner
        <4> QED
          BY <1>2, <3>1, <3>3, <4>1 DEF RunStands
      <3> QED
        BY <3>2, <3>3
    <2> QED
      BY <2>1, <2>2
  <1>10. OneOwner'
    BY <1>4, <1>5 DEF QueueInv, OneOwner
  <1>11. DeadLettersAreFinal'
    <2> SUFFICES ASSUME NEW i \in dead' \cup failedEvents'
                 PROVE  jobs'[i].state = "failed" /\ jobs'[i].made = Attempts
      BY DEF DeadLettersAreFinal
    <2>1. CASE i \in dead \cup failedEvents
      <3>1. jobs[i].state = "failed" /\ jobs[i].made = Attempts /\ i \in Jobs
        BY <1>1, <2>1 DEF QueueInv, QueueTypeOK, DeadLettersAreFinal
      <3>2. i = j => ~runs[r].own
        BY <3>1 DEF QueueInv, RunStands
      <3> QED
        BY <1>2, <3>1, <3>2
    <2>2. CASE i = j /\ z.state = "failed"
      BY <1>2, <2>2
    <2> QED
      BY <2>1, <2>2
  <1> QED
    BY <1>7, <1>8, <1>9, <1>10, <1>11 DEF QueueInv

\* A run that fails: Bull records it while the attempt is the run's own.
LEMMA FailsInv ==
  ASSUME QueueInv, NEW r \in Runs, NEW j \in Jobs, j = runs[r].job, runs[r].step = "submit",
         FailAttempt(r), caller' = caller, seen' = seen, dead' = dead, crashed' = crashed,
         misses' \in Nat,
         NEW n \in Nat, applied' = [applied EXCEPT ![j] = n],
         NEW l \in Nat, lost' = [lost EXCEPT ![j] = l],
         \/ n = applied[j] /\ sequence' = sequence /\ l = lost[j]
         \/ /\ n = applied[j] + 1 /\ sequence' = sequence + 1 /\ runs[r].seq = sequence + 1
            /\ l = lost[j] + 1
  PROVE  QueueInv'
  <1>1. /\ QueueTypeOK /\ jobs[j] \in JobRecords /\ JobStands(j)
        /\ applied[j] \in Nat /\ lost[j] \in Nat /\ runs' = Free(r)
    BY DEF QueueInv, QueueTypeOK, FailAttempt
  <1>2. jobs[j].state # "none" /\ (runs[r].own => jobs[j].state = "active")
    BY DEF QueueInv, RunStands
  <1>3. \A s : Due(s) \in 0 .. 1
    BY DEF Due
  <1>4. l >= lost[j] /\ n + lost[j] <= applied[j] + l
    BY <1>1
  <1>5. \A s : n + Due(s) + lost[j] <= applied[j] + Due(s) + l + 1
    BY <1>1, <1>3, <1>4
  <1>6. \A s : n + Due(s) + lost[j] <= applied[j] + Due(jobs[j].state) + l + 1
    BY <1>1, <1>3, <1>4
  <1>7. CASE runs[r].own
    <2>1. PICK z \in JobRecords :
            /\ AfterFailure(j) = [jobs EXCEPT ![j] = z]
            /\ z.kind = jobs[j].kind /\ z.seq = jobs[j].seq
            /\ z.state \in {"delayed", "failed"}
            /\ z.state = "failed" <=> z.made = Attempts
            /\ Exhausted(j) <=> z.state = "failed"
      BY <1>2, <1>7, AfterFailureIs
    <2>2. /\ jobs' = [jobs EXCEPT ![j] = z]
          /\ \/ failedEvents' = failedEvents
             \/ failedEvents' = failedEvents \cup {j} /\ z.state = "failed"
      BY <1>7, <2>1 DEF FailAttempt
    <2>3. n + Due(z.state) + lost[j] <= applied[j] + Due(jobs[j].state) + l + 1
      BY <1>6
    <2>4. z.state # "none"
      BY <2>1
    <2> QED
      BY <1>1, <1>4, <1>7, <2>1, <2>2, <2>3, <2>4, RunEnds
  <1>8. CASE ~runs[r].own
    <2>1. PICK z : z = jobs[j]
      OBVIOUS
    <2>2. jobs' = [jobs EXCEPT ![j] = z] /\ failedEvents' = failedEvents
      BY <1>1, <1>8, <2>1 DEF FailAttempt, QueueTypeOK
    <2>3. n + Due(z.state) + lost[j] <= applied[j] + Due(jobs[j].state) + l + 1
      BY <1>6
    <2>4. z.state = "failed" <=> z.made = Attempts
      BY <1>1, <2>1 DEF JobStands
    <2> QED
      BY <1>1, <1>2, <1>4, <2>1, <2>2, <2>3, <2>4, RunEnds
  <1> QED
    BY <1>7, <1>8

LEMMA SubmitInv ==
  ASSUME QueueInv, NEW r \in Runs, Submit(r)
  PROVE  QueueInv'
  <1>1. PICK j : j = runs[r].job
    OBVIOUS
  <1>2. /\ runs[r].step = "submit" /\ runs[r].seq = sequence + 1 /\ sequence' = sequence + 1
        /\ applied' = [applied EXCEPT ![j] = applied[j] + 1] /\ runs' = Free(r)
        /\ jobs' = IF runs[r].own THEN [jobs EXCEPT ![j].state = "completed"] ELSE jobs
        /\ caller' = caller /\ seen' = seen /\ dead' = dead /\ crashed' = crashed
        /\ failedEvents' = failedEvents /\ lost' = lost /\ misses' = misses
    BY <1>1 DEF Submit
  <1>3. /\ QueueTypeOK /\ j \in Jobs /\ jobs[j] \in JobRecords /\ JobStands(j)
        /\ applied[j] \in Nat /\ lost[j] \in Nat /\ misses' \in Nat
    BY <1>1, <1>2 DEF QueueInv, QueueTypeOK, RunRecords
  <1>4. jobs[j].state # "none" /\ (runs[r].own => jobs[j].state = "active")
    BY <1>1, <1>2 DEF QueueInv, RunStands
  <1>5. applied[j] + 1 \in Nat /\ lost' = [lost EXCEPT ![j] = lost[j]]
    BY <1>2, <1>3 DEF QueueTypeOK
  <1>6. \A s : Due(s) \in 0 .. 1
    BY DEF Due
  <1>7. PICK z : z = IF runs[r].own THEN [jobs[j] EXCEPT !.state = "completed"] ELSE jobs[j]
    OBVIOUS
  <1>8. jobs' = [jobs EXCEPT ![j] = z]
    BY <1>2, <1>3, <1>7 DEF QueueTypeOK
  <1>9. /\ z \in JobRecords /\ z.kind = jobs[j].kind /\ z.seq = jobs[j].seq
        /\ z.state # "none" /\ (~runs[r].own => z = jobs[j])
        /\ z.made = jobs[j].made /\ (runs[r].own => z.state = "completed")
    BY <1>3, <1>4, <1>7 DEF JobRecords, JobStates
  <1>10. z.state = "failed" <=> z.made = Attempts
    BY <1>3, <1>4, <1>9 DEF JobStands
  <1>11. Due(z.state) <= Due(jobs[j].state)
    BY <1>4, <1>9 DEF Due
  <1>12. applied[j] + 1 + Due(z.state) + lost[j] <= applied[j] + Due(jobs[j].state) + lost[j] + 1
    BY <1>3, <1>6, <1>11
  <1>13. lost[j] >= lost[j]
    BY <1>3
  <1> QED
    BY <1>1, <1>2, <1>3, <1>5, <1>8, <1>9, <1>10, <1>12, <1>13, RunEnds

LEMMA ReplyLostInv ==
  ASSUME QueueInv, NEW r \in Runs, ReplyLost(r)
  PROVE  QueueInv'
  <1>1. PICK j : j = runs[r].job
    OBVIOUS
  <1>2. /\ runs[r].step = "submit" /\ runs[r].seq = sequence + 1 /\ sequence' = sequence + 1
        /\ applied' = [applied EXCEPT ![j] = applied[j] + 1]
        /\ lost' = [lost EXCEPT ![j] = lost[j] + 1] /\ FailAttempt(r)
        /\ caller' = caller /\ seen' = seen /\ dead' = dead /\ crashed' = crashed
        /\ misses' = misses
    BY <1>1 DEF ReplyLost
  <1>3. /\ j \in Jobs /\ applied[j] + 1 \in Nat /\ lost[j] + 1 \in Nat /\ misses' \in Nat
    BY <1>1, <1>2 DEF QueueInv, QueueTypeOK, RunRecords
  <1> QED
    BY <1>1, <1>2, <1>3, FailsInv

LEMMA SubmitFailsInv ==
  ASSUME QueueInv, NEW r \in Runs, SubmitFails(r)
  PROVE  QueueInv'
  <1>1. PICK j : j = runs[r].job
    OBVIOUS
  <1>2. /\ runs[r].step = "submit" /\ sequence' = sequence /\ FailAttempt(r)
        /\ applied' = applied /\ lost' = lost
        /\ caller' = caller /\ seen' = seen /\ dead' = dead /\ crashed' = crashed
        /\ (misses' = misses \/ misses' = misses + 1)
    BY DEF SubmitFails
  <1>3. /\ j \in Jobs /\ applied[j] \in Nat /\ lost[j] \in Nat /\ misses' \in Nat
    BY <1>1, <1>2 DEF QueueInv, QueueTypeOK, RunRecords
  <1>4. PICK n \in Nat, l \in Nat : n = applied[j] /\ l = lost[j]
    BY <1>3
  <1>5. applied' = [applied EXCEPT ![j] = n] /\ lost' = [lost EXCEPT ![j] = l]
    BY <1>2, <1>4 DEF QueueInv, QueueTypeOK
  <1>6. n = applied[j] /\ sequence' = sequence /\ l = lost[j]
    BY <1>2, <1>4
  <1>7. /\ runs[r].step = "submit" /\ FailAttempt(r) /\ j \in Jobs /\ misses' \in Nat
        /\ caller' = caller /\ seen' = seen /\ dead' = dead /\ crashed' = crashed
    BY <1>2, <1>3
  <1> QED
    BY <1>1, <1>5, <1>6, <1>7, FailsInv

\* The run goes on without owning the job, which may be tried again: the outcome
\* of the run is one nobody learns of.
LEMMA AttemptTimesOutInv ==
  ASSUME QueueInv, NEW r \in Runs, AttemptTimesOut(r)
  PROVE  QueueInv'
  <1>1. PICK j : j = runs[r].job
    OBVIOUS
  <1>2. /\ runs[r].step # "free" /\ runs[r].own
        /\ lost' = [lost EXCEPT ![j] = lost[j] + 1] /\ runs' = Disowned(r)
        /\ jobs' = AfterFailure(j)
        /\ failedEvents' = IF Exhausted(j) THEN failedEvents \cup {j} ELSE failedEvents
        /\ caller' = caller /\ seen' = seen /\ dead' = dead /\ crashed' = crashed
        /\ misses' = misses /\ sequence' = sequence /\ applied' = applied
    BY <1>1 DEF AttemptTimesOut
  <1>3. /\ QueueTypeOK /\ j \in Jobs /\ jobs[j] \in JobRecords /\ JobStands(j)
        /\ applied[j] \in Nat /\ lost[j] \in Nat /\ runs[r] \in RunRecords
    BY <1>1 DEF QueueInv, QueueTypeOK, RunRecords
  <1>4. jobs[j].state = "active"
    BY <1>1, <1>2 DEF QueueInv, RunStands
  <1>5. PICK z \in JobRecords :
          /\ AfterFailure(j) = [jobs EXCEPT ![j] = z]
          /\ z.kind = jobs[j].kind /\ z.seq = jobs[j].seq
          /\ z.state \in {"delayed", "failed"}
          /\ z.state = "failed" <=> z.made = Attempts
          /\ Exhausted(j) <=> z.state = "failed"
    BY <1>3, <1>4, AfterFailureIs
  <1>6. /\ jobs'[j] = z /\ \A i \in Jobs \ {j} : jobs'[i] = jobs[i]
        /\ jobs' \in [Jobs -> JobRecords]
    BY <1>2, <1>3, <1>5 DEF QueueTypeOK
  <1>7. /\ runs'[r] = [runs[r] EXCEPT !.own = FALSE] /\ \A q \in Runs \ {r} : runs'[q] = runs[q]
        /\ runs' \in [Runs -> RunRecords]
    BY <1>2, <1>3 DEF Disowned, QueueTypeOK, RunRecords
  <1>8. /\ ~runs'[r].own /\ runs'[r].job = j /\ runs'[r].step = runs[r].step
        /\ runs'[r].seq = runs[r].seq
    BY <1>1, <1>3, <1>7 DEF RunRecords
  <1>9. QueueTypeOK'
    BY <1>2, <1>3, <1>6, <1>7 DEF QueueTypeOK
  <1>10. ASSUME NEW i \in Jobs PROVE JobStands(i)'
    <2>1. RunsOf(i)' = RunsOf(i)
      BY <1>1, <1>7, <1>8 DEF RunsOf
    <2>2. CASE i # j
      <3>1. lost'[i] = lost[i]
        BY <1>2, <1>3, <2>2 DEF QueueTypeOK
      <3> QED
        BY <1>2, <1>6, <2>1, <2>2, <3>1 DEF QueueInv, JobStands
    <2>3. CASE i = j
      <3>1. lost'[j] = lost[j] + 1
        BY <1>2, <1>3 DEF QueueTypeOK
      <3>2. Due(z.state) \in 0 .. 1 /\ Due(jobs[j].state) = 0 /\ Due(jobs[j].state)' = Due(z.state)
        BY <1>4, <1>6 DEF Due
      <3>3. Cardinality(RunsOf(j)) \in Nat
        BY RunsAreFinite
      <3>4. applied[j] + Cardinality(RunsOf(j)) + Due(z.state) <= 1 + (lost[j] + 1)
        BY <1>3, <3>2, <3>3 DEF JobStands
      <3> QED
        BY <1>2, <1>3, <1>4, <1>5, <1>6, <2>1, <2>3, <3>1, <3>2, <3>4 DEF JobStands
    <2> QED
      BY <2>2, <2>3
  <1>11. ASSUME NEW q \in Runs PROVE RunStands(q)'
    <2>1. CASE q = r
      BY <1>1, <1>3, <1>5, <1>6, <1>8, <2>1 DEF QueueInv, RunStands
    <2>2. CASE q # r
      <3>1. /\ RunStands(q) /\ runs'[q] = runs[q] /\ runs[q].job \in Jobs
            /\ (runs[q].own => runs[q].job # j)
        BY <1>1, <1>2, <1>3, <1>7, <2>2 DEF QueueInv, QueueTypeOK, OneOwner, RunRecords
      <3> QED
        BY <1>5, <1>6, <3>1 DEF RunStands
    <2> QED
      BY <2>1, <2>2
  <1>12. OneOwner'
    BY <1>7, <1>8 DEF QueueInv, OneOwner
  <1>13. DeadLettersAreFinal'
    <2> SUFFICES ASSUME NEW i \in dead' \cup failedEvents'
                 PROVE  jobs'[i].state = "failed" /\ jobs'[i].made = Attempts
      BY DEF DeadLettersAreFinal
    <2>1. CASE i \in dead \cup failedEvents
      <3>1. jobs[i].state = "failed" /\ jobs[i].made = Attempts /\ i \in Jobs
        BY <1>3, <2>1 DEF QueueInv, QueueTypeOK, DeadLettersAreFinal
      <3> QED
        BY <1>4, <1>6, <3>1
    <2>2. CASE i = j /\ z.state = "failed"
      BY <1>5, <1>6, <2>2
    <2> QED
      BY <1>2, <1>5, <2>1, <2>2
  <1> QED
    BY <1>9, <1>10, <1>11, <1>12, <1>13 DEF QueueInv

LEMMA CrashAgentInv ==
  ASSUME QueueInv, CrashAgent
  PROVE  QueueInv'
  <1> DEFINE stalled == {j \in Jobs : jobs[j].state = "active"}
  <1>1. /\ caller' = [c \in Callers |-> "idle"] /\ runs' = [r \in Runs |-> NoRun]
        /\ jobs' = [j \in Jobs |-> IF j \in stalled THEN [jobs[j] EXCEPT !.state = "waiting"]
                                   ELSE jobs[j]]
        /\ lost' = [j \in Jobs |-> IF j \in stalled THEN lost[j] + 1 ELSE lost[j]]
        /\ failedEvents' = {} /\ crashed' = TRUE
        /\ seen' = seen /\ dead' = dead /\ sequence' = sequence /\ applied' = applied
        /\ misses' = misses
    BY DEF CrashAgent
  <1>2. NoRun.step = "free" /\ ~NoRun.own
    BY DEF NoRun
  <1> HIDE DEF NoRun
  <1>3. ASSUME NEW j \in Jobs
        PROVE  /\ jobs[j] \in JobRecords /\ lost[j] \in Nat /\ applied[j] \in Nat /\ JobStands(j)
               /\ jobs'[j] \in JobRecords /\ lost'[j] \in Nat
               /\ jobs'[j].made = jobs[j].made /\ jobs'[j].kind = jobs[j].kind
               /\ jobs'[j].seq = jobs[j].seq
               /\ jobs[j].state # "active" => jobs'[j].state = jobs[j].state /\ lost'[j] = lost[j]
               /\ jobs[j].state = "active" => jobs'[j].state = "waiting" /\ lost'[j] = lost[j] + 1
    <2>1. jobs[j] \in JobRecords /\ lost[j] \in Nat /\ applied[j] \in Nat /\ JobStands(j)
      BY DEF QueueInv, QueueTypeOK
    <2>2. CASE jobs[j].state = "active"
      <3>1. jobs'[j] = [jobs[j] EXCEPT !.state = "waiting"] /\ lost'[j] = lost[j] + 1
        BY <1>1, <2>2
      <3> QED
        BY <2>1, <2>2, <3>1 DEF JobRecords, JobStates
    <2>3. CASE jobs[j].state # "active"
      <3>1. jobs'[j] = jobs[j] /\ lost'[j] = lost[j]
        BY <1>1, <2>3
      <3> QED
        BY <2>1, <2>3, <3>1
    <2> QED
      BY <2>2, <2>3
  <1>4. QueueTypeOK'
    <2>1. /\ runs' \in [Runs -> RunRecords]
          /\ caller' \in [Callers -> {"idle", "unseen", "marked"}]
      BY <1>1, NoRunIsTyped
    <2>2. jobs' \in [Jobs -> JobRecords] /\ lost' \in [Jobs -> Nat]
      <3>1. jobs' = [j \in Jobs |-> jobs'[j]] /\ lost' = [j \in Jobs |-> lost'[j]]
        BY <1>1
      <3> QED
        BY <1>3, <3>1
    <2> QED
      BY <1>1, <2>1, <2>2 DEF QueueInv, QueueTypeOK
  <1>5. ASSUME NEW j \in Jobs PROVE JobStands(j)'
    <2>1. RunsOf(j)' = {}
      BY <1>1, <1>2 DEF RunsOf
    <2>2. Cardinality(RunsOf(j))' = 0
      BY <2>1, FS_EmptySet
    <2>3. Cardinality(RunsOf(j)) \in Nat
      BY RunsAreFinite
    <2>4. CASE jobs[j].state = "active"
      <3>1. Due(jobs[j].state) = 0 /\ Due(jobs[j].state)' = 1
        BY <1>3, <2>4 DEF Due
      <3>2. applied[j] + 0 + 1 <= 1 + (lost[j] + 1)
        BY <1>3, <2>3, <3>1 DEF JobStands
      <3>3. /\ applied'[j] = applied[j] /\ lost'[j] = lost[j] + 1 /\ applied'[j] \in Nat
            /\ jobs[j].made # Attempts /\ jobs'[j].state = "waiting" /\ sequence' = sequence
            /\ jobs'[j].made = jobs[j].made /\ jobs'[j].kind = jobs[j].kind
            /\ jobs'[j].seq = jobs[j].seq
        BY <1>1, <1>3, <2>4 DEF JobStands
      <3>4. applied'[j] + Cardinality(RunsOf(j))' + Due(jobs[j].state)' <= 1 + lost'[j]
        BY <2>2, <3>1, <3>2, <3>3
      <3>5. jobs'[j].kind = "envelope" =>
              applied'[j] <= 1 /\ (applied'[j] > 0 => jobs'[j].seq <= sequence')
        BY <1>3, <3>3 DEF JobStands
      <3> QED
        BY <3>3, <3>4, <3>5 DEF JobStands
    <2>5. CASE jobs[j].state # "active"
      <3>1. Due(jobs[j].state)' = Due(jobs[j].state) /\ Due(jobs[j].state) \in 0 .. 1
        BY <1>3, <2>5 DEF Due
      <3>2. applied[j] + 0 + Due(jobs[j].state) <= 1 + lost[j]
        BY <1>3, <2>3, <3>1 DEF JobStands
      <3> QED
        BY <1>1, <1>3, <2>2, <2>5, <3>1, <3>2 DEF JobStands
    <2> QED
      BY <2>4, <2>5
  <1>6. ASSUME NEW r \in Runs PROVE RunStands(r)'
    BY <1>1, <1>2 DEF RunStands
  <1>7. OneOwner'
    BY <1>1, <1>2 DEF OneOwner
  <1>8. DeadLettersAreFinal'
    BY <1>1, <1>3 DEF QueueInv, QueueTypeOK, DeadLettersAreFinal
  <1> QED
    BY <1>4, <1>5, <1>6, <1>7, <1>8 DEF QueueInv

LEMMA QueueStepInv ==
  ASSUME QueueInv, [QueueNext]_queueVars
  PROVE  QueueInv'
  <1>1. CASE UNCHANGED queueVars
    BY <1>1 DEF queueVars, QueueInv, QueueTypeOK, JobStands, RunStands, RunsOf, OneOwner,
       DeadLettersAreFinal
  <1> QED
    BY <1>1, AsideInv, AddJobInv, PromoteInv, StartRunInv, BuildAndSignInv, SubmitInv,
       ReplyLostInv, SubmitFailsInv, AttemptTimesOutInv, CrashAgentInv DEF QueueNext, RunStep

\* An envelope is applied at most once and a payment again only for an outcome
\* that was lost, no job has two owners, and a dead letter is final: for any
\* number of callers, jobs and workers, and of crashes, timeouts and lost replies.
THEOREM QueueSafe == QueueSpec => []QueueSafety
  <1>1. QueueInv => QueueSafety
    <2> SUFFICES ASSUME QueueInv PROVE QueueSafety
      OBVIOUS
    <2>1. EnvelopeAppliedOnce
      BY DEF QueueInv, JobStands, EnvelopeAppliedOnce
    <2>2. ASSUME NEW j \in Jobs PROVE applied[j] <= 1 + lost[j]
      <3>1. applied[j] \in Nat /\ lost[j] \in Nat /\ Cardinality(RunsOf(j)) \in Nat
        BY RunsAreFinite DEF QueueInv, QueueTypeOK
      <3>2. Due(jobs[j].state) \in 0 .. 1
        BY DEF Due
      <3> QED
        BY <3>1, <3>2 DEF QueueInv, JobStands
    <2>3. OneOwnerPerJob
      BY DEF QueueInv, RunStands, OneOwner, OneOwnerPerJob
    <2> QED
      BY <2>1, <2>2, <2>3 DEF QueueInv, QueueSafety, RepeatsOnlyAfterLostOutcome
  <1> QED
    BY <1>1, QueueInitInv, QueueStepInv, PTL DEF QueueSpec

-----------------------------------------------------------------------------
(***************************************************************************)
(* Recovery from failed rebalances (rebalanceRecovery.ts).  A sequence that *)
(* still retries has retries left; whose owner was alerted has none.        *)
(***************************************************************************)

Sequences == [step : {"none", "recording", "sleeping", "retrying", "alerting", "clearing", "over"},
              made : 0 .. maxAttempts]

SequenceStands(f) ==
  /\ recovery[f].step \in {"sleeping", "retrying"} => recovery[f].made < maxAttempts
  /\ recovery[f].step = "alerting" => recovery[f].made = maxAttempts
  /\ recovery[f].step = "clearing" => f \in alerted
  /\ f \in alerted => recovery[f].made = maxAttempts /\ recovery[f].step \in {"clearing", "over"}
  /\ f \in outdated => recovery[f].step # "none"

RebalanceInv ==
  /\ RecoveryTypeOK /\ StatusIsLatest /\ ClearedOnlyAfterAlert
  /\ \A f \in Failures : SequenceStands(f)

LEMMA RebalanceInitInv == RecoveryInit => RebalanceInv
  <1> SUFFICES ASSUME RecoveryInit PROVE RebalanceInv
    OBVIOUS
  <1>1. \A f \in Failures : recovery[f].step = "none" /\ recovery[f].made = 0
    BY DEF RecoveryInit
  <1>2. RecoveryTypeOK
    <2>1. 0 \in 0 .. maxAttempts
      BY DEF maxAttempts
    <2>2. PICK z : z = [step |-> "none", made |-> 0]
      OBVIOUS
    <2>3. z \in Sequences
      BY <2>1, <2>2 DEF Sequences
    <2>4. recovery \in [Failures -> Sequences]
      BY <2>2, <2>3 DEF RecoveryInit
    <2> QED
      BY <2>4 DEF RecoveryInit, RecoveryTypeOK, Sequences
  <1> QED
    BY <1>1, <1>2 DEF RecoveryInit, RebalanceInv, StatusIsLatest, ClearedOnlyAfterAlert,
                      SequenceStands

\* A sequence goes on as a right one does, and the others stay as they are.
LEMMA SequenceMoves ==
  ASSUME RebalanceInv, NEW f \in Failures, NEW z \in Sequences,
         recovery' = [recovery EXCEPT ![f] = z],
         alerted \subseteq alerted', alerted' \subseteq alerted \cup {f},
         z.step \in {"sleeping", "retrying"} => z.made < maxAttempts,
         z.step = "alerting" => z.made = maxAttempts,
         z.step = "clearing" => f \in alerted',
         f \in alerted' => z.made = maxAttempts /\ z.step \in {"clearing", "over"},
         z.step # "none",
         \/ /\ health' = health /\ outdated' = outdated /\ recovery[f].step # "none"
            /\ recovery[f].step \in {"alerting", "clearing"} =>
                 z.made = recovery[f].made /\ z.step \in {"clearing", "over"}
            /\ recovery[f].step # "over"
         \/ health' = "degraded" /\ outdated' = outdated /\ recovery[f].step = "none"
         \/ health' = "failed" /\ outdated' = outdated /\ z.step = "alerting"
         \/ /\ health' = "healthy" /\ outdated' = {g \in Failures : recovery[g].step # "none"}
            /\ recovery[f].step # "none",
         cleared' \in BOOLEAN, cleared' => cleared \/ f \in alerted'
  PROVE  RebalanceInv'
  <1>1. /\ recovery \in [Failures -> Sequences] /\ alerted \subseteq Failures
        /\ \A g \in Failures : recovery'[g] = IF g = f THEN z ELSE recovery[g]
    BY DEF RebalanceInv, RecoveryTypeOK, Sequences
  <1>2. RecoveryTypeOK'
    <2>1. recovery' \in [Failures -> Sequences]
      BY <1>1
    <2>2. /\ health' \in {"healthy", "degraded", "failed"} /\ outdated' \subseteq Failures
          /\ alerted' \subseteq Failures
      BY <1>1 DEF RebalanceInv, RecoveryTypeOK
    <2> QED
      BY <2>1, <2>2 DEF RecoveryTypeOK, Sequences
  <1>3. \A g \in Failures : SequenceStands(g)'
    BY <1>1 DEF RebalanceInv, SequenceStands
  <1>4. StatusIsLatest'
    <2> DEFINE Reported == {g \in Failures : recovery[g].step # "none"}
    <2>1. {g \in Failures : recovery'[g].step # "none"} = Reported \cup {f}
      BY <1>1
    <2>2. health' = "healthy" => Reported \cup {f} \subseteq outdated'
      BY DEF RebalanceInv, StatusIsLatest
    <2>3. health' = "degraded" => ~(Reported \cup {f} \subseteq outdated')
      BY DEF RebalanceInv, StatusIsLatest, SequenceStands
    <2>4. ASSUME health' = "failed"
          PROVE  \E g \in Failures :
                   recovery'[g].made = maxAttempts /\ recovery'[g].step \in {"alerting", "clearing", "over"}
      <3>1. CASE z.step = "alerting"
        BY <1>1, <3>1
      <3>2. CASE health = "failed" /\ z.step # "alerting"
        BY <1>1, <2>4, <3>2 DEF RebalanceInv, StatusIsLatest
      <3> QED
        BY <2>4, <3>1, <3>2
    <2> QED
      BY <2>1, <2>2, <2>3, <2>4 DEF StatusIsLatest
  <1>5. ClearedOnlyAfterAlert'
    <2>1. \A g \in Failures : g \in alerted' => recovery'[g].made = maxAttempts
      BY <1>3 DEF SequenceStands
    <2>2. cleared => \E g \in alerted : g \in alerted'
      BY DEF RebalanceInv, ClearedOnlyAfterAlert
    <2> QED
      BY <1>1, <2>1, <2>2 DEF ClearedOnlyAfterAlert
  <1> QED
    BY <1>2, <1>3, <1>4, <1>5 DEF RebalanceInv

LEMMA RebalanceStepInv ==
  ASSUME RebalanceInv, [RecoveryNext]_recoveryVars
  PROVE  RebalanceInv'
  <1>1. /\ recovery \in [Failures -> Sequences] /\ alerted \subseteq Failures
        /\ outdated \subseteq Failures /\ cleared \in BOOLEAN
        /\ health \in {"healthy", "degraded", "failed"}
    BY DEF RebalanceInv, RecoveryTypeOK, Sequences
  <1>2. CASE UNCHANGED recoveryVars
    BY <1>2 DEF recoveryVars, RebalanceInv, RecoveryTypeOK, StatusIsLatest,
                ClearedOnlyAfterAlert, SequenceStands
  <1>3. CASE OnSuccessOrReset
    BY <1>1, <1>3 DEF OnSuccessOrReset, Healthy, RebalanceInv, RecoveryTypeOK, StatusIsLatest,
                      ClearedOnlyAfterAlert, SequenceStands
  <1>4. ASSUME NEW f \in Failures, HandleFailure(f) \/ RecoveryStep(f)
        PROVE  RebalanceInv'
    <2> DEFINE Put(s) == [recovery[f] EXCEPT !.step = s]
    <2>1. recovery[f] \in Sequences /\ SequenceStands(f) /\ 0 \in 0 .. maxAttempts
      BY <1>1 DEF RebalanceInv, maxAttempts
    <2>2. \A s \in {"none", "recording", "sleeping", "retrying", "alerting", "clearing", "over"} :
            /\ Put(s) \in Sequences /\ Put(s).step = s /\ Put(s).made = recovery[f].made
            /\ (Moves(f, s) => recovery' = [recovery EXCEPT ![f] = Put(s)])
      BY <1>1, <2>1 DEF Sequences, Moves
    <2> HIDE DEF Put
    <2>3. CASE HandleFailure(f)
      <3>1. /\ recovery' = [recovery EXCEPT ![f] = Put("recording")] /\ recovery[f].step = "none"
            /\ health' = "degraded" /\ outdated' = outdated /\ alerted' = alerted /\ cleared' = cleared
        BY <2>2, <2>3 DEF HandleFailure
      <3>2. PICK z \in Sequences : z = Put("recording") /\ z.step = "recording"
        BY <2>2
      <3> QED
        BY <1>1, <2>1, <3>1, <3>2, SequenceMoves DEF SequenceStands
    <2>4. CASE Recorded(f) /\ MoreRetries(recovery[f].made)
      <3>1. /\ recovery' = [recovery EXCEPT ![f] = Put("sleeping")] /\ recovery[f].step = "recording"
            /\ health' = health /\ outdated' = outdated /\ alerted' = alerted /\ cleared' = cleared
            /\ recovery[f].made < maxAttempts
        BY <2>2, <2>4 DEF Recorded, MoreRetries
      <3>2. PICK z \in Sequences : z = Put("sleeping") /\ z.step = "sleeping" /\ z.made = recovery[f].made
        BY <2>2
      <3> QED
        BY <1>1, <2>1, <3>1, <3>2, SequenceMoves DEF SequenceStands
    <2>5. CASE Recorded(f) /\ ~MoreRetries(recovery[f].made)
      <3>1. /\ recovery' = [recovery EXCEPT ![f] = Put("alerting")] /\ recovery[f].step = "recording"
            /\ health' = "failed" /\ outdated' = outdated /\ alerted' = alerted /\ cleared' = cleared
        BY <2>2, <2>5 DEF Recorded
      <3>2. PICK z \in Sequences : z = Put("alerting") /\ z.step = "alerting" /\ z.made = recovery[f].made
        BY <2>2
      <3>3. z.made = maxAttempts
        BY <2>1, <2>5, <3>2 DEF MoreRetries, maxAttempts, Sequences
      <3> QED
        BY <1>1, <2>1, <3>1, <3>2, <3>3, SequenceMoves DEF SequenceStands
    <2>6. CASE WakeUp(f)
      <3>1. /\ recovery' = [recovery EXCEPT ![f] = Put("retrying")] /\ recovery[f].step = "sleeping"
            /\ health' = health /\ outdated' = outdated /\ alerted' = alerted /\ cleared' = cleared
        BY <2>2, <2>6 DEF WakeUp
      <3>2. PICK z \in Sequences : z = Put("retrying") /\ z.step = "retrying" /\ z.made = recovery[f].made
        BY <2>2
      <3> QED
        BY <1>1, <2>1, <3>1, <3>2, SequenceMoves DEF SequenceStands
    <2>7. CASE RetrySucceeds(f)
      <3>1. /\ recovery' = [recovery EXCEPT ![f] = Put("over")] /\ recovery[f].step = "retrying"
            /\ health' = "healthy" /\ outdated' = {g \in Failures : recovery[g].step # "none"}
            /\ alerted' = alerted /\ cleared' = cleared
        BY <2>2, <2>7 DEF RetrySucceeds, Healthy
      <3>2. PICK z \in Sequences : z = Put("over") /\ z.step = "over" /\ z.made = recovery[f].made
        BY <2>2
      <3>3. \A g \in Failures : recovery'[g].step # "none" => g \in outdated'
        BY <1>1, <3>1
      <3> QED
        BY <1>1, <2>1, <3>1, <3>2, <3>3, SequenceMoves DEF SequenceStands
    <2>8. CASE RetryFails(f)
      <3>1. PICK z : z = [step |-> "recording", made |-> recovery[f].made + 1]
        OBVIOUS
      <3>2. /\ recovery' = [recovery EXCEPT ![f] = z] /\ recovery[f].step = "retrying"
            /\ health' = health /\ outdated' = outdated /\ alerted' = alerted /\ cleared' = cleared
        BY <1>1, <2>8, <3>1 DEF RetryFails
      <3>3. z \in Sequences /\ z.step = "recording"
        BY <2>1, <3>1, <3>2 DEF SequenceStands, Sequences, maxAttempts
      <3> QED
        BY <1>1, <2>1, <3>2, <3>3, SequenceMoves DEF SequenceStands
    <2>9. CASE AlertOwner(f)
      <3>1. /\ recovery' = [recovery EXCEPT ![f] = Put("clearing")] /\ recovery[f].step = "alerting"
            /\ alerted' = alerted \cup {f}
            /\ health' = health /\ outdated' = outdated /\ cleared' = cleared
        BY <2>2, <2>9 DEF AlertOwner
      <3>2. PICK z \in Sequences : z = Put("clearing") /\ z.step = "clearing" /\ z.made = recovery[f].made
        BY <2>2
      <3> QED
        BY <1>1, <2>1, <3>1, <3>2, SequenceMoves DEF SequenceStands
    <2>10. CASE EnterRecoveryMode(f)
      <3>1. /\ recovery' = [recovery EXCEPT ![f] = Put("over")] /\ recovery[f].step = "clearing"
            /\ cleared' \in BOOLEAN
            /\ health' = health /\ outdated' = outdated /\ alerted' = alerted
        BY <1>1, <2>2, <2>10 DEF EnterRecoveryMode
      <3>2. PICK z \in Sequences : z = Put("over") /\ z.step = "over" /\ z.made = recovery[f].made
        BY <2>2
      <3> QED
        BY <1>1, <2>1, <3>1, <3>2, SequenceMoves DEF SequenceStands
    <2> QED
      BY <1>4, <2>3, <2>4, <2>5, <2>6, <2>7, <2>8, <2>9, <2>10 DEF RecoveryStep
  <1> QED
    BY <1>2, <1>3, <1>4 DEF RecoveryNext

-----------------------------------------------------------------------------
(***************************************************************************)
(* The freeze monitor (issuerFreezeMonitor.ts).  Until an answer has lifted *)
(* the flag of the freeze, it is up while one check responds, which keeps   *)
(* the others from it.                                                      *)
(***************************************************************************)

FreezeInv ==
  /\ FreezeTypeOK /\ DrainedIsQuiet
  /\ drained => ~accepting
  /\ ~lifted => /\ Responding # {} => freezeActive
                /\ \A c, d \in Responding : c = d

LEMMA FreezeInitInv == FreezeInit => FreezeInv
  <1> SUFFICES ASSUME FreezeInit PROVE FreezeInv
    OBVIOUS
  <1>1. FreezeTypeOK => FreezeInv
    BY DEF FreezeInit, FreezeInv, DrainedIsQuiet, Responding, InFlight
  <1>2. MaxFlips \in Nat /\ MaxFreezeMisses \in Nat
    BY MonitorAssumption
  <1>3. 0 \in 0 .. MaxFlips /\ 0 \in 0 .. MaxFreezeMisses
    BY <1>2
  <1>4. FreezeTypeOK
    BY <1>3 DEF FreezeInit, FreezeTypeOK
  <1> QED
    BY <1>1, <1>4

\* A check moves.
LEMMA CheckMoves ==
  ASSUME FreezeInv, NEW c \in FlagChecks, FreezeTypeOK', NEW to,
         flagCheck' = [flagCheck EXCEPT ![c] = to],
         accepting' = accepting, drained' = drained,
         flagCheck[c] = "idle" => accepting,
         lifted => lifted',
         ~lifted' => /\ freezeActive => freezeActive'
                     /\ to \in {"pausing", "alerting"} =>
                          \/ flagCheck[c] \in {"pausing", "alerting"}
                          \/ ~freezeActive /\ freezeActive'
  PROVE  FreezeInv'
  <1>1. \A d \in FlagChecks : flagCheck'[d] = IF d = c THEN to ELSE flagCheck[d]
    BY DEF FreezeInv, FreezeTypeOK
  <1>2. DrainedIsQuiet'
    BY <1>1 DEF FreezeInv, DrainedIsQuiet, InFlight
  <1>3. ASSUME ~lifted'
        PROVE  (Responding' # {} => freezeActive') /\ \A d, e \in Responding' : d = e
    <2>1. (Responding # {} => freezeActive) /\ \A d, e \in Responding : d = e
      BY <1>3 DEF FreezeInv
    <2>2. \A d \in Responding' : d \in Responding \/ (d = c /\ to \in {"pausing", "alerting"})
      BY <1>1 DEF Responding
    <2>3. CASE to \in {"pausing", "alerting"} /\ flagCheck[c] \notin {"pausing", "alerting"}
      <3>1. Responding = {} /\ freezeActive'
        BY <1>3, <2>1, <2>3
      <3> QED
        BY <2>2, <3>1
    <2>4. CASE ~(to \in {"pausing", "alerting"} /\ flagCheck[c] \notin {"pausing", "alerting"})
      <3>1. \A d \in Responding' : d \in Responding
        BY <2>2, <2>4 DEF Responding
      <3> QED
        BY <1>3, <2>1, <3>1
    <2> QED
      BY <2>3, <2>4
  <1> QED
    BY <1>2, <1>3 DEF FreezeInv

LEMMA FreezeStepInv ==
  ASSUME FreezeInv, [FreezeNext]_freezeVars
  PROVE  FreezeInv'
  <1>1. CASE UNCHANGED freezeVars
    BY <1>1 DEF freezeVars, FreezeInv, FreezeTypeOK, DrainedIsQuiet, Responding, InFlight
  <1>2. CASE IssuerFlips
    <2>1. flips' \in 0 .. MaxFlips
      BY <1>2, MonitorAssumption DEF IssuerFlips, FreezeInv, FreezeTypeOK
    <2>2. FreezeTypeOK'
      BY <1>2, <2>1 DEF IssuerFlips, work, FreezeInv, FreezeTypeOK
    <2> QED
      BY <1>2, <2>2 DEF IssuerFlips, work, FreezeInv, DrainedIsQuiet, Responding, InFlight
  <1>3. CASE StopAccepting
    <2>1. FreezeTypeOK'
      BY <1>3 DEF StopAccepting, FreezeInv, FreezeTypeOK
    <2> QED
      BY <1>3, <2>1 DEF StopAccepting, FreezeInv, DrainedIsQuiet, Responding, InFlight
  <1>4. CASE Drain
    <2>1. FreezeTypeOK'
      BY <1>4 DEF Drain, FreezeInv, FreezeTypeOK
    <2> QED
      BY <1>4, <2>1 DEF Drain, DrainReturns, FreezeInv, DrainedIsQuiet, Responding, InFlight
  <1>5. ASSUME NEW c \in FlagChecks, CheckStep(c) \/ AskFails(c) \/ PauseRefused(c) \/ PauseThrows(c)
        PROVE  FreezeInv'
    <2>1. /\ flagCheck \in [FlagChecks -> {"idle", "asking", "pausing", "alerting"}]
          /\ flags \in [FlagChecks -> BOOLEAN] /\ frozen \in BOOLEAN /\ freezeActive \in BOOLEAN
          /\ lifted \in BOOLEAN /\ response \in {"none", "thrown", "alerted"}
          /\ freezeMisses \in 0 .. MaxFreezeMisses /\ MaxFreezeMisses \in Nat
      BY MonitorAssumption DEF FreezeInv, FreezeTypeOK
    <2>2. \E to \in {"idle", "asking", "pausing", "alerting"} :
             flagCheck' = [flagCheck EXCEPT ![c] = to]
      BY <1>5 DEF CheckStep, BeginCheck, AskFails, DetectFreeze, NothingNew, PauseVault, PauseRefused,
                  PauseThrows, DispatchAlerts, CheckGoes
    <2>3. freezeMisses' \in 0 .. MaxFreezeMisses
      BY <1>5, <2>1 DEF CheckStep, BeginCheck, AskFails, DetectFreeze, NothingNew, PauseVault,
                        PauseRefused, PauseThrows, DispatchAlerts, Miss
    <2>4. flags' \in [FlagChecks -> BOOLEAN] /\ response' \in {"none", "thrown", "alerted"}
      BY <1>5, <2>1 DEF CheckStep, BeginCheck, AskFails, DetectFreeze, NothingNew, PauseVault,
                        PauseRefused, PauseThrows, DispatchAlerts
    <2>5. freezeActive' \in BOOLEAN /\ lifted' \in BOOLEAN /\ vaultPaused' \in BOOLEAN
      BY <1>5, <2>1 DEF CheckStep, BeginCheck, AskFails, DetectFreeze, NothingNew, PauseVault,
                        PauseRefused, PauseThrows, DispatchAlerts, FreezeInv, FreezeTypeOK
    <2>6. frozen' = frozen /\ accepting' = accepting /\ drained' = drained /\ flips' = flips
      BY <1>5 DEF CheckStep, BeginCheck, AskFails, DetectFreeze, NothingNew, PauseVault,
                  PauseRefused, PauseThrows, DispatchAlerts, work
    <2>7. FreezeTypeOK'
      <3>1. flagCheck' \in [FlagChecks -> {"idle", "asking", "pausing", "alerting"}]
        BY <2>1, <2>2
      <3> QED
        BY <2>3, <2>4, <2>5, <2>6, <3>1 DEF FreezeInv, FreezeTypeOK
    <2>8. CASE BeginCheck(c)
      BY <2>6, <2>7, <2>8, CheckMoves DEF BeginCheck, CheckGoes
    <2>9. CASE AskFails(c)
      BY <2>6, <2>7, <2>9, CheckMoves DEF AskFails, CheckGoes
    <2>10. CASE DetectFreeze(c)
      BY <2>6, <2>7, <2>10, CheckMoves DEF DetectFreeze, Detects, CheckGoes
    <2>11. CASE NothingNew(c)
      <3>1. /\ flagCheck' = [flagCheck EXCEPT ![c] = "idle"] /\ flagCheck[c] = "asking"
            /\ lifted => lifted'
            /\ ~lifted' => (freezeActive => freezeActive')
        BY <2>11 DEF NothingNew, CheckGoes
      <3> QED
        BY <2>6, <2>7, <3>1, CheckMoves
    <2>12. CASE PauseVault(c) \/ PauseRefused(c)
      BY <2>6, <2>7, <2>12, CheckMoves DEF PauseVault, PauseRefused, CheckGoes
    <2>13. CASE PauseThrows(c) \/ DispatchAlerts(c)
      BY <2>6, <2>7, <2>13, CheckMoves DEF PauseThrows, DispatchAlerts, CheckGoes
    <2> QED
      BY <1>5, <2>8, <2>9, <2>10, <2>11, <2>12, <2>13 DEF CheckStep
  <1> QED
    BY <1>1, <1>2, <1>3, <1>4, <1>5 DEF FreezeNext

LEMMA OneResponds == FreezeInv => OneResponse
  <1> SUFFICES ASSUME FreezeInv, ~lifted, Cardinality(Responding) > 1 PROVE FALSE
    BY DEF OneResponse, FreezeInv, FreezeTypeOK
  <1>1. \A c, d \in Responding : c = d
    BY DEF FreezeInv
  <1>2. CASE Responding = {}
    BY <1>2, FS_EmptySet
  <1>3. ASSUME NEW c \in Responding PROVE FALSE
    <2>1. Responding = {c}
      BY <1>1
    <2> QED
      BY <2>1, FS_Singleton
  <1> QED
    BY <1>2, <1>3

-----------------------------------------------------------------------------
(***************************************************************************)
(* The harvest job (harvestJob.ts).  An alert of the streak is remembered    *)
(* until the streak ends.                                                   *)
(***************************************************************************)

HarvestInv == HarvestTypeOK /\ alerts <= 1 /\ (alerts > 0 => alertSent)

LEMMA HarvestInitInv == HarvestInit => HarvestInv
  <1> SUFFICES ASSUME HarvestInit PROVE HarvestInv
    OBVIOUS
  <1>1. 0 \in 0 .. MaxYield /\ principal \in Nat
    BY HarvestAssumption DEF HarvestInit
  <1>2. harvest \in [Harvests -> {"idle", "tvl", "executing", "verifying"}]
    BY DEF HarvestInit
  <1>3. accrued = 0 /\ consecutiveFailures = 0 /\ alertSent = FALSE /\ alerts = 0
    BY DEF HarvestInit
  <1>4. consecutiveFailures \in Nat /\ alerts \in Nat /\ alerts <= 1
    BY <1>3
  <1>5. alertSent \in BOOLEAN
    BY <1>3, Zenon
  <1>6. ~(alerts > 0)
    BY <1>3
  <1> QED
    BY <1>1, <1>2, <1>3, <1>4, <1>5, <1>6 DEF HarvestInv, HarvestTypeOK

LEMMA HarvestStepInv ==
  ASSUME HarvestInv, [HarvestNext]_harvestVars
  PROVE  HarvestInv'
  <1>1. /\ principal \in Nat /\ accrued \in 0 .. MaxYield /\ MaxYield \in Nat
        /\ harvest \in [Harvests -> {"idle", "tvl", "executing", "verifying"}]
        /\ consecutiveFailures \in Nat /\ alertSent \in BOOLEAN /\ alerts \in Nat
        /\ alerts <= 1 /\ (alerts > 0 => alertSent)
    BY HarvestAssumption DEF HarvestInv, HarvestTypeOK
  <1>2. CASE UNCHANGED harvestVars
    BY <1>2 DEF harvestVars, HarvestInv, HarvestTypeOK
  <1>3. CASE YieldAccrues
    <2>1. accrued' \in 0 .. MaxYield
      BY <1>1, <1>3 DEF YieldAccrues
    <2> QED
      BY <1>1, <1>3, <2>1 DEF YieldAccrues, streakVars, HarvestInv, HarvestTypeOK
  <1>4. ASSUME NEW h \in Harvests, HarvestStep(h) PROVE HarvestInv'
    <2>1. harvest' \in [Harvests -> {"idle", "tvl", "executing", "verifying"}]
      BY <1>1, <1>4 DEF HarvestStep, BeginHarvest, TvlFails, SkipDust, SubmitHarvest, HarvestLands,
                        HarvestFails, EndHarvest, Goes
    <2>2. principal' \in Nat /\ accrued' \in 0 .. MaxYield
      <3>1. 0 \in 0 .. MaxYield
        BY <1>1
      <3> QED
        BY <1>1, <1>4, <3>1 DEF HarvestStep, BeginHarvest, TvlFails, SkipDust, SubmitHarvest,
                                HarvestLands, HarvestFails, EndHarvest, money
    <2>3. UNCHANGED streakVars \/ Success \/ RecordFailure
      BY <1>4 DEF HarvestStep, BeginHarvest, TvlFails, SkipDust, SubmitHarvest, HarvestLands,
                  HarvestFails, EndHarvest, AfterFailedHarvest
    <2>4. CASE UNCHANGED streakVars
      BY <1>1, <2>1, <2>2, <2>4 DEF streakVars, HarvestInv, HarvestTypeOK
    <2>5. CASE Success
      <3>1. consecutiveFailures' = 0 /\ alertSent' = FALSE /\ alerts' = 0
        BY <2>5 DEF Success
      <3>2. consecutiveFailures' \in Nat /\ alerts' \in Nat /\ alerts' <= 1
        BY <3>1
      <3>3. alertSent' \in BOOLEAN
        BY <3>1, Zenon
      <3>4. ~(alerts' > 0)
        BY <3>1
      <3> QED
        BY <2>1, <2>2, <3>2, <3>3, <3>4 DEF HarvestInv, HarvestTypeOK
    <2>6. CASE RecordFailure
      <3>1. consecutiveFailures' \in Nat
        BY <1>1, <2>6 DEF RecordFailure, Counted
      <3>2. CASE Alerts(consecutiveFailures')
        <4>1. ~alertSent /\ alertSent' \in BOOLEAN /\ alertSent'
          BY <2>6, <3>2, Zenon DEF RecordFailure, Alerts
        <4>2. alerts = 0
          BY <1>1, <4>1
        <4>3. alerts' = 1
          BY <2>6, <3>2, <4>2 DEF RecordFailure
        <4> QED
          BY <4>3, <2>1, <2>2, <3>1, <4>1 DEF HarvestInv, HarvestTypeOK
      <3>3. CASE ~Alerts(consecutiveFailures')
        <4>1. alerts' = alerts /\ alertSent' = alertSent
          BY <1>1, <2>6, <3>3 DEF RecordFailure
        <4> QED
          BY <1>1, <2>1, <2>2, <3>1, <4>1 DEF HarvestInv, HarvestTypeOK
      <3> QED
        BY <3>2, <3>3
    <2> QED
      BY <2>3, <2>4, <2>5, <2>6
  <1> QED
    BY <1>2, <1>3, <1>4 DEF HarvestNext

-----------------------------------------------------------------------------
(***************************************************************************)
(* The health endpoints (health.ts).  The clock of an outage never shows    *)
(* more than the time without a good result, and an alert is remembered as  *)
(* long as it counts.                                                       *)
(***************************************************************************)

OutageStands(d) ==
  /\ alertsSince[d] <= 1
  /\ alertsSince[d] > 0 => d \in alertedDeps /\ badFor[d] = alertWindow
  /\ failingFor[d] <= badFor[d] + 1

HealthInv == HealthTypeOK /\ \A d \in Dependencies : OutageStands(d)

LEMMA HealthInitInv == HealthInit => HealthInv
  <1> SUFFICES ASSUME HealthInit PROVE HealthInv
    OBVIOUS
  <1>1. alertWindow \in Nat /\ 0 \in 0 .. alertWindow /\ 0 \in 0 .. alertWindow + 1 /\ 0 \in 0 .. 2
    BY HealthAssumption
  <1>2. IdleProbe \in [Dependencies -> {"idle", "waiting", "ok", "error", "not_configured"}]
    BY DEF IdleProbe
  <1>3. HealthTypeOK
    <2>1. /\ failingFor \in [Dependencies -> 0 .. alertWindow + 1]
          /\ alertsSince \in [Dependencies -> 0 .. 2]
          /\ badFor \in [Dependencies -> 0 .. alertWindow]
      BY <1>1 DEF HealthInit
    <2> QED
      BY <1>2, <2>1 DEF HealthInit, HealthTypeOK
  <1>4. ASSUME NEW d \in Dependencies PROVE OutageStands(d)
    <2>1. alertsSince[d] = 0 /\ badFor[d] = 0 /\ failingFor[d] = 0
      BY DEF HealthInit
    <2> QED
      BY <2>1 DEF OutageStands
  <1> QED
    BY <1>3, <1>4 DEF HealthInv

\* One more tick of the clock.
LEMMA ClockTickInv ==
  ASSUME HealthInv, ClockTicks
  PROVE  HealthInv'
  <1>1. /\ failingFor \in [Dependencies -> 0 .. alertWindow + 1]
        /\ badFor \in [Dependencies -> 0 .. alertWindow]
        /\ alertsSince \in [Dependencies -> 0 .. 2]
        /\ alertWindow \in Nat \ {0}
    BY HealthAssumption DEF HealthInv, HealthTypeOK
  <1>2. ASSUME NEW d \in Dependencies
        PROVE  /\ failingFor'[d] \in 0 .. alertWindow + 1 /\ badFor'[d] \in 0 .. alertWindow
               /\ OutageStands(d)'
    <2>1. /\ failingFor'[d] = IF failingFor[d] = 0 THEN 0 ELSE Smaller(failingFor[d] + 1, alertWindow + 1)
          /\ badFor'[d] = Smaller(badFor[d] + 1, alertWindow)
          /\ alertsSince' = alertsSince /\ alertedDeps' = alertedDeps
      BY DEF ClockTicks
    <2>2. /\ failingFor[d] \in 0 .. alertWindow + 1 /\ badFor[d] \in 0 .. alertWindow
          /\ alertsSince[d] \in 0 .. 2 /\ OutageStands(d)
      BY <1>1 DEF HealthInv
    <2>3. failingFor'[d] \in 0 .. alertWindow + 1 /\ badFor'[d] \in 0 .. alertWindow
      BY <1>1, <2>1, <2>2 DEF Smaller
    <2>4. failingFor'[d] <= badFor'[d] + 1
      BY <1>1, <2>1, <2>2 DEF Smaller, OutageStands
    <2>5. badFor[d] = alertWindow => badFor'[d] = alertWindow
      BY <1>1, <2>1 DEF Smaller
    <2> QED
      BY <2>1, <2>2, <2>3, <2>4, <2>5 DEF OutageStands
  <1>3. /\ failingFor' = [d \in Dependencies |-> failingFor'[d]]
        /\ badFor' = [d \in Dependencies |-> badFor'[d]]
    BY DEF ClockTicks
  <1>4. /\ failingFor' \in [Dependencies -> 0 .. alertWindow + 1]
        /\ badFor' \in [Dependencies -> 0 .. alertWindow]
    BY <1>2, <1>3
  <1>5. HealthTypeOK'
    BY <1>4 DEF ClockTicks, HealthInv, HealthTypeOK
  <1> QED
    BY <1>2, <1>5 DEF HealthInv

\* One result of every dependency recorded.
LEMMA RecordsInv ==
  ASSUME HealthInv, NEW p \in Probes, Records(p)
  PROVE  HealthInv'
  <1>1. /\ failingFor \in [Dependencies -> 0 .. alertWindow + 1]
        /\ badFor \in [Dependencies -> 0 .. alertWindow]
        /\ alertsSince \in [Dependencies -> 0 .. 2]
        /\ alertWindow \in Nat \ {0}
        /\ probe \in [Probes -> [Dependencies -> {"idle", "waiting", "ok", "error", "not_configured"}]]
    BY HealthAssumption DEF HealthInv, HealthTypeOK
  <1>2. ASSUME NEW d \in Dependencies
        PROVE  /\ failingFor'[d] \in 0 .. alertWindow + 1 /\ badFor'[d] \in 0 .. alertWindow
               /\ alertsSince'[d] \in 0 .. 2 /\ OutageStands(d)'
    <2>1. PICK ok \in BOOLEAN :
            /\ failingFor'[d] = FailureSince(d, ok)
            /\ d \in alertedDeps' <=> ~ok /\ (d \in alertedDeps \/ HealthAlerts(d, ok))
            /\ alertsSince'[d] = IF ok THEN 0
                                 ELSE IF HealthAlerts(d, ok) THEN Smaller(alertsSince[d] + 1, 2)
                                 ELSE alertsSince[d]
            /\ badFor'[d] = IF ok THEN 0 ELSE badFor[d]
      <3>1. PICK b : b = IsHealthy(d, probe[p][d])
        OBVIOUS
      <3>2. b \in BOOLEAN
        BY <3>1 DEF IsHealthy
      <3> QED
        BY <3>1, <3>2 DEF Records
    <2>2. /\ failingFor[d] \in 0 .. alertWindow + 1 /\ badFor[d] \in 0 .. alertWindow
          /\ alertsSince[d] \in 0 .. 2 /\ OutageStands(d)
      BY <1>1 DEF HealthInv
    <2>3. CASE ok
      <3>1. failingFor'[d] = 0 /\ alertsSince'[d] = 0 /\ badFor'[d] = 0
        BY <2>1, <2>3 DEF FailureSince
      <3> QED
        BY <1>1, <3>1 DEF OutageStands
    <2>4. CASE ~ok
      <3>1. failingFor'[d] \in 0 .. alertWindow + 1 /\ failingFor'[d] <= badFor'[d] + 1
            /\ badFor'[d] = badFor[d]
        BY <1>1, <2>1, <2>2, <2>4 DEF FailureSince, OutageStands
      <3>2. CASE HealthAlerts(d, ok)
        <4>1. failingFor[d] = alertWindow + 1 /\ d \notin alertedDeps /\ d \in alertedDeps'
          BY <2>1, <2>4, <3>2 DEF HealthAlerts
        <4>2. alertsSince[d] = 0 /\ badFor[d] = alertWindow
          BY <1>1, <2>2, <4>1 DEF OutageStands
        <4>3. alertsSince'[d] = 1
          BY <2>1, <2>4, <3>2, <4>2 DEF Smaller
        <4> QED
          BY <1>1, <2>2, <3>1, <4>1, <4>2, <4>3 DEF OutageStands
      <3>3. CASE ~HealthAlerts(d, ok)
        <4>1. alertsSince'[d] = alertsSince[d] /\ (d \in alertedDeps => d \in alertedDeps')
          BY <2>1, <2>4, <3>3
        <4> QED
          BY <2>2, <3>1, <4>1 DEF OutageStands
      <3> QED
        BY <3>2, <3>3
    <2> QED
      BY <2>3, <2>4
  <1>3. /\ failingFor' = [d \in Dependencies |-> failingFor'[d]]
        /\ alertsSince' = [d \in Dependencies |-> alertsSince'[d]]
        /\ badFor' = [d \in Dependencies |-> badFor'[d]]
    BY DEF Records
  <1>4. /\ failingFor' \in [Dependencies -> 0 .. alertWindow + 1]
        /\ alertsSince' \in [Dependencies -> 0 .. 2]
        /\ badFor' \in [Dependencies -> 0 .. alertWindow]
    BY <1>2, <1>3
  <1>5. probe' \in [Probes -> [Dependencies -> {"idle", "waiting", "ok", "error", "not_configured"}]]
    BY <1>1 DEF Records, IdleProbe
  <1>6. up' = up /\ alertedDeps' \subseteq Dependencies
    BY DEF Records
  <1>7. HealthTypeOK'
    BY <1>4, <1>5, <1>6 DEF HealthInv, HealthTypeOK
  <1> QED
    BY <1>2, <1>7 DEF HealthInv

LEMMA HealthStepInv ==
  ASSUME HealthInv, [HealthNext]_healthVars
  PROVE  HealthInv'
  <1> DEFINE Checked == [Dependencies -> {"idle", "waiting", "ok", "error", "not_configured"}]
  <1>1. probe \in [Probes -> Checked] /\ up \subseteq ConfiguredDeps
    BY DEF HealthInv, HealthTypeOK
  <1>2. ASSUME UNCHANGED records, probe' \in [Probes -> Checked], up' \subseteq ConfiguredDeps
        PROVE  HealthInv'
    BY <1>2 DEF records, HealthInv, HealthTypeOK, OutageStands
  <1>3. CASE UNCHANGED healthVars
    BY <1>1, <1>2, <1>3 DEF healthVars, records
  <1>4. CASE ClockTicks
    BY <1>4, ClockTickInv
  <1>5. ASSUME NEW d \in ConfiguredDeps, Changes(d) PROVE HealthInv'
    BY <1>1, <1>2, <1>5 DEF Changes
  <1>6. ASSUME NEW p \in Probes, Request(p) \/ Answers(p) PROVE HealthInv'
    <2>1. IdleProbe \in Checked /\ Waiting \in Checked
      BY DEF IdleProbe, Waiting
    <2>2. probe' \in [Probes -> Checked]
      BY <1>1, <1>6, <2>1 DEF Request, Answers
    <2> QED
      BY <1>1, <1>2, <1>6, <2>2 DEF Request, Answers
  <1>7. ASSUME NEW p \in Probes, NEW d \in Dependencies, CheckReturns(p, d) PROVE HealthInv'
    <2>1. CheckOf(d) \in {"idle", "waiting", "ok", "error", "not_configured"}
      BY DEF CheckOf
    <2>2. PICK z : z = [probe[p] EXCEPT ![d] = CheckOf(d)]
      OBVIOUS
    <2>3. z \in Checked
      BY <1>1, <2>1, <2>2
    <2>4. probe' = [probe EXCEPT ![p] = z]
      BY <1>7, <2>2 DEF CheckReturns
    <2>5. probe' \in [Probes -> Checked]
      BY <1>1, <2>3, <2>4
    <2> QED
      BY <1>1, <1>2, <1>7, <2>5 DEF CheckReturns
  <1>8. ASSUME NEW p \in Probes, Records(p) PROVE HealthInv'
    BY <1>8, RecordsInv
  <1> QED
    BY <1>3, <1>4, <1>5, <1>6, <1>7, <1>8 DEF HealthNext

(***************************************************************************)
(* Each cause is answered once, for any number of failures, runs, checks    *)
(* and requests that overlap: the theorem about rebalanceRecovery.ts,       *)
(* harvestJob.ts, issuerFreezeMonitor.ts and health.ts.                     *)
(***************************************************************************)
THEOREM AnswersMatch ==
  RecoverySpec /\ HarvestSpec /\ FreezeSpec /\ HealthSpec => []AnswersMatchCauses
  <1>1. RebalanceInv /\ HarvestInv /\ FreezeInv /\ HealthInv => AnswersMatchCauses
    <2> SUFFICES ASSUME RebalanceInv, HarvestInv, FreezeInv, HealthInv PROVE AnswersMatchCauses
      OBVIOUS
    <2>1. OneAlertPerOutage
      BY DEF HealthInv, OutageStands, OneAlertPerOutage
    <2> QED
      BY <2>1, OneResponds DEF AnswersMatchCauses, RebalanceInv, HarvestInv, FreezeInv, HealthInv,
                               OneAlertPerStreak
  <1>2. RecoverySpec => []RebalanceInv
    BY RebalanceInitInv, RebalanceStepInv, PTL DEF RecoverySpec
  <1>3. HarvestSpec => []HarvestInv
    BY HarvestInitInv, HarvestStepInv, PTL DEF HarvestSpec
  <1>4. FreezeSpec => []FreezeInv
    BY FreezeInitInv, FreezeStepInv, PTL DEF FreezeSpec
  <1>5. HealthSpec => []HealthInv
    BY HealthInitInv, HealthStepInv, PTL DEF HealthSpec
  <1> QED
    BY <1>1, <1>2, <1>3, <1>4, <1>5, PTL

-----------------------------------------------------------------------------
(* The queue of the scheduler (scheduler.ts, enqueue): a job has one place  *)
(* in a sorted queue, and the queue stays sorted with it.                   *)

LEMMA JobPriority ==
  ASSUME NEW j \in RebalanceJob
  PROVE  PRIORITY[j.trigger] \in 0 .. 3 /\ j.later \in BOOLEAN
  <1>1. j.trigger \in {"utilization_spike", "tvl_change", "manual", "scheduled"} /\ j.later \in BOOLEAN
    BY SchedulerAssumption DEF RebalanceJob, AllTriggers
  <1> QED
    BY <1>1 DEF PRIORITY

LEMMA SamePriority ==
  ASSUME NEW i \in RebalanceJob, NEW j \in RebalanceJob, PRIORITY[i.trigger] = PRIORITY[j.trigger]
  PROVE  i.trigger = j.trigger
  <1>1. \A k \in RebalanceJob : k.trigger \in {"utilization_spike", "tvl_change", "manual", "scheduled"}
    BY SchedulerAssumption DEF RebalanceJob, AllTriggers
  <1> QED
    BY <1>1 DEF PRIORITY

LEMMA JobsOrdered ==
  ASSUME NEW a \in RebalanceJob, NEW b \in RebalanceJob, NEW j \in RebalanceJob
  PROVE  /\ SortsBefore(a, b) => ~SortsBefore(b, a)
         /\ SortsBefore(j, a) /\ ~SortsBefore(b, a) => SortsBefore(j, b)
  <1>1. PICK x, y, z : x = PRIORITY[a.trigger] /\ y = PRIORITY[b.trigger] /\ z = PRIORITY[j.trigger]
    OBVIOUS
  <1>2. x \in Int /\ y \in Int /\ z \in Int
    BY <1>1, JobPriority
  <1> QED
    BY <1>1, <1>2, JobPriority DEF SortsBefore


\* The queue is sorted.
Sorted(q) == \A k, l \in 1 .. Len(q) : k < l => ~SortsBefore(q[l], q[k])
HasScheduled(q) == \E k \in 1 .. Len(q) : q[k].trigger = "scheduled"

\* In a sorted queue there is a place for every job.
LEMMA PlaceExists ==
  ASSUME NEW q \in Seq(RebalanceJob), NEW j \in RebalanceJob, Sorted(q)
  PROVE  \E n \in 0 .. Len(q) : n \in Places(q, j)
  <1> DEFINE After == {k \in 1 .. Len(q) : SortsBefore(j, q[k])}
  <1>0. Len(q) \in Nat /\ \A k \in 1 .. Len(q) : q[k] \in RebalanceJob
    OBVIOUS
  <1>1. CASE After = {}
    <2>1. Len(q) \in 0 .. Len(q) /\ \A k \in 1 .. Len(q) : ~(k > Len(q)) /\ ~SortsBefore(j, q[k])
      BY <1>0, <1>1
    <2> QED
      BY <2>1 DEF Places
  <1>2. CASE After # {}
    <2>1. PICK m \in After : \A k \in After : m <= k
      <3>1. After \subseteq Nat
        BY <1>0
      <3>2. PICK m \in After : \A k \in After : <<k, m>> \notin OpToRel(<, Nat)
        BY <1>2, <3>1, WFMin, NatLessThanWellFounded
      <3>3. \A k \in After : ~(k < m)
        BY <3>1, <3>2 DEF OpToRel
      <3> QED
        BY <3>1, <3>3
    <2>2. m \in 1 .. Len(q) /\ m - 1 \in 0 .. Len(q) /\ SortsBefore(j, q[m])
      BY <1>0
    <2>3. ASSUME NEW k \in 1 .. Len(q) PROVE (k > m - 1) <=> SortsBefore(j, q[k])
      <3>1. CASE k < m
        BY <2>1, <2>2, <3>1
      <3>2. CASE k = m
        BY <2>2, <3>2
      <3>3. CASE k > m
        <4>1. ~SortsBefore(q[k], q[m])
          BY <2>2, <3>3 DEF Sorted
        <4>2. SortsBefore(j, q[k])
          BY <1>0, <2>2, <4>1, JobsOrdered
        <4> QED
          BY <2>2, <3>3, <4>2
      <3> QED
        BY <2>2, <3>1, <3>2, <3>3
    <2> QED
      BY <2>2, <2>3 DEF Places
  <1> QED
    BY <1>1, <1>2

\* Pushing a job keeps the queue sorted, and everything in it.
LEMMA EnqueuedSorted ==
  ASSUME NEW q \in Seq(RebalanceJob), NEW j \in RebalanceJob, Sorted(q)
  PROVE  /\ Enqueued(q, j) \in Seq(RebalanceJob) /\ Sorted(Enqueued(q, j))
         /\ Len(Enqueued(q, j)) = Len(q) + 1
         /\ HasScheduled(Enqueued(q, j)) => HasScheduled(q) \/ j.trigger = "scheduled"
  <1>1. PICK n : n = CHOOSE m \in Places(q, j) : TRUE
    OBVIOUS
  <1>2. n \in Places(q, j)
    BY <1>1, PlaceExists
  <1>3. n \in 0 .. Len(q) /\ \A k \in 1 .. Len(q) : (k > n) <=> SortsBefore(j, q[k])
    BY <1>2 DEF Places
  <1>4. PICK e : e = SubSeq(q, 1, n) \o <<j>> \o SubSeq(q, n + 1, Len(q))
    OBVIOUS
  <1>5. Enqueued(q, j) = e
    BY <1>1, <1>4 DEF Enqueued
  <1>6. Len(q) \in Nat /\ \A k \in 1 .. Len(q) : q[k] \in RebalanceJob
    OBVIOUS
  <1>7. PICK a, b : a = SubSeq(q, 1, n) /\ b = SubSeq(q, n + 1, Len(q))
    OBVIOUS
  <1>8. /\ a \in Seq(RebalanceJob) /\ Len(a) = n /\ \A k \in 1 .. n : a[k] = q[k]
        /\ b \in Seq(RebalanceJob) /\ Len(b) = Len(q) - n
        /\ \A k \in 1 .. Len(q) - n : b[k] = q[n + k]
    <2>1. \A k \in 1 .. n : k \in 1 .. Len(q)
      BY <1>3, <1>6
    <2>2. a \in Seq(RebalanceJob) /\ Len(a) = n /\ \A k \in 1 .. n : a[k] = q[k]
      BY <1>3, <1>6, <1>7, <2>1, SubSeqProperties
    <2>3. \A k \in n + 1 .. Len(q) : k \in 1 .. Len(q)
      BY <1>3, <1>6
    <2>4. b \in Seq(RebalanceJob) /\ Len(b) = Len(q) - n /\ \A k \in 1 .. Len(q) - n : b[k] = q[n + k]
      BY <1>3, <1>6, <1>7, <2>3, SubSeqProperties
    <2> QED
      BY <2>2, <2>4
  <1>9. /\ e \in Seq(RebalanceJob) /\ Len(e) = Len(q) + 1
        /\ \A k \in 1 .. Len(e) :
             /\ k <= n => e[k] = q[k]
             /\ k = n + 1 => e[k] = j
             /\ k > n + 1 => k - 1 \in 1 .. Len(q) /\ k - 1 > n /\ e[k] = q[k - 1]
    <2>1. PICK c : c = a \o <<j>>
      OBVIOUS
    <2>2. /\ c \in Seq(RebalanceJob) /\ Len(c) = n + 1
          /\ \A k \in 1 .. n : c[k] = q[k]
          /\ c[n + 1] = j
      BY <1>3, <1>6, <1>8, <2>1
    <2>3. e = c \o b
      BY <1>4, <1>7, <2>1
    <2>4. e \in Seq(RebalanceJob) /\ Len(e) = Len(q) + 1
      <3>1. b \in Seq(RebalanceJob) /\ Len(b) = Len(q) - n /\ c \in Seq(RebalanceJob)
        BY <1>8, <2>2
      <3>2. e \in Seq(RebalanceJob) /\ Len(e) = Len(c) + Len(b)
        BY <2>3, <3>1, ConcatProperties
      <3>3. Len(q) \in Nat /\ n \in Nat
        BY <1>3, <1>6
      <3> QED
        BY <2>2, <3>1, <3>2, <3>3
    <2>5. ASSUME NEW k \in 1 .. Len(e)
          PROVE  /\ k <= n => e[k] = q[k]
                 /\ k = n + 1 => e[k] = j
                 /\ k > n + 1 => k - 1 \in 1 .. Len(q) /\ k - 1 > n /\ e[k] = q[k - 1]
      <3>1. CASE k <= n + 1
        <4>1. k \in 1 .. Len(c) /\ e[k] = c[k]
          BY <1>3, <1>6, <1>8, <2>2, <2>3, <2>4, <3>1
        <4> QED
          BY <1>3, <2>2, <3>1, <4>1
      <3>2. CASE k > n + 1
        <4>1. PICK i : i = k - (n + 1)
          OBVIOUS
        <4>2. /\ i \in 1 .. Len(q) - n /\ k - 1 \in 1 .. Len(q) /\ k - 1 > n /\ n + i = k - 1
              /\ ~(k <= n) /\ k # n + 1
          BY <1>3, <1>6, <2>4, <3>2, <4>1
        <4>3. e[k] = b[i]
          BY <1>3, <1>6, <1>8, <2>2, <2>3, <2>4, <3>2, <4>1, <4>2
        <4>4. b[i] = q[k - 1]
          BY <1>8, <4>2
        <4> QED
          BY <4>2, <4>3, <4>4
      <3> QED
        BY <1>3, <3>1, <3>2
    <2> QED
      BY <2>4, <2>5
  <1>10. Sorted(e)
    <2> SUFFICES ASSUME NEW k \in 1 .. Len(e), NEW l \in 1 .. Len(e), k < l
                 PROVE  ~SortsBefore(e[l], e[k])
      BY DEF Sorted
    <2>1. CASE l <= n
      <3>1. e[k] = q[k] /\ e[l] = q[l] /\ k \in 1 .. Len(q) /\ l \in 1 .. Len(q)
        BY <1>3, <1>6, <1>9, <2>1
      <3> QED
        BY <3>1 DEF Sorted
    <2>2. CASE l = n + 1
      <3>1. e[k] = q[k] /\ e[l] = j /\ k \in 1 .. Len(q) /\ ~(k > n)
        BY <1>3, <1>6, <1>9, <2>2
      <3> QED
        BY <1>3, <3>1
    <2>3. CASE l > n + 1 /\ k <= n
      <3>1. e[k] = q[k] /\ e[l] = q[l - 1] /\ k \in 1 .. Len(q) /\ l - 1 \in 1 .. Len(q) /\ k < l - 1
        BY <1>3, <1>6, <1>9, <2>3
      <3> QED
        BY <3>1 DEF Sorted
    <2>4. CASE l > n + 1 /\ k = n + 1
      <3>1. e[k] = j /\ e[l] = q[l - 1] /\ l - 1 \in 1 .. Len(q) /\ l - 1 > n
        BY <1>9, <2>4
      <3>2. SortsBefore(j, q[l - 1])
        BY <1>3, <3>1
      <3> QED
        BY <1>6, <3>1, <3>2, JobsOrdered
    <2>5. CASE l > n + 1 /\ k > n + 1
      <3>1. e[k] = q[k - 1] /\ e[l] = q[l - 1] /\ l - 1 \in 1 .. Len(q) /\ k - 1 \in 1 .. Len(q)
            /\ k - 1 < l - 1
        BY <1>9, <2>5
      <3> QED
        BY <3>1 DEF Sorted
    <2> QED
      BY <1>3, <1>9, <2>1, <2>2, <2>3, <2>4, <2>5
  <1>11. HasScheduled(e) => HasScheduled(q) \/ j.trigger = "scheduled"
    <2> SUFFICES ASSUME NEW k \in 1 .. Len(e), e[k].trigger = "scheduled"
                 PROVE  HasScheduled(q) \/ j.trigger = "scheduled"
      BY DEF HasScheduled
    <2>1. CASE k <= n
      <3>1. k \in 1 .. Len(q) /\ e[k] = q[k]
        BY <1>3, <1>6, <1>9, <2>1
      <3> QED
        BY <3>1 DEF HasScheduled
    <2>2. CASE k = n + 1
      BY <1>9, <2>2
    <2>3. CASE k > n + 1
      BY <1>9, <2>3 DEF HasScheduled
    <2> QED
      BY <1>3, <1>9, <2>1, <2>2, <2>3
  <1> QED
    BY <1>5, <1>9, <1>10, <1>11

\* What is left when the first job is shifted.
LEMMA TailSorted ==
  ASSUME NEW q \in Seq(RebalanceJob), Sorted(q), q # <<>>
  PROVE  /\ Head(q) \in RebalanceJob /\ Tail(q) \in Seq(RebalanceJob) /\ Sorted(Tail(q))
         /\ HasScheduled(Tail(q)) => HasScheduled(q)
         /\ Head(q).trigger = "scheduled" => HasScheduled(q)
  <1>1. PICK e : e = Tail(q)
    OBVIOUS
  <1>2. /\ Len(q) \in Nat /\ Len(q) >= 1 /\ e \in Seq(RebalanceJob) /\ Len(e) = Len(q) - 1
        /\ \A k \in 1 .. Len(e) : e[k] = q[k + 1]
        /\ Head(q) = q[1] /\ q[1] \in RebalanceJob
    BY <1>1
  <1>3. \A k \in 1 .. Len(e) : k + 1 \in 1 .. Len(q)
    BY <1>2
  <1>4. Sorted(e)
    <2> SUFFICES ASSUME NEW k \in 1 .. Len(e), NEW l \in 1 .. Len(e), k < l
                 PROVE  ~SortsBefore(e[l], e[k])
      BY DEF Sorted
    <2>1. k + 1 < l + 1 /\ e[k] = q[k + 1] /\ e[l] = q[l + 1]
      BY <1>2
    <2> QED
      BY <1>3, <2>1 DEF Sorted
  <1>5. HasScheduled(e) => HasScheduled(q)
    BY <1>2, <1>3 DEF HasScheduled
  <1>6. Head(q).trigger = "scheduled" => HasScheduled(q)
    <2>1. 1 \in 1 .. Len(q)
      BY <1>2
    <2> QED
      BY <1>2, <2>1 DEF HasScheduled
  <1> QED
    BY <1>1, <1>2, <1>4, <1>5, <1>6


-----------------------------------------------------------------------------
(***************************************************************************)
(* The replicas of the rebalance scheduler (scheduler.ts).  The queue of a  *)
(* replica is sorted; and as long as no interval changes all use one key,   *)
(* whose lease a replica with a scheduled job holds unless it lost it under *)
(* the job.                                                                 *)
(***************************************************************************)

Steps == {"idle", "renewing", "acquiring", "granted", "gas", "running", "releasing"}

\* Only a job that runs is another than the scheduled one.
TickStands(x) == x.step # "running" => x.trigger = "scheduled"

HoldsLease(r) == lease[interval[r]].owner = r /\ lease[interval[r]].live

SchedInv ==
  /\ SchedTypeOK
  /\ \A r \in Replicas : Sorted(todo[r])
  /\ \A s \in Slots : TickStands(ticks[s])
  /\ StreakTrips
  /\ changes = 0 => /\ \A r, s \in Replicas : interval[r] = interval[s]
                    /\ \A r \in Replicas : Emitted(r) => r \in astray \/ HoldsLease(r)

LEMMA SchedTypes ==
  ASSUME SchedInv
  PROVE  /\ todo \in [Replicas -> Seq(RebalanceJob)] /\ streak \in [Replicas -> Nat]
         /\ tripped \in [Replicas -> BOOLEAN] /\ elapsed \in [Replicas -> BOOLEAN]
         /\ held \in [Replicas -> BOOLEAN] /\ interval \in [Replicas -> Intervals]
         /\ lease \in [Intervals -> [owner : Replicas \cup {NoOwner}, live : BOOLEAN]]
         /\ ticks \in [Slots -> TickState] /\ TickState = [step : Steps, trigger : AllTriggers]
         /\ deadReplicas \subseteq Replicas /\ astray \subseteq Replicas
         /\ enqueued \in 0 .. MaxEnqueued /\ changes \in 0 .. MaxChanges
         /\ MaxEnqueued \in Nat /\ MaxChanges \in Nat /\ Threshold \in Nat \ {0}
         /\ \A r \in Replicas : /\ todo[r] \in Seq(RebalanceJob) /\ Sorted(todo[r])
                                /\ tripped[r] \in BOOLEAN /\ streak[r] \in Nat
                                /\ interval[r] \in Intervals
         /\ \A s \in Slots : /\ ticks[s].step \in Steps /\ ticks[s].trigger \in AllTriggers
                             /\ TickStands(ticks[s])
         /\ \A s \in Slots : s = <<s[1], s[2]>> /\ s[1] \in Replicas
         /\ NoOwner \notin Replicas /\ "scheduled" \in AllTriggers
         /\ \A t \in Triggers : t # "scheduled"
  <1>1. /\ NoOwner \notin Replicas /\ "scheduled" \in AllTriggers
        /\ \A t \in Triggers : t # "scheduled"
        /\ \A s \in Slots : s = <<s[1], s[2]>> /\ s[1] \in Replicas
    BY SchedulerAssumption DEF AllTriggers
  <1>2. TickState = [step : Steps, trigger : AllTriggers]
    BY DEF TickState, Steps
  <1> QED
    BY <1>1, <1>2, SchedulerAssumption DEF SchedInv, SchedTypeOK

\* What a replica has emitted, by its queue and its ticks.
LEMMA EmittedBy ==
  ASSUME SchedInv, NEW r \in Replicas
  PROVE  /\ HasPendingScheduled(r) <=> HasScheduled(todo[r])
         /\ HasScheduled(todo[r]) => Emitted(r)
         /\ \A t : <<r, t>> \in Slots /\ ticks[<<r, t>>].trigger = "scheduled"
                   /\ ticks[<<r, t>>].step \in {"granted", "gas", "running"} => Emitted(r)
  <1>1. DOMAIN todo[r] = 1 .. Len(todo[r])
    BY SchedTypes
  <1>2. \A t : <<r, t>>[1] = r
    OBVIOUS
  <1> QED
    BY <1>1, <1>2 DEF HasPendingScheduled, HasScheduled, Emitted

\* What every step but one that takes a lease does: no replica emits anew.
NothingEmitted ==
  /\ todo' \in [Replicas -> Seq(RebalanceJob)] /\ \A r \in Replicas : Sorted(todo'[r])
  /\ ticks' \in [Slots -> TickState] /\ \A s \in Slots : TickStands(ticks'[s])
  /\ \A r \in Replicas : Emitted(r)' => Emitted(r)

\* The loop of a tick: with the queue q, it takes the first job or ends.
LEMMA ContinueInv ==
  ASSUME SchedInv, NEW r, NEW t, <<r, t>> \in Slots, NEW q \in Seq(RebalanceJob), Sorted(q),
         NEW open, Continue(r, t, q, open),
         HasScheduled(q) => Emitted(r)
  PROVE  /\ NothingEmitted
         /\ open => todo' = [todo EXCEPT ![r] = q]
         /\ \A x \in Replicas : x # r => todo'[x] = todo[x]
  <1>1. r \in Replicas
    BY SchedTypes
  <1>2. PICK p, z :
          /\ todo' = [todo EXCEPT ![r] = p] /\ ticks' = [ticks EXCEPT ![<<r, t>>] = z]
          /\ p \in Seq(RebalanceJob) /\ Sorted(p) /\ (HasScheduled(p) => HasScheduled(q))
          /\ z \in TickState /\ TickStands(z)
          /\ z.trigger = "scheduled" /\ z.step \in {"granted", "gas", "running"} => HasScheduled(q)
          /\ open => p = q
    <2>1. CASE Drains(q, open)
      <3>1. q # <<>> /\ ~open
        BY <2>1 DEF Drains
      <3>2. /\ Head(q) \in RebalanceJob /\ Tail(q) \in Seq(RebalanceJob) /\ Sorted(Tail(q))
            /\ HasScheduled(Tail(q)) => HasScheduled(q)
            /\ Head(q).trigger = "scheduled" => HasScheduled(q)
        BY <3>1, TailSorted
      <3>3. PICK z : z = [step    |-> IF Head(q).trigger = "scheduled" THEN "gas" ELSE "running",
                          trigger |-> Head(q).trigger]
        OBVIOUS
      <3>4. /\ Head(q).trigger \in AllTriggers
            /\ z.trigger = Head(q).trigger
            /\ z.step = IF Head(q).trigger = "scheduled" THEN "gas" ELSE "running"
        BY <3>2, <3>3 DEF RebalanceJob
      <3>5. z \in TickState /\ TickStands(z)
        BY <3>3, <3>4 DEF TickState, TickStands
      <3>6. todo' = [todo EXCEPT ![r] = Tail(q)] /\ ticks' = [ticks EXCEPT ![<<r, t>>] = z]
        BY <2>1, <3>3 DEF Continue
      <3> QED
        BY <3>1, <3>2, <3>4, <3>5, <3>6
    <2>2. CASE ~Drains(q, open)
      <3>1. Idle \in TickState /\ TickStands(Idle) /\ Idle.step = "idle"
        BY DEF Idle, TickState, TickStands, AllTriggers
      <3>2. todo' = [todo EXCEPT ![r] = q] /\ ticks' = [ticks EXCEPT ![<<r, t>>] = Idle]
        BY <2>2 DEF Continue
      <3> QED
        BY <3>1, <3>2
    <2> QED
      BY <2>1, <2>2
  <1>3. /\ todo' \in [Replicas -> Seq(RebalanceJob)]
        /\ \A x \in Replicas : todo'[x] = IF x = r THEN p ELSE todo[x]
        /\ ticks' \in [Slots -> TickState]
        /\ \A s \in Slots : ticks'[s] = IF s = <<r, t>> THEN z ELSE ticks[s]
    BY <1>1, <1>2, SchedTypes
  <1>4. ASSUME NEW x \in Replicas, Emitted(x)' PROVE Emitted(x)
    <2>1. CASE HasPendingScheduled(x)'
      <3>1. PICK k \in DOMAIN todo'[x] : todo'[x][k].trigger = "scheduled"
        BY <2>1 DEF HasPendingScheduled
      <3>2. PICK y : y = todo'[x]
        OBVIOUS
      <3>3. y \in Seq(RebalanceJob) /\ DOMAIN y = 1 .. Len(y) /\ HasScheduled(y)
        BY <1>3, <3>1, <3>2 DEF HasScheduled
      <3>4. CASE x = r
        BY <1>2, <1>3, <3>2, <3>3, <3>4
      <3>5. CASE x # r
        BY <1>3, <3>2, <3>3, <3>5, EmittedBy
      <3> QED
        BY <3>4, <3>5
    <2>2. CASE \E s \in Slots : /\ s[1] = x /\ ticks'[s].trigger = "scheduled"
                                /\ ticks'[s].step \in {"granted", "gas", "running"}
      <3>1. PICK s \in Slots : /\ s[1] = x /\ ticks'[s].trigger = "scheduled"
                               /\ ticks'[s].step \in {"granted", "gas", "running"}
        BY <2>2
      <3>2. CASE s = <<r, t>>
        BY <1>2, <1>3, <3>1, <3>2
      <3>3. CASE s # <<r, t>>
        <4>1. ticks'[s] = ticks[s]
          BY <1>3, <3>3
        <4> QED
          BY <3>1, <4>1 DEF Emitted
      <3> QED
        BY <3>2, <3>3
    <2> QED
      BY <1>4, <2>1, <2>2 DEF Emitted
  <1>5. NothingEmitted
    BY <1>2, <1>3, <1>4, SchedTypes DEF NothingEmitted
  <1> QED
    BY <1>2, <1>3, <1>5

\* A tick goes on to another step.
LEMMA TickMoves ==
  ASSUME SchedInv, NEW r, NEW t, <<r, t>> \in Slots, NEW step \in Steps,
         ticks' = [ticks EXCEPT ![<<r, t>>].step = step], UNCHANGED todo,
         step = "running" \/ ticks[<<r, t>>].trigger = "scheduled"
  PROVE  /\ ticks' \in [Slots -> TickState] /\ \A s \in Slots : TickStands(ticks'[s])
         /\ \A x \in Replicas : Emitted(x)' => x = r \/ Emitted(x)
         /\ step \notin {"granted", "gas", "running"} => NothingEmitted
         /\ Emitted(r) => NothingEmitted
  <1>1. PICK z : z = [ticks[<<r, t>>] EXCEPT !.step = step]
    OBVIOUS
  <1>0. ticks \in [Slots -> TickState] /\ TickState = [step : Steps, trigger : AllTriggers]
    BY SchedTypes
  <1>2. /\ z \in TickState /\ z.step = step /\ z.trigger = ticks[<<r, t>>].trigger
    <2>1. PICK y \in TickState : y = ticks[<<r, t>>]
      BY <1>0
    <2> QED
      BY <1>0, <1>1, <2>1
  <1>3. TickStands(z)
    BY <1>2 DEF TickStands
  <1>4. ticks' = [ticks EXCEPT ![<<r, t>>] = z]
    BY <1>1
  <1>5. /\ ticks' \in [Slots -> TickState]
        /\ \A s \in Slots : ticks'[s] = IF s = <<r, t>> THEN z ELSE ticks[s]
    BY <1>0, <1>2, <1>4
  <1>6. ASSUME NEW x \in Replicas, Emitted(x)'
        PROVE  Emitted(x) \/ (x = r /\ step \in {"granted", "gas", "running"})
    <2>1. CASE HasPendingScheduled(x)'
      BY <2>1 DEF HasPendingScheduled, Emitted
    <2>2. CASE \E s \in Slots : /\ s[1] = x /\ ticks'[s].trigger = "scheduled"
                                /\ ticks'[s].step \in {"granted", "gas", "running"}
      BY <1>2, <1>5, <2>2 DEF Emitted
    <2> QED
      BY <1>6, <2>1, <2>2 DEF Emitted
  <1> QED
    BY <1>3, <1>5, <1>6, SchedTypes DEF NothingEmitted


\* A step that emits nothing keeps the invariant, if who loses its lease under a job
\* is astray.
LEMMA SchedGoesOn ==
  ASSUME SchedInv, NothingEmitted, UNCHANGED <<interval, changes>>,
         streak' \in [Replicas -> Nat], tripped' \in [Replicas -> BOOLEAN],
         elapsed' \in [Replicas -> BOOLEAN], held' \in [Replicas -> BOOLEAN],
         lease' \in [Intervals -> [owner : Replicas \cup {NoOwner}, live : BOOLEAN]],
         deadReplicas' \subseteq Replicas, astray \subseteq astray', astray' \subseteq Replicas,
         enqueued' \in 0 .. MaxEnqueued, StreakTrips',
         changes = 0 =>
           \A r \in Replicas : Emitted(r) /\ HoldsLease(r) =>
             r \in astray' \/ (lease'[interval[r]].owner = r /\ lease'[interval[r]].live)
  PROVE  SchedInv'
  <1>1. SchedTypeOK'
    BY SchedTypes DEF NothingEmitted, SchedTypeOK
  <1>2. ASSUME changes = 0
        PROVE  \A r \in Replicas : Emitted(r)' => r \in astray' \/ HoldsLease(r)'
    BY <1>2 DEF NothingEmitted, SchedInv, HoldsLease
  <1>3. changes = 0 => \A r, s \in Replicas : interval[r] = interval[s]
    BY DEF SchedInv
  <1> QED
    BY <1>1, <1>2, <1>3 DEF NothingEmitted, SchedInv

\* As long as nothing happens to leases, breakers and replicas.
LEMMA QueuesGoOn ==
  ASSUME SchedInv, NothingEmitted, enqueued' \in 0 .. MaxEnqueued,
         UNCHANGED <<streak, tripped, held, interval, lease, deadReplicas, astray, changes>>,
         elapsed' \in [Replicas -> BOOLEAN]
  PROVE  SchedInv'
  <1>1. StreakTrips'
    BY DEF SchedInv, StreakTrips
  <1>2. \A r \in Replicas : HoldsLease(r) => lease'[interval[r]].owner = r /\ lease'[interval[r]].live
    BY DEF HoldsLease
  <1> QED
    BY <1>1, <1>2, SchedGoesOn, SchedTypes

\* Queues that change as f says.
LEMMA QueueChanges ==
  ASSUME SchedInv, NEW r \in Replicas, NEW q \in Seq(RebalanceJob), Sorted(q),
         todo' = [todo EXCEPT ![r] = q], UNCHANGED ticks,
         HasScheduled(q) => HasScheduled(todo[r])
  PROVE  NothingEmitted
  <1>1. /\ todo' \in [Replicas -> Seq(RebalanceJob)]
        /\ \A x \in Replicas : todo'[x] = IF x = r THEN q ELSE todo[x]
    BY SchedTypes
  <1>2. ASSUME NEW x \in Replicas, Emitted(x)' PROVE Emitted(x)
    <2>1. CASE HasPendingScheduled(x)'
      <3>1. PICK k \in DOMAIN todo'[x] : todo'[x][k].trigger = "scheduled"
        BY <2>1 DEF HasPendingScheduled
      <3>2. PICK y : y = todo'[x]
        OBVIOUS
      <3>3. y \in Seq(RebalanceJob) /\ DOMAIN y = 1 .. Len(y) /\ HasScheduled(y)
        BY <1>1, <3>1, <3>2 DEF HasScheduled
      <3>4. HasScheduled(todo[x])
        BY <1>1, <3>2, <3>3
      <3> QED
        BY <3>4, EmittedBy
    <2>2. CASE \E s \in Slots : /\ s[1] = x /\ ticks'[s].trigger = "scheduled"
                                /\ ticks'[s].step \in {"granted", "gas", "running"}
      BY <2>2 DEF Emitted
    <2> QED
      BY <1>2, <2>1, <2>2 DEF Emitted
  <1> QED
    BY <1>1, <1>2, SchedTypes DEF NothingEmitted

\* A replica takes or renews the lease of its key: no other has it.
LEMMA LeaseTaken ==
  ASSUME SchedInv, NEW r, NEW t, <<r, t>> \in Slots, NEW l \in [owner : {r}, live : {TRUE}],
         Grants(interval[r], r) \/ lease[interval[r]].owner = r,
         lease' = [lease EXCEPT ![interval[r]] = l],
         ticks' = [ticks EXCEPT ![<<r, t>>].step = "granted"],
         ticks[<<r, t>>].step \in {"renewing", "acquiring"},
         held' \in [Replicas -> BOOLEAN],
         UNCHANGED <<todo, streak, tripped, elapsed, interval, deadReplicas, astray, enqueued,
                     changes>>
  PROVE  SchedInv'
  <1>1. r \in Replicas /\ interval[r] \in Intervals /\ l.owner = r /\ l.live = TRUE
    BY SchedTypes
  <1>2. /\ lease' \in [Intervals -> [owner : Replicas \cup {NoOwner}, live : BOOLEAN]]
        /\ \A key \in Intervals : lease'[key] = IF key = interval[r] THEN l ELSE lease[key]
    <2>1. l \in [owner : Replicas \cup {NoOwner}, live : BOOLEAN]
      BY <1>1
    <2> QED
      BY <1>1, <2>1, SchedTypes
  <1>3. ticks[<<r, t>>].trigger = "scheduled" /\ "granted" \in Steps
    BY SchedTypes DEF TickStands, Steps
  <1>4. /\ ticks' \in [Slots -> TickState] /\ \A s \in Slots : TickStands(ticks'[s])
        /\ \A x \in Replicas : Emitted(x)' => x = r \/ Emitted(x)
    BY <1>3, TickMoves
  <1>5. SchedTypeOK'
    BY <1>2, <1>4, SchedTypes DEF SchedTypeOK
  <1>6. ASSUME changes = 0, NEW x \in Replicas, Emitted(x)'
        PROVE  x \in astray \/ (lease'[interval[x]].owner = x /\ lease'[interval[x]].live)
    <2>1. CASE x = r
      BY <1>1, <1>2, <2>1
    <2>2. CASE x # r
      <3>1. interval[x] = interval[r] /\ (x \in astray \/ HoldsLease(x))
        BY <1>1, <1>4, <1>6, <2>2 DEF SchedInv
      <3>2. ~HoldsLease(x)
        BY <1>1, <2>2, <3>1, SchedTypes DEF HoldsLease, Grants
      <3> QED
        BY <3>1, <3>2
    <2> QED
      BY <2>1, <2>2
  <1>7. changes = 0 => \A x, s \in Replicas : interval[x] = interval[s]
    BY DEF SchedInv
  <1>8. changes = 0 => \A x \in Replicas : Emitted(x)' => x \in astray' \/ HoldsLease(x)'
    BY <1>6 DEF HoldsLease
  <1>9. StreakTrips' /\ \A x \in Replicas : Sorted(todo'[x])
    BY DEF SchedInv, StreakTrips
  <1> QED
    BY <1>4, <1>5, <1>7, <1>8, <1>9 DEF SchedInv

LEMMA SchedInitInv == SchedInit => SchedInv
  <1> SUFFICES ASSUME SchedInit PROVE SchedInv
    OBVIOUS
  <1>1. /\ <<>> \in Seq(RebalanceJob) /\ Sorted(<<>>) /\ DOMAIN <<>> = {}
        /\ Idle \in TickState /\ Idle.step = "idle" /\ Idle.trigger = "scheduled"
        /\ NoLease \in [owner : Replicas \cup {NoOwner}, live : BOOLEAN]
        /\ 0 \in 0 .. MaxEnqueued /\ 0 \in 0 .. MaxChanges
    <2>1. Sorted(<<>>)
      BY DEF Sorted
    <2>2. Idle \in TickState /\ Idle.step = "idle" /\ Idle.trigger = "scheduled"
      BY DEF Idle, TickState, AllTriggers
    <2> QED
      BY <2>1, <2>2, SchedulerAssumption DEF NoLease
  <1>2. SchedTypeOK
    BY <1>1 DEF SchedInit, SchedTypeOK
  <1>3. \A r \in Replicas : ~Emitted(r)
    BY <1>1 DEF SchedInit, Emitted, HasPendingScheduled
  <1>4. StreakTrips
    BY SchedulerAssumption DEF SchedInit, StreakTrips
  <1>5. \A r, s \in Replicas : interval[r] = interval[s]
    BY DEF SchedInit
  <1>6. (\A r \in Replicas : Sorted(todo[r])) /\ \A s \in Slots : TickStands(ticks[s])
    BY <1>1 DEF SchedInit, TickStands
  <1> QED
    BY <1>2, <1>3, <1>4, <1>5, <1>6 DEF SchedInv

\* Callers, clocks, leases and crashes.
LEMMA OutsideInv ==
  ASSUME SchedInv, NEW r \in Replicas,
         EnqueueJob(r) \/ SetInterval(r) \/ IntervalElapses(r) \/ JobFallsDue(r) \/ ReplicaCrashes(r)
  PROVE  SchedInv'
  <1>1. CASE EnqueueJob(r)
    <2>1. PICK j \in [trigger : Triggers, later : BOOLEAN] :
            todo' = [todo EXCEPT ![r] = Enqueued(@, j)]
      BY <1>1 DEF EnqueueJob
    <2>2. PICK q : q = Enqueued(todo[r], j)
      OBVIOUS
    <2>3. j \in RebalanceJob /\ j.trigger # "scheduled"
      BY SchedTypes DEF RebalanceJob, AllTriggers
    <2>4. q \in Seq(RebalanceJob) /\ Sorted(q) /\ (HasScheduled(q) => HasScheduled(todo[r]))
      BY <2>2, <2>3, EnqueuedSorted, SchedTypes
    <2>5. todo' = [todo EXCEPT ![r] = q]
      BY <2>1, <2>2
    <2>6. /\ enqueued < MaxEnqueued /\ enqueued' = enqueued + 1
          /\ UNCHANGED <<streak, tripped, elapsed, held, interval, lease, ticks, deadReplicas,
                         astray, changes>>
      BY <1>1 DEF EnqueueJob
    <2>7. enqueued' \in 0 .. MaxEnqueued
      BY <2>6, SchedTypes
    <2>8. NothingEmitted
      BY <2>4, <2>5, <2>6, QueueChanges
    <2> QED
      BY <2>6, <2>7, <2>8, QueuesGoOn, SchedTypes
  <1>2. CASE SetInterval(r)
    <2>1. PICK i \in Intervals : interval' = [interval EXCEPT ![r] = i]
      BY <1>2 DEF SetInterval
    <2>2. /\ changes < MaxChanges /\ changes' = changes + 1
          /\ UNCHANGED <<todo, streak, tripped, elapsed, held, lease, ticks, deadReplicas,
                         astray, enqueued>>
      BY <1>2 DEF SetInterval
    <2>3. changes' \in 0 .. MaxChanges /\ changes' # 0
      BY <2>2, SchedTypes
    <2>4. SchedTypeOK'
      BY <2>1, <2>2, <2>3, SchedTypes DEF SchedTypeOK
    <2> QED
      BY <2>2, <2>3, <2>4 DEF SchedInv, StreakTrips
  <1>3. ASSUME UNCHANGED <<todo, ticks>> PROVE NothingEmitted
    BY <1>3, SchedTypes DEF NothingEmitted, Emitted, HasPendingScheduled
  <1>4. CASE IntervalElapses(r)
    BY <1>3, <1>4, QueuesGoOn, SchedTypes DEF IntervalElapses
  <1>5. CASE JobFallsDue(r)
    <2>1. PICK k \in DOMAIN todo[r] :
            /\ todo[r][k].later
            /\ \A l \in 1..(k - 1) : todo[r][l].trigger = todo[r][k].trigger => ~todo[r][l].later
            /\ todo' = [todo EXCEPT ![r][k].later = FALSE]
      BY <1>5 DEF JobFallsDue
    <2>2. PICK q, z : q = [todo[r] EXCEPT ![k] = z] /\ z = [todo[r][k] EXCEPT !.later = FALSE]
      OBVIOUS
    <2>3. PICK p : p = todo[r]
      OBVIOUS
    <2>4. /\ p \in Seq(RebalanceJob) /\ Sorted(p) /\ k \in 1 .. Len(p) /\ Len(p) \in Nat
          /\ \A l \in 1 .. Len(p) : p[l] \in RebalanceJob
      BY <2>1, <2>3, SchedTypes
    <2>5. z \in RebalanceJob /\ z.trigger = p[k].trigger /\ z.later = FALSE
      BY <2>2, <2>3, <2>4 DEF RebalanceJob
    <2>6. q \in Seq(RebalanceJob) /\ Len(q) = Len(p)
      BY <2>2, <2>3, <2>4, <2>5
    <2>7. \A l \in 1 .. Len(p) : q[l] = IF l = k THEN z ELSE p[l]
      BY <2>2, <2>3, <2>4
    <2>8. Sorted(q)
      <3> SUFFICES ASSUME NEW a \in 1 .. Len(p), NEW b \in 1 .. Len(p), a < b
                   PROVE  ~SortsBefore(q[b], q[a])
        BY <2>6 DEF Sorted
      <3>1. ~SortsBefore(p[b], p[a])
        BY <2>4 DEF Sorted
      <3>2. CASE a # k /\ b # k
        BY <2>7, <3>1, <3>2
      <3>3. CASE a = k
        <4>1. q[a] = z /\ q[b] = p[b]
          BY <2>4, <2>7, <3>3
        <4> QED
          BY <2>5, <3>1, <3>3, <4>1 DEF SortsBefore
      <3>4. CASE b = k
        <4>1. q[b] = z /\ q[a] = p[a]
          BY <2>4, <2>7, <3>4
        <4>2. p[a].trigger = p[k].trigger => ~p[a].later
          <5>1. a \in 1 .. (k - 1)
            BY <2>4, <3>4
          <5> QED
            BY <2>1, <2>3, <5>1
        <4>3. ASSUME SortsBefore(z, p[a]) PROVE FALSE
          <5>1. ~(PRIORITY[z.trigger] < PRIORITY[p[a].trigger])
            BY <2>5, <3>1, <3>4 DEF SortsBefore
          <5>2. PRIORITY[z.trigger] = PRIORITY[p[a].trigger] /\ p[a].later
            BY <4>3, <5>1 DEF SortsBefore
          <5>3. z.trigger = p[a].trigger
            BY <2>4, <2>5, <5>2, SamePriority
          <5> QED
            BY <2>5, <4>2, <5>2, <5>3
        <4> QED
          BY <4>1, <4>3
      <3> QED
        BY <3>2, <3>3, <3>4
    <2>9. HasScheduled(q) => HasScheduled(todo[r])
      <3> SUFFICES ASSUME NEW l \in 1 .. Len(p), q[l].trigger = "scheduled"
                   PROVE  HasScheduled(p)
        BY <2>3, <2>6 DEF HasScheduled
      <3> QED
        BY <2>4, <2>5, <2>7 DEF HasScheduled
    <2>10. todo' = [todo EXCEPT ![r] = q]
      BY <2>1, <2>2
    <2>11. NothingEmitted
      BY <1>5, <2>6, <2>8, <2>9, <2>10, QueueChanges DEF JobFallsDue
    <2> QED
      BY <1>5, <2>11, QueuesGoOn, SchedTypes DEF JobFallsDue
  <1>6. CASE ReplicaCrashes(r)
    <2>1. /\ deadReplicas' = deadReplicas \cup {r}
          /\ todo' = [todo EXCEPT ![r] = <<>>]
          /\ ticks' = [s \in Slots |-> IF s[1] = r THEN Idle ELSE ticks[s]]
          /\ UNCHANGED <<streak, tripped, elapsed, held, interval, lease, astray, enqueued, changes>>
      BY <1>6 DEF ReplicaCrashes
    <2>2. /\ Sorted(<<>>) /\ Idle \in TickState /\ Idle.step = "idle" /\ Idle.trigger = "scheduled"
          /\ <<>> \in Seq(RebalanceJob) /\ DOMAIN <<>> = {}
      <3>1. Sorted(<<>>)
        BY DEF Sorted
      <3>2. Idle \in TickState /\ Idle.step = "idle" /\ Idle.trigger = "scheduled"
        BY DEF Idle, TickState, AllTriggers
      <3> QED
        BY <3>1, <3>2
    <2>3. /\ todo' \in [Replicas -> Seq(RebalanceJob)]
          /\ \A x \in Replicas : todo'[x] = IF x = r THEN <<>> ELSE todo[x]
      BY <2>1, <2>2, SchedTypes
    <2>4. ticks' \in [Slots -> TickState] /\ \A s \in Slots : TickStands(ticks'[s])
      BY <2>1, <2>2, SchedTypes DEF TickStands
    <2>5. \A x \in Replicas : Emitted(x)' => Emitted(x)
      BY <2>1, <2>2, <2>3 DEF Emitted, HasPendingScheduled
    <2>6. NothingEmitted
      BY <2>2, <2>3, <2>4, <2>5, SchedTypes DEF NothingEmitted
    <2>7. StreakTrips'
      BY <2>1 DEF SchedInv, StreakTrips
    <2>8. deadReplicas' \subseteq Replicas
      BY <2>1, SchedTypes
    <2> QED
      BY <2>1, <2>6, <2>7, <2>8, SchedGoesOn, SchedTypes DEF HoldsLease
  <1> QED
    BY <1>1, <1>2, <1>4, <1>5, <1>6

LEMMA LeaseLapsesInv ==
  ASSUME SchedInv, NEW key \in Intervals, LeaseLapses(key)
  PROVE  SchedInv'
  <1>1. NothingEmitted
    BY SchedTypes DEF LeaseLapses, NothingEmitted, Emitted, HasPendingScheduled
  <1>2. PICK z : z = [lease[key] EXCEPT !.live = FALSE]
    OBVIOUS
  <1>3. z \in [owner : Replicas \cup {NoOwner}, live : BOOLEAN]
    <2>1. lease[key] \in [owner : Replicas \cup {NoOwner}, live : BOOLEAN]
      BY SchedTypes
    <2> QED
      BY <1>2, <2>1
  <1>4. /\ lease' \in [Intervals -> [owner : Replicas \cup {NoOwner}, live : BOOLEAN]]
        /\ \A i \in Intervals : lease'[i] = IF i = key THEN z ELSE lease[i]
    BY <1>2, <1>3, SchedTypes DEF LeaseLapses
  <1>5. /\ astray \subseteq astray' /\ astray' \subseteq Replicas
        /\ lease[key].owner \in Replicas /\ Emitted(lease[key].owner) => lease[key].owner \in astray'
        /\ UNCHANGED <<todo, streak, tripped, elapsed, held, interval, ticks, deadReplicas, enqueued,
                       changes>>
    BY SchedTypes DEF LeaseLapses
  <1>6. ASSUME NEW r \in Replicas, Emitted(r), HoldsLease(r)
        PROVE  r \in astray' \/ (lease'[interval[r]].owner = r /\ lease'[interval[r]].live)
    <2>1. CASE interval[r] = key
      BY <1>5, <1>6, <2>1 DEF HoldsLease
    <2>2. CASE interval[r] # key
      BY <1>4, <1>6, <2>2, SchedTypes DEF HoldsLease
    <2> QED
      BY <2>1, <2>2
  <1>7. StreakTrips'
    BY <1>5 DEF SchedInv, StreakTrips
  <1> QED
    BY <1>1, <1>4, <1>5, <1>6, <1>7, SchedGoesOn, SchedTypes


\* A tick of a replica begins or goes on.
LEMMA TickInv ==
  ASSUME SchedInv, NEW r, NEW t, <<r, t>> \in Slots, BeginTick(r, t) \/ TickStep(r, t)
  PROVE  SchedInv'
  <1>1. /\ r \in Replicas /\ todo[r] \in Seq(RebalanceJob) /\ Sorted(todo[r])
        /\ HasScheduled(todo[r]) => Emitted(r)
        /\ ticks[<<r, t>>].step \in Steps /\ tripped[r] \in BOOLEAN
        /\ ticks[<<r, t>>].step # "running" => ticks[<<r, t>>].trigger = "scheduled"
    BY SchedTypes, EmittedBy DEF TickStands
  <1>2. ASSUME NEW open, Continue(r, t, todo[r], open) PROVE NothingEmitted
    BY <1>1, <1>2, ContinueInv
  <1>3. ASSUME NEW step \in {"renewing", "acquiring", "releasing"},
               ticks' = [ticks EXCEPT ![<<r, t>>].step = step], UNCHANGED todo,
               ticks[<<r, t>>].trigger = "scheduled"
        PROVE  NothingEmitted
    <2>1. step \in Steps /\ step \notin {"granted", "gas", "running"}
      BY DEF Steps
    <2> QED
      BY <1>3, <2>1, TickMoves
  <1>4. ASSUME NothingEmitted,
               UNCHANGED <<streak, tripped, elapsed, held, interval, lease, deadReplicas, astray,
                           enqueued, changes>>
        PROVE  SchedInv'
    BY <1>4, QueuesGoOn, SchedTypes
  <1>5. ASSUME NothingEmitted, held' \in [Replicas -> BOOLEAN],
               UNCHANGED <<streak, tripped, elapsed, interval, lease, deadReplicas, astray,
                           enqueued, changes>>
        PROVE  SchedInv'
    <2>1. StreakTrips'
      BY <1>5 DEF SchedInv, StreakTrips
    <2> QED
      BY <1>5, <2>1, SchedGoesOn, SchedTypes DEF HoldsLease
  <1>6. CASE BeginTick(r, t)
    <2>1. /\ ticks[<<r, t>>].step = "idle"
          /\ UNCHANGED <<streak, tripped, elapsed, held, interval, lease, deadReplicas, astray,
                         enqueued, changes>>
      BY <1>6 DEF BeginTick
    <2>2. \/ \E step \in {"renewing", "acquiring"} :
               ticks' = [ticks EXCEPT ![<<r, t>>].step = step] /\ UNCHANGED todo
          \/ Continue(r, t, todo[r], FALSE)
      BY <1>6 DEF BeginTick
    <2>3. NothingEmitted
      BY <1>1, <1>2, <1>3, <2>1, <2>2
    <2> QED
      BY <1>4, <2>1, <2>3
  <1>7. CASE RenewLease(r, t)
    <2>1. /\ ticks[<<r, t>>].step = "renewing"
          /\ UNCHANGED <<todo, streak, tripped, elapsed, interval, deadReplicas, astray, enqueued,
                         changes>>
      BY <1>7 DEF RenewLease
    <2>2. CASE lease[interval[r]].owner = r
      <3>1. PICK z : z = [lease[interval[r]] EXCEPT !.live = TRUE]
        OBVIOUS
      <3>2. lease[interval[r]] \in [owner : Replicas \cup {NoOwner}, live : BOOLEAN]
        BY <1>1, SchedTypes
      <3>3. z \in [owner : {r}, live : {TRUE}]
        BY <2>2, <3>1, <3>2
      <3>4. lease' = [lease EXCEPT ![interval[r]] = z]
        BY <1>7, <2>2, <3>1 DEF RenewLease
      <3>5. ticks' = [ticks EXCEPT ![<<r, t>>].step = "granted"] /\ held' = held
        BY <1>7, <2>2 DEF RenewLease
      <3> QED
        BY <2>1, <2>2, <3>3, <3>4, <3>5, LeaseTaken, SchedTypes
    <2>3. CASE lease[interval[r]].owner # r
      <3>1. /\ held' = [held EXCEPT ![r] = FALSE] /\ lease' = lease
            /\ ticks' = [ticks EXCEPT ![<<r, t>>].step = "acquiring"]
        BY <1>7, <2>3 DEF RenewLease
      <3>2. held' \in [Replicas -> BOOLEAN]
        BY <3>1, SchedTypes
      <3>3. NothingEmitted
        BY <1>1, <1>3, <2>1, <3>1
      <3> QED
        BY <1>5, <2>1, <3>1, <3>2, <3>3
    <2> QED
      BY <2>2, <2>3
  <1>8. CASE AcquireLease(r, t)
    <2>1. /\ ticks[<<r, t>>].step = "acquiring"
          /\ UNCHANGED <<streak, tripped, elapsed, interval, deadReplicas, astray, enqueued, changes>>
      BY <1>8 DEF AcquireLease
    <2>2. CASE Grants(interval[r], r)
      <3>1. PICK z : z = [owner |-> r, live |-> TRUE]
        OBVIOUS
      <3>2. z \in [owner : {r}, live : {TRUE}]
        BY <3>1
      <3>3. lease' = [lease EXCEPT ![interval[r]] = z] /\ held' = [held EXCEPT ![r] = TRUE]
        BY <1>8, <2>2, <3>1 DEF AcquireLease
      <3>4. ticks' = [ticks EXCEPT ![<<r, t>>].step = "granted"] /\ UNCHANGED todo
        BY <1>8, <2>2 DEF AcquireLease
      <3>5. held' \in [Replicas -> BOOLEAN]
        BY <3>3, SchedTypes
      <3> QED
        BY <2>1, <2>2, <3>2, <3>3, <3>4, <3>5, LeaseTaken
    <2>3. CASE ~Grants(interval[r], r)
      <3>1. Continue(r, t, todo[r], tripped[r]) /\ UNCHANGED <<lease, held>>
        BY <1>8, <2>3 DEF AcquireLease
      <3> QED
        BY <1>2, <1>4, <2>1, <3>1
    <2> QED
      BY <2>2, <2>3
  <1>9. CASE LeaseStoreFails(r, t) \/ SkipForGas(r, t)
    BY <1>2, <1>4, <1>9 DEF LeaseStoreFails, SkipForGas
  <1>10. CASE EmitScheduled(r, t)
    <2>1. PICK late \in BOOLEAN :
            Continue(r, t, Enqueued(todo[r], [trigger |-> "scheduled", later |-> late]), tripped[r])
      BY <1>10 DEF EmitScheduled
    <2>2. PICK j, q : j = [trigger |-> "scheduled", later |-> late] /\ q = Enqueued(todo[r], j)
      OBVIOUS
    <2>3. j \in RebalanceJob
      BY <2>2, SchedTypes DEF RebalanceJob
    <2>4. q \in Seq(RebalanceJob) /\ Sorted(q)
      BY <1>1, <2>2, <2>3, EnqueuedSorted
    <2>5. Emitted(r)
      BY <1>1, <1>10, EmittedBy DEF EmitScheduled
    <2>6. NothingEmitted
      BY <2>1, <2>2, <2>4, <2>5, ContinueInv
    <2> QED
      BY <1>4, <1>10, <2>6 DEF EmitScheduled
  <1>11. CASE GasAccepted(r, t)
    <2>1. Emitted(r) /\ "running" \in Steps
      BY <1>1, <1>11, EmittedBy DEF GasAccepted, Steps
    <2>2. NothingEmitted
      BY <1>11, <2>1, TickMoves DEF GasAccepted
    <2> QED
      BY <1>4, <1>11, <2>2 DEF GasAccepted
  <1>12. CASE FinishJob(r, t)
    <2>0. PICK success \in BOOLEAN :
            LET n == IF success THEN 0 ELSE streak[r] + 1 IN
            /\ streak' = [streak EXCEPT ![r] = n]
            /\ tripped' = [tripped EXCEPT ![r] = @ \/ (~success /\ Trips(n))]
            /\ IF ticks[<<r, t>>].trigger = "scheduled" /\ held[r]
                 THEN /\ ticks' = [ticks EXCEPT ![<<r, t>>].step = "releasing"]
                      /\ UNCHANGED todo
                 ELSE Continue(r, t, todo[r], tripped'[r])
      BY <1>12 DEF FinishJob
    <2>10. PICK failures : failures = IF success THEN 0 ELSE streak[r] + 1
      OBVIOUS
    <2>1. /\ streak' = [streak EXCEPT ![r] = failures]
          /\ tripped' = [tripped EXCEPT ![r] = @ \/ (~success /\ Trips(failures))]
          /\ IF ticks[<<r, t>>].trigger = "scheduled" /\ held[r]
               THEN /\ ticks' = [ticks EXCEPT ![<<r, t>>].step = "releasing"]
                    /\ UNCHANGED todo
               ELSE Continue(r, t, todo[r], tripped'[r])
      BY <2>0, <2>10
    <2>11. streak[r] \in Nat /\ failures \in Nat
      <3>1. streak[r] \in Nat
        BY <1>1, SchedTypes
      <3> QED
        BY <2>10, <3>1
    <2>2. /\ elapsed' = [elapsed EXCEPT ![r] = FALSE]
          /\ UNCHANGED <<held, interval, lease, deadReplicas, astray, enqueued, changes>>
      BY <1>12 DEF FinishJob
    <2>3. PICK open : open = tripped'[r]
      OBVIOUS
    <2>4. NothingEmitted
      <3>1. CASE ticks[<<r, t>>].trigger = "scheduled" /\ held[r]
        BY <1>3, <2>1, <3>1
      <3>2. CASE ~(ticks[<<r, t>>].trigger = "scheduled" /\ held[r])
        <4>1. Continue(r, t, todo[r], open)
          BY <2>1, <2>3, <3>2
        <4> QED
          BY <1>2, <4>1
      <3> QED
        BY <3>1, <3>2
    <2>5. failures \in Nat /\ streak' \in [Replicas -> Nat] /\ elapsed' \in [Replicas -> BOOLEAN]
      BY <1>1, <2>1, <2>2, <2>11, SchedTypes
    <2>6. /\ tripped' \in [Replicas -> BOOLEAN]
          /\ \A x \in Replicas : tripped'[x] = IF x = r THEN tripped[r] \/ (~success /\ Trips(failures))
                                                ELSE tripped[x]
      BY <1>1, <2>1, SchedTypes
    <2>7. StreakTrips'
      <3>1. \A x \in Replicas : streak'[x] = IF x = r THEN failures ELSE streak[x]
        BY <1>1, <2>1, SchedTypes
      <3>2. success => ~(failures >= Threshold)
        <4>1. Threshold \in Nat \ {0}
          BY SchedulerAssumption
        <4>2. success => failures = 0
          BY <2>10
        <4> QED
          BY <4>1, <4>2
      <3>3. \A x \in Replicas : streak[x] >= Threshold => tripped[x]
        BY DEF SchedInv, StreakTrips
      <3> QED
        BY <2>6, <3>1, <3>2, <3>3 DEF StreakTrips, Trips
    <2> QED
      BY <2>2, <2>4, <2>5, <2>6, <2>7, SchedGoesOn, SchedTypes DEF HoldsLease
  <1>13. CASE ReleaseLease(r, t)
    <2>1. /\ \/ /\ held' = [held EXCEPT ![r] = FALSE]
                /\ lease' = IF lease[interval[r]].owner = r
                              THEN [lease EXCEPT ![interval[r]] = NoLease] ELSE lease
             \/ UNCHANGED <<held, lease>>
          /\ astray' = IF Emitted(r) THEN astray \cup {r} ELSE astray
          /\ Continue(r, t, todo[r], tripped[r])
          /\ UNCHANGED <<streak, tripped, elapsed, interval, deadReplicas, enqueued, changes>>
      BY <1>13 DEF ReleaseLease
    <2>2. NothingEmitted
      BY <1>2, <2>1
    <2>3. NoLease \in [owner : Replicas \cup {NoOwner}, live : BOOLEAN]
      BY DEF NoLease
    <2>4. /\ lease' \in [Intervals -> [owner : Replicas \cup {NoOwner}, live : BOOLEAN]]
          /\ held' \in [Replicas -> BOOLEAN]
      <3>1. CASE UNCHANGED <<held, lease>>
        BY <3>1, SchedTypes
      <3>2. CASE /\ held' = [held EXCEPT ![r] = FALSE]
                 /\ lease' = IF lease[interval[r]].owner = r
                               THEN [lease EXCEPT ![interval[r]] = NoLease] ELSE lease
        <4>1. held' \in [Replicas -> BOOLEAN]
          BY <3>2, SchedTypes
        <4>2. CASE lease[interval[r]].owner = r
          <5>1. lease' = [lease EXCEPT ![interval[r]] = NoLease]
            BY <3>2, <4>2
          <5> QED
            BY <2>3, <4>1, <5>1, SchedTypes
        <4>3. CASE lease[interval[r]].owner # r
          BY <3>2, <4>1, <4>3, SchedTypes
        <4> QED
          BY <4>2, <4>3
      <3> QED
        BY <2>1, <3>1, <3>2
    <2>5. astray \subseteq astray' /\ astray' \subseteq Replicas /\ (Emitted(r) => r \in astray')
      BY <1>1, <2>1, SchedTypes
    <2>6. ASSUME NEW x \in Replicas, Emitted(x), HoldsLease(x)
          PROVE  x \in astray' \/ (lease'[interval[x]].owner = x /\ lease'[interval[x]].live)
      <3>1. CASE x = r
        BY <2>5, <2>6, <3>1
      <3>2. CASE x # r
        <4>1. lease'[interval[x]] = lease[interval[x]]
          <5>1. CASE interval[x] = interval[r]
            BY <2>1, <2>6, <3>2, <5>1 DEF HoldsLease
          <5>2. CASE interval[x] # interval[r]
            BY <1>1, <2>1, <5>2, SchedTypes
          <5> QED
            BY <5>1, <5>2
        <4> QED
          BY <2>6, <4>1 DEF HoldsLease
      <3> QED
        BY <3>1, <3>2
    <2>7. StreakTrips'
      BY <2>1 DEF SchedInv, StreakTrips
    <2> QED
      BY <2>1, <2>2, <2>4, <2>5, <2>6, <2>7, SchedGoesOn, SchedTypes
  <1> QED
    BY <1>6, <1>7, <1>8, <1>9, <1>10, <1>11, <1>12, <1>13 DEF TickStep

LEMMA SchedStepInv ==
  ASSUME SchedInv, [SchedNext]_schedVars
  PROVE  SchedInv'
  <1>1. CASE UNCHANGED schedVars
    <2>1. NothingEmitted
      BY <1>1, SchedTypes DEF schedVars, NothingEmitted, Emitted, HasPendingScheduled
    <2> QED
      BY <1>1, <2>1, QueuesGoOn, SchedTypes DEF schedVars
  <1>2. ASSUME NEW r \in Replicas,
               EnqueueJob(r) \/ SetInterval(r) \/ IntervalElapses(r) \/ JobFallsDue(r)
                 \/ ReplicaCrashes(r)
        PROVE  SchedInv'
    BY <1>2, OutsideInv
  <1>3. ASSUME NEW s \in Slots, BeginTick(s[1], s[2]) \/ TickStep(s[1], s[2]) PROVE SchedInv'
    <2>1. <<s[1], s[2]>> \in Slots
      BY SchedTypes
    <2> QED
      BY <1>3, <2>1, TickInv
  <1>4. ASSUME NEW key \in Intervals, LeaseLapses(key) PROVE SchedInv'
    BY <1>4, LeaseLapsesInv
  <1> QED
    BY <1>1, <1>2, <1>3, <1>4 DEF SchedNext

\* A step under an open breaker takes no job from the queue of a replica that lives.
LEMMA BreakerHolds ==
  ASSUME SchedInv, [SchedNext]_schedVars, NEW x \in Replicas, tripped[x], x \notin deadReplicas'
  PROVE  Len(todo'[x]) >= Len(todo[x])
  <1>0. todo[x] \in Seq(RebalanceJob) /\ Len(todo[x]) \in Nat /\ Sorted(todo[x])
    BY SchedTypes
  <1>1. ASSUME todo'[x] = todo[x] PROVE Len(todo'[x]) >= Len(todo[x])
    BY <1>0, <1>1
  <1>2. ASSUME NEW r \in Replicas, NEW j \in RebalanceJob, todo'[r] = Enqueued(todo[r], j),
               r # x => todo'[x] = todo[x]
        PROVE  Len(todo'[x]) >= Len(todo[x])
    <2>1. CASE r = x
      <3>1. Len(Enqueued(todo[r], j)) = Len(todo[r]) + 1
        BY SchedTypes, EnqueuedSorted
      <3> QED
        BY <1>0, <1>2, <2>1, <3>1
    <2> QED
      BY <1>1, <1>2, <2>1
  <1>3. ASSUME NEW r \in Replicas, EnqueueJob(r) PROVE Len(todo'[x]) >= Len(todo[x])
    <2>1. PICK j \in [trigger : Triggers, later : BOOLEAN] :
            todo' = [todo EXCEPT ![r] = Enqueued(@, j)]
      BY <1>3 DEF EnqueueJob
    <2>2. j \in RebalanceJob
      BY DEF RebalanceJob, AllTriggers
    <2>3. todo'[r] = Enqueued(todo[r], j) /\ (r # x => todo'[x] = todo[x])
      BY <2>1, SchedTypes
    <2> QED
      BY <1>2, <2>2, <2>3
  <1>4. ASSUME NEW r \in Replicas, JobFallsDue(r) PROVE Len(todo'[x]) >= Len(todo[x])
    <2>1. PICK k \in DOMAIN todo[r] : todo' = [todo EXCEPT ![r][k].later = FALSE]
      BY <1>4 DEF JobFallsDue
    <2>2. CASE x = r
      <3>1. PICK q, z : q = todo[r] /\ z = [q[k] EXCEPT !.later = FALSE]
        OBVIOUS
      <3>2. q \in Seq(RebalanceJob) /\ k \in 1 .. Len(q) /\ z \in RebalanceJob
        <4>1. q \in Seq(RebalanceJob) /\ k \in 1 .. Len(q) /\ q[k] \in RebalanceJob
          BY <3>1, SchedTypes
        <4> QED
          BY <3>1, <4>1 DEF RebalanceJob
      <3>3. todo'[x] = [q EXCEPT ![k] = z]
        BY <2>1, <2>2, <3>1, SchedTypes
      <3>4. Len([q EXCEPT ![k] = z]) = Len(q) /\ Len(q) \in Nat
        BY <3>2
      <3> QED
        BY <2>2, <3>1, <3>3, <3>4
    <2>3. CASE x # r
      BY <1>1, <2>1, <2>3, SchedTypes
    <2> QED
      BY <2>2, <2>3
  <1>5. ASSUME NEW r \in Replicas, ReplicaCrashes(r) PROVE Len(todo'[x]) >= Len(todo[x])
    BY <1>1, <1>5, SchedTypes DEF ReplicaCrashes
  <1>6. ASSUME NEW r, NEW t, <<r, t>> \in Slots, BeginTick(r, t) \/ TickStep(r, t)
        PROVE  Len(todo'[x]) >= Len(todo[x])
    <2>1. r \in Replicas /\ todo[r] \in Seq(RebalanceJob) /\ Sorted(todo[r])
      BY <1>6, SchedTypes
    <2>2. ASSUME NEW open, Continue(r, t, todo[r], open), open \/ r # x
          PROVE  Len(todo'[x]) >= Len(todo[x])
      <3>1. /\ open => todo' = [todo EXCEPT ![r] = todo[r]]
            /\ x # r => todo'[x] = todo[x]
        BY <1>6, <2>1, <2>2, ContinueInv, EmittedBy
      <3>2. todo'[x] = todo[x]
        BY <2>2, <3>1, SchedTypes
      <3> QED
        BY <1>1, <3>2
    <2>3. ASSUME NEW open, Continue(r, t, todo[r], open), r = x => open
          PROVE  Len(todo'[x]) >= Len(todo[x])
      BY <2>2, <2>3
    <2>4. CASE BeginTick(r, t)
      <3>1. r # x
        BY <2>4 DEF BeginTick
      <3>2. todo' = todo \/ Continue(r, t, todo[r], FALSE)
        BY <2>4 DEF BeginTick
      <3> QED
        BY <1>1, <2>3, <3>1, <3>2
    <2>5. CASE RenewLease(r, t) \/ GasAccepted(r, t)
      BY <1>1, <2>5 DEF RenewLease, GasAccepted
    <2>6. CASE \/ AcquireLease(r, t) \/ LeaseStoreFails(r, t) \/ SkipForGas(r, t)
               \/ ReleaseLease(r, t)
      <3>1. todo' = todo \/ Continue(r, t, todo[r], tripped[r])
        BY <2>6 DEF AcquireLease, LeaseStoreFails, SkipForGas, ReleaseLease
      <3> QED
        BY <1>1, <2>3, <3>1
    <2>7. CASE FinishJob(r, t)
      <3>1. /\ todo' = todo \/ Continue(r, t, todo[r], tripped'[r])
            /\ r = x => tripped'[r]
        BY <2>7, SchedTypes DEF FinishJob
      <3>2. PICK open : open = tripped'[r]
        OBVIOUS
      <3>3. todo' = todo \/ (Continue(r, t, todo[r], open) /\ (r = x => open))
        BY <3>1, <3>2
      <3> QED
        BY <1>1, <2>3, <3>3
    <2>8. CASE EmitScheduled(r, t)
      <3>1. PICK late \in BOOLEAN :
              Continue(r, t, Enqueued(todo[r], [trigger |-> "scheduled", later |-> late]), tripped[r])
        BY <2>8 DEF EmitScheduled
      <3>2. PICK j, q : j = [trigger |-> "scheduled", later |-> late] /\ q = Enqueued(todo[r], j)
        OBVIOUS
      <3>3. j \in RebalanceJob
        BY <3>2, SchedTypes DEF RebalanceJob
      <3>4. q \in Seq(RebalanceJob) /\ Sorted(q)
        BY <2>1, <3>2, <3>3, EnqueuedSorted
      <3>5. Emitted(r)
        BY <1>6, <2>8, SchedTypes, EmittedBy DEF EmitScheduled, TickStands
      <3>6. /\ tripped[r] => todo' = [todo EXCEPT ![r] = q]
            /\ x # r => todo'[x] = todo[x]
        BY <1>6, <3>1, <3>2, <3>4, <3>5, ContinueInv
      <3>7. CASE x = r
        <4>1. todo'[r] = Enqueued(todo[r], j)
          BY <2>1, <3>2, <3>6, <3>7, SchedTypes
        <4> QED
          BY <1>2, <2>1, <3>3, <3>7, <4>1
      <3> QED
        BY <1>1, <3>6, <3>7
    <2> QED
      BY <1>6, <2>4, <2>5, <2>6, <2>7, <2>8 DEF TickStep
  <1>7. CASE SchedNext
    <2>1. ASSUME NEW s \in Slots, BeginTick(s[1], s[2]) \/ TickStep(s[1], s[2])
          PROVE  Len(todo'[x]) >= Len(todo[x])
      <3>1. <<s[1], s[2]>> \in Slots
        BY SchedTypes
      <3> QED
        BY <1>6, <2>1, <3>1
    <2>2. ASSUME NEW r \in Replicas, SetInterval(r) \/ IntervalElapses(r)
          PROVE  Len(todo'[x]) >= Len(todo[x])
      BY <1>1, <2>2 DEF SetInterval, IntervalElapses
    <2>3. ASSUME NEW key \in Intervals, LeaseLapses(key) PROVE Len(todo'[x]) >= Len(todo[x])
      BY <1>1, <2>3 DEF LeaseLapses
    <2> QED
      BY <1>3, <1>4, <1>5, <1>7, <2>1, <2>2, <2>3 DEF SchedNext
  <1>8. CASE UNCHANGED schedVars
    BY <1>1, <1>8 DEF schedVars
  <1> QED
    BY <1>7, <1>8

\* In a sorted queue no job is more urgent than the first.
LEMMA FirstIsUrgent ==
  ASSUME SchedInv, NEW r \in Replicas, todo[r] # <<>>, NEW k \in DOMAIN todo[r]
  PROVE  PRIORITY[todo[r][k].trigger] >= PRIORITY[Head(todo[r]).trigger]
  <1>1. PICK q : q = todo[r]
    OBVIOUS
  <1>2. /\ q \in Seq(RebalanceJob) /\ Sorted(q) /\ q # <<>> /\ k \in 1 .. Len(q)
        /\ Len(q) \in Nat /\ Head(q) = q[1] /\ 1 \in 1 .. Len(q)
        /\ q[1] \in RebalanceJob /\ q[k] \in RebalanceJob
    BY <1>1, SchedTypes
  <1>3. k = 1 \/ ~SortsBefore(q[k], q[1])
    BY <1>2 DEF Sorted
  <1>4. PRIORITY[q[k].trigger] \in 0 .. 3 /\ PRIORITY[q[1].trigger] \in 0 .. 3
    BY <1>2, JobPriority
  <1>5. k = 1 \/ ~(PRIORITY[q[k].trigger] < PRIORITY[q[1].trigger])
    BY <1>3 DEF SortsBefore
  <1>6. PRIORITY[q[k].trigger] >= PRIORITY[q[1].trigger]
    BY <1>4, <1>5
  <1> QED
    BY <1>1, <1>2, <1>6

LEMMA OneReplicaHolds ==
  ASSUME SchedInv
  PROVE  NeverTwoAtOnce
  <1> SUFFICES ASSUME NEW r \in Replicas, NEW s \in Replicas, Emitted(r), Emitted(s), changes = 0,
                      r \notin astray, s \notin astray
               PROVE  r = s
    BY DEF NeverTwoAtOnce
  <1>1. HoldsLease(r) /\ HoldsLease(s) /\ interval[r] = interval[s]
    BY DEF SchedInv
  <1> QED
    BY <1>1 DEF HoldsLease

(***************************************************************************)
(* The replicas schedule as one, for any number of replicas, ticks under    *)
(* way at once, jobs, intervals and lapses of a lease: unless a replica     *)
(* lost its lease under the job one at most rebalances, urgent jobs come    *)
(* first, and a streak of failures trips the breaker, which holds the queue.*)
(***************************************************************************)
THEOREM SchedulerSafe == SchedSpec => SchedulerSafety
  <1>1. SchedInv => SchedTypeOK /\ NeverTwoAtOnce /\ StreakTrips
    BY OneReplicaHolds DEF SchedInv
  <1>2. SchedInv /\ [SchedNext]_schedVars =>
          [\A r \in Replicas :
             Len(todo'[r]) < Len(todo[r]) /\ r \notin deadReplicas' =>
               LET started == Head(todo[r]) IN
               \A k \in DOMAIN todo[r] :
                 PRIORITY[todo[r][k].trigger] >= PRIORITY[started.trigger]]_schedVars
    BY FirstIsUrgent
  <1>3. SchedInv /\ [SchedNext]_schedVars =>
          [\A r \in Replicas : tripped[r] /\ r \notin deadReplicas'
             => Len(todo'[r]) >= Len(todo[r])]_schedVars
    BY BreakerHolds
  <1>4. SchedSpec => []SchedInv
    BY SchedInitInv, SchedStepInv, PTL DEF SchedSpec
  <1>5. SchedSpec => UrgentFirst
    BY <1>2, <1>4, PTL DEF SchedSpec, UrgentFirst
  <1>6. SchedSpec => BreakerHoldsQueue
    BY <1>3, <1>4, PTL DEF SchedSpec, BreakerHoldsQueue
  <1> QED
    BY <1>1, <1>4, <1>5, <1>6, PTL DEF SchedulerSafety

-----------------------------------------------------------------------------
(***************************************************************************)
(* Hot-standby failover (failover.ts).  Whoever has claimed the lease, in   *)
(* the record, in what an instance has loaded of it or in a write that is   *)
(* under way, there is a primary with at most its number, until one crashes *)
(* or steps down: an instance only gives way to a lower number.             *)
(***************************************************************************)

Claims(claim) == claim.written => \E p \in Agents : primary[p] /\ p <= claim.primaryId

ClaimInv ==
  /\ Claims(record)
  /\ \A a \in Agents :
       /\ Claims(seenLease[a])
       /\ poll[a] = "saving" \/ a \in beating => \E p \in Agents : primary[p] /\ p <= a

FailoverInv == FailoverTypeOK /\ (~departed => ClaimInv)

Claimed == [primaryId : Agents, fresh : BOOLEAN, written : {TRUE}]

LEMMA LeaseFields ==
  ASSUME NEW claim \in FailoverLease
  PROVE  /\ claim.written \in BOOLEAN /\ claim.fresh \in BOOLEAN
         /\ claim.written => claim.primaryId \in Agents
  <1>1. CASE claim \in Claimed
    BY <1>1 DEF Claimed
  <1>2. CASE claim = NoRecord
    BY <1>2 DEF NoRecord
  <1> QED
    BY <1>1, <1>2 DEF FailoverLease, Claimed

LEMMA LeaseStales ==
  ASSUME NEW claim \in FailoverLease, claim.fresh
  PROVE  /\ [claim EXCEPT !.fresh = FALSE] \in FailoverLease
         /\ [claim EXCEPT !.fresh = FALSE].written = claim.written
         /\ [claim EXCEPT !.fresh = FALSE].primaryId = claim.primaryId
  <1>1. claim \in Claimed
    <2>1. ~NoRecord.fresh
      BY DEF NoRecord
    <2> QED
      BY <2>1 DEF FailoverLease, Claimed
  <1>2. [claim EXCEPT !.fresh = FALSE] \in Claimed
    BY <1>1 DEF Claimed
  <1> QED
    BY <1>1, <1>2 DEF FailoverLease, Claimed

LEMMA Leases ==
  /\ NoRecord \in FailoverLease /\ ~NoRecord.written
  /\ \A a \in Agents : /\ Written(a) \in FailoverLease
                       /\ Written(a).primaryId = a /\ Written(a).written
  <1>1. NoRecord \in FailoverLease /\ ~NoRecord.written
    BY DEF FailoverLease, NoRecord
  <1>2. ASSUME NEW a \in Agents
        PROVE  /\ Written(a) \in Claimed /\ Written(a).primaryId = a /\ Written(a).written
    BY DEF Claimed, Written
  <1> QED
    BY <1>1, <1>2 DEF FailoverLease, Claimed

LEMMA FailoverInitInv == FailoverInit => FailoverInv
  <1> SUFFICES ASSUME FailoverInit PROVE FailoverInv
    OBVIOUS
  <1>1. FailoverTypeOK
    <2>1. 0 \in 0 .. MaxFaults /\ FALSE \in BOOLEAN
      BY FailoverAssumption
    <2> QED
      BY <2>1, Leases DEF FailoverInit, FailoverTypeOK
  <1>2. ClaimInv
    BY Leases DEF FailoverInit, ClaimInv, Claims
  <1> QED
    BY <1>1, <1>2 DEF FailoverInv

\* A step that leaves every primary one, or replaces it by a lower one, keeps
\* the claims that were there.
LEMMA ClaimsStay ==
  ASSUME FailoverInv, NEW claim \in FailoverLease, Claims(claim),
         \A p \in Agents : primary[p] => \E o \in Agents : primary'[o] /\ o <= p
  PROVE  claim.written => \E p \in Agents : primary'[p] /\ p <= claim.primaryId
  <1> SUFFICES ASSUME claim.written
               PROVE  \E p \in Agents : primary'[p] /\ p <= claim.primaryId
    OBVIOUS
  <1>1. claim.primaryId \in Nat /\ \A p \in Agents : p \in Nat
    BY LeaseFields, FailoverAssumption
  <1>2. PICK p \in Agents : primary[p] /\ p <= claim.primaryId
    BY DEF Claims
  <1>3. PICK o \in Agents : primary'[o] /\ o <= p
    BY <1>2
  <1> QED
    BY <1>1, <1>2, <1>3

LEMMA ClaimsGoOn ==
  ASSUME FailoverInv, ~departed, FailoverTypeOK',
         \A p \in Agents : primary[p] => \E o \in Agents : primary'[o] /\ o <= p,
         \/ record' = record
         \/ record.fresh /\ record' = [record EXCEPT !.fresh = FALSE]
         \/ \E a \in Agents : record' = Written(a) /\ (poll[a] = "saving" \/ a \in beating),
         \A a \in Agents : \/ seenLease'[a] \in {seenLease[a], record, NoRecord},
         \A a \in Agents :
           poll'[a] = "saving" \/ a \in beating' => \/ poll[a] = "saving" \/ a \in beating
                                                    \/ primary[a] \/ primary'[a]
  PROVE  ClaimInv'
  <1>1. record \in FailoverLease /\ NoRecord \in FailoverLease /\ \A a \in Agents : seenLease[a] \in FailoverLease
    BY Leases DEF FailoverInv, FailoverTypeOK
  <1>2. Claims(record) /\ Claims(NoRecord) /\ \A a \in Agents : Claims(seenLease[a])
    BY Leases DEF FailoverInv, ClaimInv, Claims
  <1>3. ASSUME NEW a \in Agents, poll[a] = "saving" \/ a \in beating \/ primary[a] \/ primary'[a]
        PROVE  \E p \in Agents : primary'[p] /\ p <= a
    <2>1. a \in Nat /\ a <= a /\ \A p \in Agents : p \in Nat
      BY FailoverAssumption
    <2>2. CASE primary'[a]
      BY <2>1, <2>2
    <2>3. CASE ~primary'[a]
      <3>1. PICK p \in Agents : primary[p] /\ p <= a
        BY <1>3, <2>1, <2>3 DEF FailoverInv, ClaimInv
      <3>2. PICK o \in Agents : primary'[o] /\ o <= p
        BY <3>1
      <3> QED
        BY <2>1, <3>1, <3>2
    <2> QED
      BY <2>2, <2>3
  <1>4. record'.written => \E p \in Agents : primary'[p] /\ p <= record'.primaryId
    <2>1. CASE record' = record
      <3>1. PICK z : z = record
        OBVIOUS
      <3> QED
        BY <1>1, <1>2, <2>1, <3>1, ClaimsStay
    <2>2. CASE record.fresh /\ record' = [record EXCEPT !.fresh = FALSE]
      <3>1. PICK z : z = record
        OBVIOUS
      <3>2. z.written => \E p \in Agents : primary'[p] /\ p <= z.primaryId
        BY <1>1, <1>2, <3>1, ClaimsStay
      <3>3. record'.written = z.written /\ record'.primaryId = z.primaryId
        BY <1>1, <2>2, <3>1, LeaseStales
      <3> QED
        BY <3>2, <3>3
    <2>3. ASSUME NEW a \in Agents, record' = Written(a), poll[a] = "saving" \/ a \in beating
          PROVE  record'.written => \E p \in Agents : primary'[p] /\ p <= record'.primaryId
      BY <1>3, <2>3, Leases
    <2> QED
      BY <2>1, <2>2, <2>3
  <1>5. ASSUME NEW a \in Agents
        PROVE  seenLease'[a].written => \E p \in Agents : primary'[p] /\ p <= seenLease'[a].primaryId
    <2>1. PICK z : z = seenLease'[a]
      OBVIOUS
    <2>2. z \in FailoverLease /\ Claims(z)
      BY <1>1, <1>2, <2>1
    <2> QED
      BY <2>1, <2>2, ClaimsStay
  <1> QED
    BY <1>3, <1>4, <1>5 DEF ClaimInv, Claims


LEMMA FailoverStepInv ==
  ASSUME FailoverInv, [FailoverNext]_failoverVars
  PROVE  FailoverInv'
  <1> USE DEF FailoverInv
  <1>0. /\ primary \in [Agents -> BOOLEAN]
        /\ poll \in [Agents -> {"down", "starting", "startLoaded", "idle", "loaded", "saving"}]
        /\ seenLease \in [Agents -> FailoverLease] /\ record \in FailoverLease
        /\ beating \subseteq Agents /\ departed \in BOOLEAN /\ faults \in 0 .. MaxFaults
        /\ MaxFaults \in Nat /\ Agents \subseteq Nat
    BY FailoverAssumption DEF FailoverTypeOK
  <1>1. \A p \in Agents : p <= p
    BY <1>0
  <1>2. CASE UNCHANGED failoverVars
    <2>1. FailoverTypeOK'
      BY <1>2 DEF failoverVars, FailoverTypeOK
    <2> QED
      BY <1>1, <1>2, <2>1, ClaimsGoOn DEF failoverVars
  <1>3. ASSUME NEW a \in Agents, StartInstance(a) PROVE FailoverInv'
    <2>1. FailoverTypeOK'
      BY <1>0, <1>3 DEF StartInstance, AtStep, FailoverTypeOK
    <2> QED
      BY <1>0, <1>1, <1>3, <2>1, ClaimsGoOn DEF StartInstance, AtStep
  <1>4. ASSUME NEW a \in Agents, LoadLease(a) PROVE FailoverInv'
    <2>1. FailoverTypeOK'
      BY <1>0, <1>4 DEF LoadLease, AtStep, FailoverTypeOK
    <2>2. \A b \in Agents : seenLease'[b] \in {seenLease[b], record}
      BY <1>0, <1>4 DEF LoadLease
    <2>3. \A b \in Agents : poll'[b] = "saving" => poll[b] = "saving"
      BY <1>0, <1>4 DEF LoadLease, AtStep
    <2> QED
      BY <1>0, <1>1, <1>4, <2>1, <2>2, <2>3, ClaimsGoOn DEF LoadLease
  <1>5. ASSUME NEW a \in Agents, Bootstrap(a) \/ CheckStandby(a) PROVE FailoverInv'
    <2>1. /\ seenLease' = [seenLease EXCEPT ![a] = NoRecord]
          /\ UNCHANGED <<record, beating, departed, faults>>
          /\ \/ poll' = [poll EXCEPT ![a] = "idle"] /\ UNCHANGED primary
             \/ poll' = [poll EXCEPT ![a] = "saving"] /\ primary' = [primary EXCEPT ![a] = TRUE]
      BY <1>5 DEF Bootstrap, CheckStandby, TakeLease, AtStep, Settle
    <2>2. FailoverTypeOK'
      BY <1>0, <2>1, Leases DEF FailoverTypeOK
    <2>3. \A b \in Agents : primary[b] => primary'[b]
      BY <1>0, <2>1
    <2>4. \A b \in Agents : seenLease'[b] \in {seenLease[b], NoRecord}
      BY <1>0, <2>1
    <2>5. \A b \in Agents : poll'[b] = "saving" => poll[b] = "saving" \/ primary'[b]
      BY <1>0, <2>1
    <2> QED
      BY <1>1, <2>1, <2>2, <2>3, <2>4, <2>5, ClaimsGoOn
  <1>6. ASSUME NEW a \in Agents, CheckPrimary(a) PROVE FailoverInv'
    <2>1. /\ seenLease' = [seenLease EXCEPT ![a] = NoRecord]
          /\ UNCHANGED <<record, beating, departed, faults>>
          /\ primary[a]
          /\ \/ /\ poll' = [poll EXCEPT ![a] = "idle"] /\ primary' = [primary EXCEPT ![a] = FALSE]
                /\ seenLease[a].written /\ seenLease[a].primaryId < a
             \/ poll' = [poll EXCEPT ![a] = "saving"] /\ UNCHANGED primary
      BY <1>6 DEF CheckPrimary, Yields, AtStep, Settle
    <2>2. FailoverTypeOK'
      BY <1>0, <2>1, Leases DEF FailoverTypeOK
    <2>3. ASSUME ~departed, NEW p \in Agents, primary[p]
          PROVE  \E o \in Agents : primary'[o] /\ o <= p
      <3>1. CASE UNCHANGED primary
        BY <1>1, <2>3, <3>1
      <3>2. CASE /\ primary' = [primary EXCEPT ![a] = FALSE]
                 /\ seenLease[a].written /\ seenLease[a].primaryId < a
        <4>1. PICK o \in Agents : primary[o] /\ o <= seenLease[a].primaryId
          BY <2>3, <3>2 DEF ClaimInv, Claims
        <4>2. seenLease[a].primaryId \in Nat
          BY <1>0, <3>2, LeaseFields
        <4>3. o < a /\ primary'[o]
          BY <1>0, <3>2, <4>1, <4>2
        <4>4. CASE p = a
          BY <1>0, <4>3, <4>4
        <4>5. CASE p # a
          BY <1>0, <1>1, <2>3, <3>2, <4>5
        <4> QED
          BY <4>4, <4>5
      <3> QED
        BY <2>1, <3>1, <3>2
    <2>4. \A b \in Agents : seenLease'[b] \in {seenLease[b], NoRecord}
      BY <1>0, <2>1
    <2>5. \A b \in Agents : poll'[b] = "saving" => poll[b] = "saving" \/ primary[b]
      BY <1>0, <2>1
    <2> QED
      BY <2>1, <2>2, <2>3, <2>4, <2>5, ClaimsGoOn
  <1>7. ASSUME NEW a \in Agents, SaveLease(a) PROVE FailoverInv'
    <2>1. FailoverTypeOK'
      BY <1>0, <1>7, Leases DEF SaveLease, AtStep, FailoverTypeOK
    <2>2. \A b \in Agents : poll'[b] = "saving" => poll[b] = "saving"
      BY <1>0, <1>7 DEF SaveLease, AtStep
    <2> QED
      BY <1>1, <1>7, <2>1, <2>2, ClaimsGoOn DEF SaveLease
  <1>8. ASSUME NEW a \in Agents, SaveFails(a) PROVE FailoverInv'
    <2>1. FailoverTypeOK'
      BY <1>0, <1>8 DEF SaveFails, AtStep, FailoverTypeOK
    <2>2. \A b \in Agents : poll'[b] = "saving" => poll[b] = "saving"
      BY <1>0, <1>8 DEF SaveFails, AtStep
    <2> QED
      BY <1>1, <1>8, <2>1, <2>2, ClaimsGoOn DEF SaveFails
  <1>9. ASSUME NEW a \in Agents, BeginBeat(a) PROVE FailoverInv'
    <2>1. FailoverTypeOK'
      BY <1>0, <1>9 DEF BeginBeat, FailoverTypeOK
    <2> QED
      BY <1>1, <1>9, <2>1, ClaimsGoOn DEF BeginBeat
  <1>10. ASSUME NEW a \in Agents, BeatLands(a) PROVE FailoverInv'
    <2>1. FailoverTypeOK'
      BY <1>0, <1>10, Leases DEF BeatLands, FailoverTypeOK
    <2> QED
      BY <1>1, <1>10, <2>1, ClaimsGoOn DEF BeatLands
  <1>11. ASSUME NEW a \in Agents, StepDown(a) PROVE FailoverInv'
    BY <1>0, <1>11 DEF StepDown, FailoverTypeOK
  <1>12. CASE LeaseAges
    <2>1. FailoverTypeOK'
      <3>1. faults' \in 0 .. MaxFaults
        <4>1. CASE faults' = faults
          BY <1>0, <4>1
        <4>2. CASE faults' = faults + 1 /\ faults < MaxFaults
          BY <1>0, <4>2
        <4> QED
          BY <1>12, <4>1, <4>2 DEF LeaseAges
      <3> QED
        BY <1>0, <1>12, <3>1, LeaseStales DEF LeaseAges, FailoverTypeOK
    <2> QED
      BY <1>1, <1>12, <2>1, ClaimsGoOn DEF LeaseAges
  <1>13. ASSUME NEW a \in Agents, AgentCrashes(a) PROVE FailoverInv'
    <2>1. FailoverTypeOK'
      <3>1. /\ primary' = [primary EXCEPT ![a] = FALSE] /\ poll' = [poll EXCEPT ![a] = "down"]
            /\ seenLease' = [seenLease EXCEPT ![a] = NoRecord] /\ beating' = beating \ {a}
            /\ departed' = (departed \/ primary[a]) /\ faults' = faults + 1 /\ faults < MaxFaults
            /\ record' = record
        BY <1>13 DEF AgentCrashes, AtStep, Settle
      <3>2. departed' \in BOOLEAN
        BY <1>0, <3>1
      <3> QED
        BY <1>0, <3>1, <3>2, Leases DEF FailoverTypeOK
    <2>2. ASSUME ~departed' PROVE ClaimInv'
      <3>1. ~departed /\ ~primary[a]
        BY <1>13, <2>2 DEF AgentCrashes
      <3>2. \A p \in Agents : primary[p] => primary'[p]
        BY <1>0, <1>13, <3>1 DEF AgentCrashes
      <3>3. \A b \in Agents : seenLease'[b] \in {seenLease[b], NoRecord}
        BY <1>0, <1>13 DEF AgentCrashes, Settle
      <3>4. \A b \in Agents : poll'[b] = "saving" \/ b \in beating' => poll[b] = "saving" \/ b \in beating
        BY <1>0, <1>13 DEF AgentCrashes, AtStep
      <3> QED
        BY <1>1, <1>13, <2>1, <3>1, <3>2, <3>3, <3>4, ClaimsGoOn DEF AgentCrashes
    <2> QED
      BY <2>1, <2>2
  <1> QED
    BY <1>2, <1>3, <1>4, <1>5, <1>6, <1>7, <1>8, <1>9, <1>10, <1>11, <1>12, <1>13
       DEF FailoverNext, Check, Heartbeat

(***************************************************************************)
(* Failover never leaves the agent without a primary of its own doing, for  *)
(* any number of instances, faults and stale loads: as long as no primary   *)
(* crashed or stepped down, a written record means that there is one.       *)
(***************************************************************************)
THEOREM FailoverKeepsPrimary == FailoverSpec => [](FailoverTypeOK /\ TieBreakKeepsPrimary)
  <1>1. FailoverInv => FailoverTypeOK /\ TieBreakKeepsPrimary
    BY DEF FailoverInv, ClaimInv, Claims, TieBreakKeepsPrimary, Primaries
  <1>2. FailoverSpec => []FailoverInv
    BY FailoverInitInv, FailoverStepInv, PTL DEF FailoverSpec
  <1> QED
    BY <1>1, <1>2, PTL


-----------------------------------------------------------------------------
(***************************************************************************)
(* The client of Stellar RPC (rpcClient.ts).  What a call has sent follows  *)
(* from where it stands: one request at the primary endpoint, a second one  *)
(* at the fallback only if it opted in.                                     *)
(***************************************************************************)

RpcInv ==
  /\ RpcTypeOK /\ ClosedIsHealthy
  /\ \A c \in RpcCalls :
       /\ rpcCall[c] = "idle" => tries[c] = 0
       /\ rpcCall[c] = "primary" => tries[c] = 1
       /\ rpcCall[c] = "fallback" => c \in OptedIn

LEMMA RpcTypes ==
  ASSUME RpcInv
  PROVE  /\ circuit \in [Endpoints -> {"closed", "open", "half-open"}]
         /\ failureTimes \in [Endpoints -> Nat] /\ waited \in [Endpoints -> BOOLEAN]
         /\ rpcCall \in [RpcCalls -> {"primary", "fallback", "idle"}]
         /\ tries \in [RpcCalls -> 0 .. 2]
         /\ "primary" \in Endpoints /\ "fallback" \in Endpoints
         /\ \A e : e \in Endpoints <=> e \in {"primary", "fallback"}
         /\ \A e \in Endpoints : circuit[e] = "closed" => failureTimes[e] < 3
  BY DEF RpcInv, RpcTypeOK, Endpoints, ClosedIsHealthy, FAILURE_THRESHOLD

LEMMA RpcGoesOn ==
  ASSUME RpcInv,
         circuit' \in [Endpoints -> {"closed", "open", "half-open"}],
         failureTimes' \in [Endpoints -> Nat], waited' \in [Endpoints -> BOOLEAN],
         \A e \in Endpoints : circuit'[e] = "closed" => failureTimes'[e] < 3,
         rpcCall' \in [RpcCalls -> {"primary", "fallback", "idle"}],
         tries' \in [RpcCalls -> 0 .. 2],
         \A c \in RpcCalls :
           /\ rpcCall'[c] = "idle" => tries'[c] = 0
           /\ rpcCall'[c] = "primary" => tries'[c] = 1
           /\ rpcCall'[c] = "fallback" => c \in OptedIn
  PROVE  RpcInv'
  BY DEF RpcInv, RpcTypeOK, Endpoints, ClosedIsHealthy, FAILURE_THRESHOLD

\* Where a call stands afterwards and what it has sent.
LEMMA CallMoves ==
  ASSUME RpcInv, NEW c \in RpcCalls,
         NEW to \in {"primary", "fallback", "idle"}, NEW n \in 0 .. 2,
         rpcCall' = [rpcCall EXCEPT ![c] = to], tries' = [tries EXCEPT ![c] = n],
         to = "idle" => n = 0, to = "primary" => n = 1, to = "fallback" => c \in OptedIn
  PROVE  /\ rpcCall' \in [RpcCalls -> {"primary", "fallback", "idle"}]
         /\ tries' \in [RpcCalls -> 0 .. 2]
         /\ \A x \in RpcCalls :
              /\ rpcCall'[x] = "idle" => tries'[x] = 0
              /\ rpcCall'[x] = "primary" => tries'[x] = 1
              /\ rpcCall'[x] = "fallback" => x \in OptedIn
  <1>1. rpcCall' \in [RpcCalls -> {"primary", "fallback", "idle"}] /\ tries' \in [RpcCalls -> 0 .. 2]
    BY RpcTypes
  <1>2. \A x \in RpcCalls : /\ rpcCall'[x] = IF x = c THEN to ELSE rpcCall[x]
                            /\ tries'[x] = IF x = c THEN n ELSE tries[x]
    BY RpcTypes
  <1> QED
    BY <1>1, <1>2 DEF RpcInv

LEMMA RpcInitInv == RpcInit => RpcInv
  <1> SUFFICES ASSUME RpcInit PROVE RpcInv
    OBVIOUS
  <1>1. 0 \in Nat /\ FALSE \in BOOLEAN /\ 0 \in 0 .. 2 /\ 0 < 3
    OBVIOUS
  <1>2. RpcTypeOK
    BY <1>1 DEF RpcInit, RpcTypeOK
  <1> QED
    BY <1>1, <1>2 DEF RpcInit, RpcInv, ClosedIsHealthy, FAILURE_THRESHOLD

LEMMA RpcStepInv ==
  ASSUME RpcInv, [RpcNext]_rpcVars
  PROVE  RpcInv'
  <1>1. CASE UNCHANGED rpcVars
    BY <1>1, RpcTypes, RpcGoesOn DEF rpcVars, RpcInv
  <1>2. ASSUME NEW c \in RpcCalls, CallPrimary(c) PROVE RpcInv'
    <2>1. /\ circuit' \in [Endpoints -> {"closed", "open", "half-open"}]
          /\ \A e \in Endpoints : circuit'[e] = "closed" => circuit[e] = "closed"
          /\ UNCHANGED <<failureTimes, waited>>
      <3>1. PICK s : s = IF circuit["primary"] = "open" THEN "half-open" ELSE circuit["primary"]
        OBVIOUS
      <3>2. circuit' = [circuit EXCEPT !["primary"] = s] /\ UNCHANGED <<failureTimes, waited>>
        BY <1>2, <3>1, RpcTypes DEF CallPrimary
      <3>3. s \in {"closed", "open", "half-open"} /\ (s = "closed" => circuit["primary"] = "closed")
        BY <3>1, RpcTypes
      <3> QED
        BY <3>2, <3>3, RpcTypes
    <2>2. tries[c] + 1 = 1
      BY <1>2 DEF CallPrimary, RpcInv
    <2>3. rpcCall' = [rpcCall EXCEPT ![c] = "primary"] /\ tries' = [tries EXCEPT ![c] = 1]
      BY <1>2, <2>2, RpcTypes DEF CallPrimary, Asks
    <2>4. 1 \in 0 .. 2
      OBVIOUS
    <2>5. /\ rpcCall' \in [RpcCalls -> {"primary", "fallback", "idle"}]
          /\ tries' \in [RpcCalls -> 0 .. 2]
          /\ \A x \in RpcCalls :
               /\ rpcCall'[x] = "idle" => tries'[x] = 0
               /\ rpcCall'[x] = "primary" => tries'[x] = 1
               /\ rpcCall'[x] = "fallback" => x \in OptedIn
      BY <2>3, <2>4, CallMoves
    <2> QED
      BY <2>1, <2>5, RpcTypes, RpcGoesOn
  <1>3. ASSUME NEW c \in RpcCalls, CallFallback(c) PROVE RpcInv'
    <2>1. UNCHANGED <<circuit, failureTimes, waited>> /\ c \in OptedIn
      BY <1>3 DEF CallFallback
    <2>2. tries[c] + 1 = 1
      BY <1>3 DEF CallFallback, RpcInv
    <2>3. rpcCall' = [rpcCall EXCEPT ![c] = "fallback"] /\ tries' = [tries EXCEPT ![c] = 1]
      BY <1>3, <2>2, RpcTypes DEF CallFallback, Asks
    <2>4. 1 \in 0 .. 2
      OBVIOUS
    <2>5. /\ rpcCall' \in [RpcCalls -> {"primary", "fallback", "idle"}]
          /\ tries' \in [RpcCalls -> 0 .. 2]
          /\ \A x \in RpcCalls :
               /\ rpcCall'[x] = "idle" => tries'[x] = 0
               /\ rpcCall'[x] = "primary" => tries'[x] = 1
               /\ rpcCall'[x] = "fallback" => x \in OptedIn
      BY <2>1, <2>3, <2>4, CallMoves
    <2> QED
      BY <2>1, <2>5, RpcTypes, RpcGoesOn
  <1>4. ASSUME NEW c \in RpcCalls, CallEnds(c)
        PROVE  /\ rpcCall' \in [RpcCalls -> {"primary", "fallback", "idle"}]
               /\ tries' \in [RpcCalls -> 0 .. 2]
               /\ \A x \in RpcCalls :
                    /\ rpcCall'[x] = "idle" => tries'[x] = 0
                    /\ rpcCall'[x] = "primary" => tries'[x] = 1
                    /\ rpcCall'[x] = "fallback" => x \in OptedIn
    <2>1. 0 \in 0 .. 2
      OBVIOUS
    <2> QED
      BY <1>4, <2>1, CallMoves DEF CallEnds
  <1>5. ASSUME NEW c \in RpcCalls, CallSucceeds(c) PROVE RpcInv'
    <2>1. PICK e : e = rpcCall[c]
      OBVIOUS
    <2>2. /\ e \in Endpoints /\ CallEnds(c)
          /\ failureTimes' = [failureTimes EXCEPT ![e] = 0]
          /\ circuit' = [circuit EXCEPT ![e] = "closed"]
          /\ waited' = [waited EXCEPT ![e] = FALSE]
      BY <1>5, <2>1, RpcTypes DEF CallSucceeds, Forgets
    <2>3. \A x \in Endpoints : circuit'[x] = "closed" => failureTimes'[x] < 3
      BY <2>2, RpcTypes
    <2>4. /\ circuit' \in [Endpoints -> {"closed", "open", "half-open"}]
          /\ failureTimes' \in [Endpoints -> Nat] /\ waited' \in [Endpoints -> BOOLEAN]
      BY <2>2, RpcTypes
    <2> QED
      BY <1>4, <2>2, <2>3, <2>4, RpcGoesOn
  <1>6. ASSUME NEW c \in RpcCalls, CallFails(c) PROVE RpcInv'
    <2>1. PICK e : e = rpcCall[c]
      OBVIOUS
    <2>2. e \in Endpoints
      BY <1>6, <2>1, RpcTypes DEF CallFails
    <2>3. PICK f : f = IF failureTimes[e] < 3 THEN failureTimes[e] + 1 ELSE failureTimes[e]
      OBVIOUS
    <2>4. failureTimes' = [failureTimes EXCEPT ![e] = f] /\ f \in Nat
      <3>1. failureTimes[e] \in Nat
        BY <2>2, RpcTypes
      <3>2. f \in Nat
        BY <2>3, <3>1
      <3>3. failureTimes' = [failureTimes EXCEPT ![e] =
                               IF failureTimes[e] < 3 THEN failureTimes[e] + 1 ELSE failureTimes[e]]
        BY <1>6, <2>1, <2>2, RpcTypes DEF CallFails, FAILURE_THRESHOLD
      <3> QED
        BY <2>3, <3>2, <3>3
    <2>5. \/ /\ circuit' = [circuit EXCEPT ![e] = "open"] /\ waited' = [waited EXCEPT ![e] = FALSE]
          \/ /\ UNCHANGED <<circuit, waited>>
             /\ ~(failureTimes[e] + 1 >= 3 /\ circuit[e] = "closed")
      BY <1>6, <2>1 DEF CallFails, Opens, FAILURE_THRESHOLD
    <2>6. /\ circuit' \in [Endpoints -> {"closed", "open", "half-open"}]
          /\ failureTimes' \in [Endpoints -> Nat] /\ waited' \in [Endpoints -> BOOLEAN]
      BY <2>2, <2>4, <2>5, RpcTypes
    <2>7. ASSUME NEW x \in Endpoints, circuit'[x] = "closed" PROVE failureTimes'[x] < 3
      <3>1. CASE x # e
        BY <2>2, <2>4, <2>5, <2>7, <3>1, RpcTypes
      <3>2. CASE x = e
        <4>1. failureTimes[e] \in Nat /\ circuit[e] = "closed" /\ ~(failureTimes[e] + 1 >= 3)
          BY <2>2, <2>5, <2>7, <3>2, RpcTypes
        <4>2. failureTimes'[x] = f
          BY <2>2, <2>4, <3>2, RpcTypes
        <4> QED
          BY <2>3, <4>1, <4>2
      <3> QED
        BY <3>1, <3>2
    <2>8. /\ rpcCall' \in [RpcCalls -> {"primary", "fallback", "idle"}]
          /\ tries' \in [RpcCalls -> 0 .. 2]
          /\ \A x \in RpcCalls :
               /\ rpcCall'[x] = "idle" => tries'[x] = 0
               /\ rpcCall'[x] = "primary" => tries'[x] = 1
               /\ rpcCall'[x] = "fallback" => x \in OptedIn
      <3>1. CASE CallEnds(c)
        BY <1>4, <3>1
      <3>2. CASE e = "primary" /\ Retries(c) /\ Asks(c, "fallback")
        <4>1. tries[c] + 1 = 2
          <5>1. rpcCall[c] = "primary"
            BY <2>1, <3>2
          <5>2. tries[c] = 1
            BY <5>1 DEF RpcInv
          <5> QED
            BY <5>2
        <4>2. rpcCall' = [rpcCall EXCEPT ![c] = "fallback"] /\ tries' = [tries EXCEPT ![c] = 2]
          BY <3>2, <4>1, RpcTypes DEF Asks
        <4>3. 2 \in 0 .. 2 /\ c \in OptedIn
          BY <3>2 DEF Retries
        <4> QED
          BY <4>2, <4>3, CallMoves
      <3> QED
        BY <1>6, <2>1, <3>1, <3>2 DEF CallFails
    <2> QED
      BY <2>6, <2>7, <2>8, RpcGoesOn
  <1>7. ASSUME NEW e \in Endpoints, FailuresAge(e) PROVE RpcInv'
    <2>1. /\ failureTimes[e] > 0 /\ failureTimes[e] \in Nat
          /\ failureTimes' = [failureTimes EXCEPT ![e] = failureTimes[e] - 1]
          /\ UNCHANGED <<circuit, waited, rpcCall, tries>>
      BY <1>7, RpcTypes DEF FailuresAge
    <2>2. PICK f : f = failureTimes[e] - 1
      OBVIOUS
    <2>3. f \in Nat /\ f < failureTimes[e] /\ failureTimes' = [failureTimes EXCEPT ![e] = f]
      BY <2>1, <2>2
    <2>4. \A x \in Endpoints : circuit'[x] = "closed" => failureTimes'[x] < 3
      BY <2>1, <2>3, RpcTypes
    <2>5. failureTimes' \in [Endpoints -> Nat]
      BY <2>3, RpcTypes
    <2> QED
      BY <2>1, <2>4, <2>5, RpcTypes, RpcGoesOn DEF RpcInv
  <1>8. ASSUME NEW e \in Endpoints, ResetIntervalPasses(e) PROVE RpcInv'
    <2>1. /\ waited' = [waited EXCEPT ![e] = TRUE]
          /\ UNCHANGED <<circuit, failureTimes, rpcCall, tries>>
      BY <1>8 DEF ResetIntervalPasses
    <2>2. waited' \in [Endpoints -> BOOLEAN]
      BY <2>1, RpcTypes
    <2> QED
      BY <2>1, <2>2, RpcTypes, RpcGoesOn DEF RpcInv
  <1> QED
    BY <1>1, <1>2, <1>3, <1>5, <1>6, <1>7, <1>8 DEF RpcNext, StartCall, EndCall

(***************************************************************************)
(* For any number of overlapping calls: one that did not opt in sends one   *)
(* request at most, and a closed circuit has seen fewer failures lately     *)
(* than the threshold.                                                      *)
(***************************************************************************)
THEOREM RpcSafe == RpcSpec => []RpcSafety
  <1>1. RpcInv => RpcSafety
    <2> SUFFICES ASSUME RpcInv, NEW c \in RpcCalls \ OptedIn PROVE tries[c] <= 1
      BY DEF RpcSafety, RpcInv, SubmissionsNotRetried
    <2>1. rpcCall[c] \in {"primary", "idle"}
      BY RpcTypes DEF RpcInv
    <2> QED
      BY <2>1 DEF RpcInv
  <1>2. RpcSpec => []RpcInv
    BY RpcInitInv, RpcStepInv, PTL DEF RpcSpec
  <1> QED
    BY <1>1, <1>2, PTL


-----------------------------------------------------------------------------
(***************************************************************************)
(* The generated client of the vault (vault.ts).  What became of a call     *)
(* follows from its stage: nothing is sent before "sending", one that is    *)
(* refused was not sent or has failed, and of one that is polled for the    *)
(* transaction is at least as old as the polling, so that it is out of time *)
(* when the polling ends.  A preview is always sent.                        *)
(***************************************************************************)

Unsent == {"begun", "built", "sending"}

CallStands(c) ==
  /\ c.preview => c.kind = "invoke"
  /\ c.kind = "simulate" => c.at \notin {"sending", "polling"}
  /\ c.at \in Unsent => c.fate = "unsent" /\ c.waited = 0
  /\ c.at = "polling" /\ c.fate = "sent" => c.waited <= c.age
  /\ c.at = "returned" /\ c.fate = "sent" => c.age >= ThirtySeconds
  /\ c.at = "refused" => c.fate \in {"unsent", "failed"}
  /\ c.answer # "none" => c.at = "returned"
  /\ c.answer = "value" /\ c.kind = "invoke" => c.fate = "landed"

LandedPreviews == {i \in DOMAIN calls : calls[i].preview /\ calls[i].fate = "landed"}

ClientInv ==
  /\ ClientTypeOK
  /\ \A i \in DOMAIN calls : CallStands(calls[i])
  /\ Cardinality(LandedPreviews) <= previewWindow

LEMMA CallsFinite ==
  ASSUME ClientInv
  PROVE  /\ calls \in Seq(ClientCall) /\ Len(calls) \in Nat /\ DOMAIN calls = 1 .. Len(calls)
         /\ IsFiniteSet(LandedPreviews) /\ Cardinality(LandedPreviews) \in Nat
         /\ previewWindow \in Nat /\ previewWindow <= PreviewLimit /\ PreviewLimit \in Nat
         /\ ThirtySeconds \in Nat \ {0} /\ clientSeq \in [Signers -> Nat]
         /\ \A i \in DOMAIN calls : calls[i] \in ClientCall /\ CallStands(calls[i])
  <1>1. /\ calls \in Seq(ClientCall) /\ Len(calls) \in Nat /\ DOMAIN calls = 1 .. Len(calls)
        /\ previewWindow \in 0 .. PreviewLimit /\ PreviewLimit \in Nat
        /\ ThirtySeconds \in Nat \ {0} /\ clientSeq \in [Signers -> Nat]
    BY ClientAssumption DEF ClientInv, ClientTypeOK
  <1>2. IsFiniteSet(LandedPreviews)
    <2>1. IsFiniteSet(1 .. Len(calls))
      BY <1>1, FS_Interval
    <2>2. LandedPreviews \subseteq 1 .. Len(calls)
      BY <1>1 DEF LandedPreviews
    <2> QED
      BY <2>1, <2>2, FS_Subset
  <1> QED
    BY <1>1, <1>2, FS_CardinalityType DEF ClientInv

\* The previews that have landed stay as many if none lands.
LEMMA PreviewsStay ==
  ASSUME ClientInv, DOMAIN calls \subseteq DOMAIN calls',
         \A i \in DOMAIN calls' : calls'[i].preview /\ calls'[i].fate = "landed" =>
           i \in DOMAIN calls /\ calls[i].preview /\ calls[i].fate = "landed",
         UNCHANGED previewWindow
  PROVE  Cardinality(LandedPreviews') <= previewWindow'
  <1>1. LandedPreviews' \subseteq LandedPreviews
    BY DEF LandedPreviews
  <1>2. PICK s, t : s = LandedPreviews /\ t = LandedPreviews'
    OBVIOUS
  <1>3. IsFiniteSet(s) /\ Cardinality(s) \in Nat /\ Cardinality(s) <= previewWindow /\ t \subseteq s
    BY <1>1, <1>2, CallsFinite DEF ClientInv
  <1>4. Cardinality(t) <= Cardinality(s) /\ Cardinality(t) \in Nat
    BY <1>3, FS_Subset, FS_CardinalityType
  <1>5. previewWindow \in Nat /\ previewWindow' = previewWindow
    BY CallsFinite
  <1>6. Cardinality(t) <= previewWindow'
    BY <1>3, <1>4, <1>5
  <1> QED
    BY <1>2, <1>6

\* One call moves.
LEMMA CallGoesOn ==
  ASSUME ClientInv, NEW i \in DOMAIN calls, NEW c \in ClientCall, CallStands(c),
         calls' = [calls EXCEPT ![i] = c]
  PROVE  /\ calls' \in Seq(ClientCall) /\ Len(calls') = Len(calls)
         /\ DOMAIN calls' = DOMAIN calls
         /\ \A j \in DOMAIN calls : calls'[j] = IF j = i THEN c ELSE calls[j]
         /\ \A j \in DOMAIN calls' : CallStands(calls'[j])
  <1>1. /\ calls' \in Seq(ClientCall) /\ Len(calls') = Len(calls) /\ DOMAIN calls' = DOMAIN calls
        /\ \A j \in DOMAIN calls : calls'[j] = IF j = i THEN c ELSE calls[j]
    BY CallsFinite
  <1>2. ASSUME NEW j \in DOMAIN calls' PROVE CallStands(calls'[j])
    <2>1. PICK z : z = calls'[j]
      OBVIOUS
    <2>2. CallStands(z)
      BY <1>1, <2>1, CallsFinite
    <2> QED
      BY <2>1, <2>2
  <1> QED
    BY <1>1, <1>2

LEMMA ClientCallInv ==
  ASSUME ClientInv, NEW i \in DOMAIN calls, NEW c \in ClientCall, CallStands(c),
         c.preview = calls[i].preview, c.fate = "landed" => calls[i].fate = "landed",
         calls' = [calls EXCEPT ![i] = c], UNCHANGED <<clientSeq, previewWindow>>
  PROVE  ClientInv'
  <1>1. /\ calls' \in Seq(ClientCall) /\ Len(calls') = Len(calls) /\ DOMAIN calls' = DOMAIN calls
        /\ \A j \in DOMAIN calls : calls'[j] = IF j = i THEN c ELSE calls[j]
        /\ \A j \in DOMAIN calls' : CallStands(calls'[j])
    BY CallGoesOn
  <1>2. ASSUME NEW j \in DOMAIN calls', calls'[j].preview, calls'[j].fate = "landed"
        PROVE  j \in DOMAIN calls /\ calls[j].preview /\ calls[j].fate = "landed"
    BY <1>1, <1>2
  <1>3. Cardinality(LandedPreviews') <= previewWindow'
    BY <1>1, <1>2, PreviewsStay
  <1> QED
    BY <1>1, <1>3 DEF ClientInv, ClientTypeOK

\* A preview is made as a call that is sent.
LEMMA PreviewsAreSent ==
  ASSUME NEW m, m \in Previews
  PROVE  KindOf(m) = "invoke"
  <1>1. m \in PreviewCalls.sent /\ PreviewCalls \in Tables
    BY DEF Previews, PreviewCalls, Table, Tables
  <1> QED
    BY <1>1 DEF KindOf


LEMMA ClientInitInv == ClientInit => ClientInv
  <1> SUFFICES ASSUME ClientInit PROVE ClientInv
    OBVIOUS
  <1>1. calls = <<>> /\ DOMAIN calls = {} /\ Len(calls) = 0
    BY DEF ClientInit
  <1>2. MaxCalls \in Nat /\ PreviewLimit \in Nat /\ 0 \in 0 .. PreviewLimit
    BY ClientAssumption
  <1>3. LandedPreviews = {}
    BY <1>1 DEF LandedPreviews
  <1>4. Cardinality(LandedPreviews) = 0
    BY <1>3, FS_EmptySet
  <1>5. ClientTypeOK
    BY <1>1, <1>2 DEF ClientInit, ClientTypeOK
  <1> QED
    BY <1>1, <1>4, <1>5 DEF ClientInit, ClientInv

\* A call that has been sent, or will be, has not grown younger than its polling.
LEMMA AgesStand ==
  ASSUME NEW c \in ClientCall, CallStands(c)
  PROVE  Ages(c) \in ClientCall /\ CallStands(Ages(c)) /\ Ages(c).preview = c.preview
         /\ Ages(c).fate = c.fate /\ Ages(c).at = c.at
  <1>1. ThirtySeconds \in Nat
    BY ClientAssumption
  <1>2. PICK a, w : /\ a = IF c.at \in {"built", "sending"} \/ c.fate = "sent" THEN CapTicks(c.age) ELSE c.age
                    /\ w = IF c.at = "polling" THEN CapTicks(c.waited) ELSE c.waited
    OBVIOUS
  <1>3. c.age \in 0 .. ThirtySeconds + 1 /\ c.waited \in 0 .. ThirtySeconds + 1
    BY DEF ClientCall
  <1>4. ASSUME NEW n \in 0 .. ThirtySeconds + 1
        PROVE  CapTicks(n) \in 0 .. ThirtySeconds + 1 /\ CapTicks(n) >= n
    BY <1>1 DEF CapTicks
  <1>5. a \in 0 .. ThirtySeconds + 1 /\ w \in 0 .. ThirtySeconds + 1 /\ a >= c.age
    <2>1. a = c.age \/ a = CapTicks(c.age)
      BY <1>2
    <2>2. w = c.waited \/ w = CapTicks(c.waited)
      BY <1>2
    <2> QED
      BY <1>1, <1>3, <1>4, <2>1, <2>2
  <1>6. Ages(c) = [c EXCEPT !.age = a, !.waited = w]
    BY <1>2 DEF Ages
  <1>7. PICK z : z = [c EXCEPT !.age = a, !.waited = w]
    OBVIOUS
  <1>8. /\ z \in ClientCall /\ z.by = c.by /\ z.kind = c.kind /\ z.preview = c.preview /\ z.at = c.at
        /\ z.fate = c.fate /\ z.answer = c.answer /\ z.age = a /\ z.waited = w
    BY <1>5, <1>7 DEF ClientCall
  <1>9. c.at = "polling" /\ c.fate = "sent" => w <= a
    <2> SUFFICES ASSUME c.at = "polling", c.fate = "sent" PROVE w <= a
      OBVIOUS
    <2>1. c.waited <= c.age /\ a = CapTicks(c.age) /\ w = CapTicks(c.waited)
      BY <1>2 DEF CallStands
    <2> QED
      BY <1>1, <1>3, <2>1 DEF CapTicks
  <1>10. c.at = "returned" /\ c.fate = "sent" => a >= ThirtySeconds
    BY <1>1, <1>3, <1>5 DEF CallStands
  <1>11. c.at \in Unsent => w = 0
    BY <1>2 DEF CallStands, Unsent
  <1>12. CallStands(z)
    BY <1>8, <1>9, <1>10, <1>11 DEF CallStands
  <1> QED
    BY <1>6, <1>7, <1>8, <1>12

LEMMA BeginCallInv ==
  ASSUME ClientInv, BeginCall
  PROVE  ClientInv'
  <1>1. PICK s \in Signers, m \in Methods : calls' = Append(calls, NewCall(s, m))
    BY DEF BeginCall
  <1>2. PICK c : c = NewCall(s, m)
    OBVIOUS
  <1>3. KindOf(m) \in {"invoke", "simulate"} /\ (m \in Previews => KindOf(m) = "invoke")
    BY PreviewsAreSent DEF KindOf
  <1>4. PICK k, b : k = KindOf(m) /\ b = (m \in Previews)
    OBVIOUS
  <1>5. k \in {"invoke", "simulate"} /\ b \in BOOLEAN /\ (b => k = "invoke")
    <2>1. b \in BOOLEAN
      BY <1>4
    <2>2. b = TRUE => m \in Previews
      BY <1>4
    <2> QED
      BY <1>3, <1>4, <2>1, <2>2
  <1>6. c = [by |-> s, kind |-> k, preview |-> b, at |-> "begun", seq |-> 0,
             age |-> 0, waited |-> 0, fate |-> "unsent", answer |-> "none"]
    BY <1>2, <1>4 DEF NewCall
  <1>7. 0 \in 0 .. ThirtySeconds + 1 /\ "begun" \in Stages
    BY ClientAssumption DEF Stages
  <1>8. c \in ClientCall /\ c.fate = "unsent"
    BY <1>5, <1>6, <1>7 DEF ClientCall
  <1>9. CallStands(c)
    BY <1>5, <1>6 DEF CallStands, Unsent
  <1>10. /\ calls' \in Seq(ClientCall) /\ Len(calls') = Len(calls) + 1
         /\ DOMAIN calls' = 1 .. Len(calls) + 1
         /\ \A i \in 1 .. Len(calls) : calls'[i] = calls[i]
         /\ calls'[Len(calls) + 1] = c
    BY <1>1, <1>2, <1>8, CallsFinite
  <1>11. \A i \in DOMAIN calls' : i \in DOMAIN calls \/ i = Len(calls) + 1
    BY <1>10, CallsFinite
  <1>12. ASSUME NEW i \in DOMAIN calls' PROVE CallStands(calls'[i])
    <2>1. PICK z : z = calls'[i]
      OBVIOUS
    <2>2. CallStands(z)
      BY <1>9, <1>10, <1>11, <2>1, CallsFinite
    <2> QED
      BY <2>1, <2>2
  <1>13. Len(calls') <= MaxCalls
    BY <1>10, CallsFinite, ClientAssumption DEF BeginCall
  <1>14. DOMAIN calls \subseteq DOMAIN calls' /\ UNCHANGED <<clientSeq, previewWindow>>
    BY <1>10, CallsFinite DEF BeginCall
  <1>15. ASSUME NEW i \in DOMAIN calls', calls'[i].preview, calls'[i].fate = "landed"
         PROVE  i \in DOMAIN calls /\ calls[i].preview /\ calls[i].fate = "landed"
    BY <1>8, <1>10, <1>11, <1>15, CallsFinite
  <1>16. Cardinality(LandedPreviews') <= previewWindow'
    BY <1>14, <1>15, PreviewsStay
  <1> QED
    BY <1>10, <1>12, <1>13, <1>14, <1>16 DEF ClientInv, ClientTypeOK

LEMMA ClientTickInv ==
  ASSUME ClientInv, ClientTick
  PROVE  ClientInv'
  <1>1. /\ calls' = [i \in 1 .. Len(calls) |-> Ages(calls[i])] /\ Len(calls) \in Nat
        /\ UNCHANGED <<clientSeq, previewWindow>>
    BY CallsFinite DEF ClientTick
  <1>2. ASSUME NEW i \in DOMAIN calls
        PROVE  /\ Ages(calls[i]) \in ClientCall /\ CallStands(Ages(calls[i]))
               /\ Ages(calls[i]).preview = calls[i].preview /\ Ages(calls[i]).fate = calls[i].fate
    BY CallsFinite, AgesStand
  <1>3. /\ calls' \in Seq(ClientCall) /\ Len(calls') = Len(calls) /\ DOMAIN calls' = DOMAIN calls
        /\ \A i \in DOMAIN calls : calls'[i] = Ages(calls[i])
    BY <1>1, <1>2, CallsFinite
  <1>4. ASSUME NEW i \in DOMAIN calls' PROVE CallStands(calls'[i])
    <2>1. PICK z : z = calls'[i]
      OBVIOUS
    <2>2. CallStands(z)
      BY <1>2, <1>3, <2>1
    <2> QED
      BY <2>1, <2>2
  <1>5. Cardinality(LandedPreviews') <= previewWindow'
    BY <1>1, <1>2, <1>3, PreviewsStay
  <1> QED
    BY <1>1, <1>3, <1>4, <1>5 DEF ClientInv, ClientTypeOK

\* A step of the client on one of its calls.
LEMMA ClientMoves ==
  ASSUME ClientInv, NEW i \in DOMAIN calls,
         \/ BuildCall(i) \/ Simulate(i) \/ Send(i) \/ SendRefused(i) \/ Poll(i) \/ ConnectionFails(i)
  PROVE  /\ ClientInv'
         /\ calls[i].at \notin {"returned", "refused"}
         /\ \A j \in DOMAIN calls : j # i => calls'[j] = calls[j]
  <1>1. PICK c : c = calls[i]
    OBVIOUS
  <1>2. /\ c \in ClientCall /\ CallStands(c) /\ c.by \in Signers /\ clientSeq[c.by] \in Nat
        /\ ThirtySeconds \in Nat \ {0}
    BY <1>1, CallsFinite DEF ClientCall
  <1>3. ASSUME NEW z \in ClientCall, CallStands(z), z.preview = c.preview,
               z.fate = "landed" => c.fate = "landed", calls' = [calls EXCEPT ![i] = z],
               UNCHANGED <<clientSeq, previewWindow>>
        PROVE  ClientInv' /\ \A j \in DOMAIN calls : j # i => calls'[j] = calls[j]
    <2>1. ClientInv'
      BY <1>1, <1>3, ClientCallInv
    <2>2. \A j \in DOMAIN calls : j # i => calls'[j] = calls[j]
      BY <1>3, CallGoesOn
    <2> QED
      BY <2>1, <2>2
  <1>4. UNCHANGED <<clientSeq, previewWindow>>
    BY DEF BuildCall, Simulate, Send, SendRefused, Poll, ConnectionFails
  <1>5. c.at \notin {"returned", "refused"}
    BY <1>1 DEF BuildCall, Simulate, Send, SendRefused, Poll, ConnectionFails
  <1>6. ASSUME NEW stage \in {"refused", "broken"}, calls' = [calls EXCEPT ![i].at = stage],
               c.answer = "none", c.fate # "landed" \/ stage = "broken", c.fate # "sent" \/ stage = "broken"
        PROVE  ClientInv' /\ \A j \in DOMAIN calls : j # i => calls'[j] = calls[j]
    <2>1. PICK z : z = [c EXCEPT !.at = stage]
      OBVIOUS
    <2>2. calls' = [calls EXCEPT ![i] = z]
      BY <1>1, <1>6, <2>1
    <2>3. /\ z \in ClientCall /\ z.preview = c.preview /\ z.fate = c.fate /\ z.kind = c.kind
          /\ z.at = stage /\ z.answer = c.answer
      BY <1>2, <2>1 DEF ClientCall, Stages
    <2>4. c.fate \in {"unsent", "sent", "landed", "failed"}
      BY <1>2 DEF ClientCall
    <2>5. CallStands(z)
      BY <1>2, <1>6, <2>3, <2>4 DEF CallStands, Unsent
    <2> QED
      BY <1>3, <1>4, <2>2, <2>3, <2>5
  <1>7. c.answer = "none" /\ (c.at \in Unsent => c.fate = "unsent" /\ c.waited = 0)
    BY <1>2, <1>5 DEF CallStands
  <1>8. CASE BuildCall(i)
    <2>1. PICK n, z : n = clientSeq[c.by] + 1 /\ z = [c EXCEPT !.at = "built", !.seq = n]
      OBVIOUS
    <2>2. calls' = [calls EXCEPT ![i] = z] /\ c.at = "begun"
      <3>1. calls' = [calls EXCEPT ![i].at = "built", ![i].seq = n] /\ c.at = "begun"
        BY <1>1, <1>8, <2>1 DEF BuildCall
      <3> QED
        BY <1>1, <2>1, <3>1, CallsFinite
    <2>3. n \in Nat
      BY <1>2, <2>1
    <2>4. /\ z \in ClientCall /\ z.preview = c.preview /\ z.fate = c.fate /\ z.kind = c.kind
          /\ z.at = "built" /\ z.answer = c.answer /\ z.waited = c.waited
      BY <1>2, <2>1, <2>3 DEF ClientCall, Stages
    <2>5. CallStands(z)
      BY <1>2, <1>7, <2>2, <2>4 DEF CallStands, Unsent
    <2> QED
      BY <1>1, <1>3, <1>4, <1>5, <2>2, <2>4, <2>5
  <1>9. CASE Simulate(i)
    <2>1. c.at = "built" /\ c.fate = "unsent" /\ c.waited = 0
      BY <1>1, <1>7, <1>9 DEF Simulate, Unsent
    <2>2. CASE Refuses(i)
      BY <1>1, <1>5, <1>6, <1>7, <2>1, <2>2 DEF Refuses
    <2>3. CASE c.kind = "simulate" /\ calls' = [calls EXCEPT ![i].at = "returned", ![i].answer = "value"]
      <3>1. PICK z : z = [c EXCEPT !.at = "returned", !.answer = "value"]
        OBVIOUS
      <3>2. calls' = [calls EXCEPT ![i] = z]
        BY <1>1, <2>3, <3>1, CallsFinite
      <3>3. /\ z \in ClientCall /\ z.preview = c.preview /\ z.fate = c.fate /\ z.kind = c.kind
            /\ z.at = "returned" /\ z.answer = "value"
        BY <1>2, <3>1 DEF ClientCall, Stages
      <3>4. CallStands(z)
        BY <1>2, <2>1, <2>3, <3>3 DEF CallStands, Unsent
      <3> QED
        BY <1>1, <1>3, <1>4, <1>5, <3>2, <3>3, <3>4
    <2>4. CASE c.kind = "invoke" /\ calls' = [calls EXCEPT ![i].at = "sending"]
      <3>1. PICK z : z = [c EXCEPT !.at = "sending"]
        OBVIOUS
      <3>2. calls' = [calls EXCEPT ![i] = z]
        BY <1>1, <2>4, <3>1
      <3>3. /\ z \in ClientCall /\ z.preview = c.preview /\ z.fate = c.fate /\ z.kind = c.kind
            /\ z.at = "sending" /\ z.answer = c.answer /\ z.waited = c.waited
        BY <1>2, <3>1 DEF ClientCall, Stages
      <3>4. CallStands(z)
        BY <1>2, <1>7, <2>1, <2>4, <3>3 DEF CallStands, Unsent
      <3> QED
        BY <1>1, <1>3, <1>4, <1>5, <3>2, <3>3, <3>4
    <2>5. c.kind \in {"invoke", "simulate"}
      BY <1>2 DEF ClientCall
    <2> QED
      BY <1>1, <1>9, <2>2, <2>3, <2>4, <2>5 DEF Simulate
  <1>10. CASE Send(i)
    <2>1. c.at = "sending" /\ c.fate = "unsent" /\ c.waited = 0
      BY <1>1, <1>7, <1>10 DEF Send, Unsent
    <2>2. PICK fate \in {"sent", "unsent"}, stage \in {"polling", "broken"} :
            calls' = [calls EXCEPT ![i].at = stage, ![i].fate = fate]
      BY <1>10 DEF Send
    <2>3. PICK z : z = [c EXCEPT !.at = stage, !.fate = fate]
      OBVIOUS
    <2>4. calls' = [calls EXCEPT ![i] = z]
      BY <1>1, <2>2, <2>3, CallsFinite
    <2>5. /\ z \in ClientCall /\ z.preview = c.preview /\ z.fate = fate /\ z.kind = c.kind
          /\ z.at = stage /\ z.answer = c.answer /\ z.waited = c.waited /\ z.age = c.age
      BY <1>2, <2>3 DEF ClientCall, Stages
    <2>6. c.waited <= c.age
      <3>1. c.age \in 0 .. ThirtySeconds + 1
        BY <1>2 DEF ClientCall
      <3> QED
        BY <1>2, <2>1, <3>1
    <2>7. c.kind = "invoke"
      BY <1>2, <2>1 DEF CallStands, ClientCall
    <2>8. CallStands(z)
      BY <1>2, <1>7, <2>1, <2>5, <2>6, <2>7 DEF CallStands, Unsent
    <2> QED
      BY <1>1, <1>3, <1>4, <1>5, <2>4, <2>5, <2>8
  <1>11. CASE SendRefused(i)
    <2>1. c.fate = "unsent"
      BY <1>1, <1>7, <1>11 DEF SendRefused, Unsent
    <2> QED
      BY <1>1, <1>5, <1>6, <1>7, <1>11, <2>1 DEF SendRefused, Refuses
  <1>12. CASE Poll(i)
    <2>1. c.at = "polling" /\ c.kind = "invoke"
      <3>1. c.at = "polling"
        BY <1>1, <1>12 DEF Poll
      <3> QED
        BY <1>2, <3>1 DEF CallStands, ClientCall
    <2>2. CASE calls[i].fate = "failed" /\ Refuses(i)
      BY <1>1, <1>5, <1>6, <1>7, <2>2 DEF Refuses
    <2>3. ASSUME NEW answer \in {"value", "unknown"},
                 calls' = [calls EXCEPT ![i].at = "returned", ![i].answer = answer],
                 \/ answer = "value" /\ c.fate = "landed"
                 \/ answer = "unknown" /\ c.waited >= ThirtySeconds
          PROVE  ClientInv' /\ \A j \in DOMAIN calls : j # i => calls'[j] = calls[j]
      <3>1. PICK z : z = [c EXCEPT !.at = "returned", !.answer = answer]
        OBVIOUS
      <3>2. calls' = [calls EXCEPT ![i] = z]
        BY <1>1, <2>3, <3>1, CallsFinite
      <3>3. /\ z \in ClientCall /\ z.preview = c.preview /\ z.fate = c.fate /\ z.kind = c.kind
            /\ z.at = "returned" /\ z.answer = answer /\ z.age = c.age
        BY <1>2, <3>1 DEF ClientCall, Stages
      <3>4. c.fate = "sent" => c.age >= ThirtySeconds
        <4>1. c.age \in 0 .. ThirtySeconds + 1 /\ c.waited \in 0 .. ThirtySeconds + 1
          BY <1>2 DEF ClientCall
        <4>2. c.fate = "sent" => c.waited <= c.age /\ c.waited >= ThirtySeconds
          BY <1>2, <2>1, <2>3 DEF CallStands
        <4> QED
          BY <1>2, <4>1, <4>2
      <3>5. CallStands(z)
        BY <1>2, <2>1, <2>3, <3>3, <3>4 DEF CallStands, Unsent
      <3> QED
        BY <1>3, <1>4, <3>2, <3>3, <3>5
    <2> QED
      BY <1>1, <1>5, <1>12, <2>2, <2>3 DEF Poll, GivesUpPolling, NotFoundAtDeadline
  <1>13. CASE ConnectionFails(i)
    BY <1>1, <1>5, <1>6, <1>7, <1>13 DEF ConnectionFails, Breaks
  <1> QED
    BY <1>8, <1>9, <1>10, <1>11, <1>12, <1>13


LEMMA CallLandsInv ==
  ASSUME ClientInv, NEW i \in DOMAIN calls, CallLands(i)
  PROVE  /\ ClientInv'
         /\ calls[i].at \notin {"returned", "refused"}
         /\ \A j \in DOMAIN calls : j # i => calls'[j] = calls[j]
  <1>1. PICK c : c = calls[i]
    OBVIOUS
  <1>2. /\ c \in ClientCall /\ CallStands(c) /\ c.by \in Signers
        /\ ThirtySeconds \in Nat \ {0} /\ c.age \in 0 .. ThirtySeconds + 1
        /\ c.preview \in BOOLEAN
    BY <1>1, CallsFinite DEF ClientCall
  <1>3. /\ c.fate = "sent" /\ c.age < ThirtySeconds
        /\ clientSeq' = [clientSeq EXCEPT ![c.by] = @ + 1]
    BY <1>1 DEF CallLands, Valid
  <1>4. c.at \notin {"returned", "refused"} /\ c.at \notin Unsent /\ c.answer = "none"
    BY <1>2, <1>3 DEF CallStands
  <1>5. clientSeq' \in [Signers -> Nat]
    BY <1>2, <1>3, CallsFinite
  <1>6. PICK fate \in {"failed", "landed"} :
          /\ calls' = [calls EXCEPT ![i].fate = fate]
          /\ \/ fate = "failed" /\ UNCHANGED previewWindow
             \/ /\ fate = "landed" /\ (c.preview => ~Full)
                /\ previewWindow' = IF c.preview THEN previewWindow + 1 ELSE previewWindow
    BY <1>1 DEF CallLands
  <1>7. PICK z : z = [c EXCEPT !.fate = fate]
    OBVIOUS
  <1>8. calls' = [calls EXCEPT ![i] = z]
    BY <1>1, <1>6, <1>7
  <1>9. /\ z \in ClientCall /\ z.preview = c.preview /\ z.fate = fate /\ z.kind = c.kind
        /\ z.at = c.at /\ z.answer = c.answer
    BY <1>2, <1>7 DEF ClientCall
  <1>10. CallStands(z)
    BY <1>2, <1>4, <1>9 DEF CallStands
  <1>11. /\ calls' \in Seq(ClientCall) /\ Len(calls') = Len(calls) /\ DOMAIN calls' = DOMAIN calls
         /\ \A j \in DOMAIN calls : calls'[j] = IF j = i THEN z ELSE calls[j]
         /\ \A j \in DOMAIN calls' : CallStands(calls'[j])
    BY <1>8, <1>9, <1>10, CallGoesOn
  <1>12. previewWindow' \in 0 .. PreviewLimit /\ Cardinality(LandedPreviews') <= previewWindow'
    <2>1. CASE UNCHANGED previewWindow /\ ~(fate = "landed" /\ c.preview)
      <3>1. ASSUME NEW j \in DOMAIN calls', calls'[j].preview, calls'[j].fate = "landed"
            PROVE  j \in DOMAIN calls /\ calls[j].preview /\ calls[j].fate = "landed"
        BY <1>9, <1>11, <2>1, <3>1
      <3>2. Cardinality(LandedPreviews') <= previewWindow'
        BY <1>11, <2>1, <3>1, PreviewsStay
      <3>3. previewWindow' = previewWindow
        BY <2>1
      <3> QED
        BY <3>2, <3>3, CallsFinite
    <2>2. CASE fate = "landed" /\ c.preview
      <3>1. previewWindow' = previewWindow + 1 /\ ~(previewWindow = PreviewLimit)
        BY <1>6, <2>2 DEF Full
      <3>2. PICK s, t : s = LandedPreviews /\ t = LandedPreviews'
        OBVIOUS
      <3>3. IsFiniteSet(s) /\ Cardinality(s) \in Nat /\ Cardinality(s) <= previewWindow
        BY <3>2, CallsFinite DEF ClientInv
      <3>4. t \subseteq s \cup {i}
        BY <1>11, <3>2 DEF LandedPreviews
      <3>5. IsFiniteSet(s \cup {i}) /\ Cardinality(s \cup {i}) <= Cardinality(s) + 1
            /\ Cardinality(s \cup {i}) \in Nat
        <4>1. IsFiniteSet(s \cup {i}) /\ (Cardinality(s \cup {i}) = Cardinality(s)
                                          \/ Cardinality(s \cup {i}) = Cardinality(s) + 1)
          BY <3>3, FS_AddElement
        <4> QED
          BY <3>3, <4>1
      <3>6. Cardinality(t) <= Cardinality(s \cup {i}) /\ Cardinality(t) \in Nat
        BY <3>4, <3>5, FS_Subset, FS_CardinalityType
      <3>7. PICK m, n : m = Cardinality(s \cup {i}) /\ n = Cardinality(t)
        OBVIOUS
      <3>8. n <= previewWindow + 1
        BY <3>3, <3>5, <3>6, <3>7, CallsFinite
      <3>9. Cardinality(LandedPreviews') <= previewWindow'
        BY <3>1, <3>2, <3>7, <3>8
      <3>10. previewWindow' \in 0 .. PreviewLimit
        BY <3>1, CallsFinite
      <3> QED
        BY <3>9, <3>10
    <2> QED
      BY <1>2, <1>6, <2>1, <2>2
  <1>13. ClientInv'
    BY <1>5, <1>11, <1>12 DEF ClientInv, ClientTypeOK
  <1> QED
    BY <1>1, <1>4, <1>11, <1>13

LEMMA ClientStepInv ==
  ASSUME ClientInv, [ClientNext]_clientVars
  PROVE  /\ ClientInv'
         /\ \A i \in DOMAIN calls :
              calls[i].at \in {"returned", "refused"} => calls'[i].fate = calls[i].fate
  <1>1. CASE UNCHANGED clientVars
    <2>1. UNCHANGED <<calls, clientSeq, previewWindow>>
      BY <1>1 DEF clientVars
    <2>2. Cardinality(LandedPreviews') <= previewWindow'
      BY <2>1, PreviewsStay
    <2> QED
      BY <2>1, <2>2 DEF ClientInv, ClientTypeOK
  <1>2. CASE BeginCall
    <2>1. \A i \in DOMAIN calls : calls'[i] = calls[i]
      <3>1. PICK c : calls' = Append(calls, c)
        BY <1>2 DEF BeginCall
      <3> QED
        BY <3>1, CallsFinite
    <2> QED
      BY <1>2, <2>1, BeginCallInv
  <1>3. CASE ClientTick
    <2>1. ASSUME NEW i \in DOMAIN calls PROVE calls'[i].fate = calls[i].fate
      <3>1. Ages(calls[i]).fate = calls[i].fate
        BY CallsFinite, AgesStand
      <3> QED
        BY <1>3, <3>1 DEF ClientTick
    <2> QED
      BY <1>3, <2>1, ClientTickInv
  <1>4. ASSUME NEW i \in DOMAIN calls,
               \/ BuildCall(i) \/ Simulate(i) \/ Send(i) \/ SendRefused(i) \/ Poll(i)
               \/ ConnectionFails(i) \/ CallLands(i)
        PROVE  /\ ClientInv'
               /\ \A j \in DOMAIN calls :
                    calls[j].at \in {"returned", "refused"} => calls'[j].fate = calls[j].fate
    BY <1>4, ClientMoves, CallLandsInv
  <1> QED
    BY <1>1, <1>2, <1>3, <1>4 DEF ClientNext

(***************************************************************************)
(* Whatever overlaps, for any number of calls and accounts: an error that   *)
(* the client throws for a refusal means that the vault is unchanged,       *)
(* nothing the client has returned from changes afterwards, and the         *)
(* previews it hands out are within the limit of the vault.                 *)
(***************************************************************************)
THEOREM ClientSafe == ClientSpec => ClientSafety
  <1>1. ClientInv => ClientTypeOK /\ RefusedChangedNothing /\ PreviewLimitHolds
    <2> SUFFICES ASSUME ClientInv PROVE RefusedChangedNothing /\ PreviewLimitHolds
      BY DEF ClientInv
    <2>1. RefusedChangedNothing
      BY CallsFinite DEF RefusedChangedNothing, CallStands
    <2>2. PICK s, t : /\ s = {i \in DOMAIN calls : calls[i].preview /\ calls[i].answer = "value"}
                      /\ t = LandedPreviews
      OBVIOUS
    <2>3. s \subseteq t
      BY <2>2, CallsFinite DEF LandedPreviews, CallStands
    <2>4. /\ IsFiniteSet(t) /\ Cardinality(t) \in Nat /\ Cardinality(t) <= previewWindow
          /\ previewWindow \in Nat /\ previewWindow <= PreviewLimit /\ PreviewLimit \in Nat
      BY <2>2, CallsFinite DEF ClientInv
    <2>5. Cardinality(s) <= Cardinality(t) /\ Cardinality(s) \in Nat
      BY <2>3, <2>4, FS_Subset, FS_CardinalityType
    <2>6. Cardinality(s) <= PreviewLimit
      BY <2>4, <2>5
    <2> QED
      BY <2>1, <2>2, <2>6 DEF PreviewLimitHolds
  <1>2. ClientInv /\ [ClientNext]_clientVars =>
          [\A i \in DOMAIN calls :
             calls[i].at \in {"returned", "refused"} => calls'[i].fate = calls[i].fate]_clientVars
    BY ClientStepInv
  <1>3. ClientSpec => []ClientInv
    BY ClientInitInv, ClientStepInv, PTL DEF ClientSpec
  <1>4. ClientSpec => ReturnedIsFinal
    BY <1>2, <1>3, PTL DEF ClientSpec, ReturnedIsFinal
  <1> QED
    BY <1>1, <1>3, <1>4, PTL DEF ClientSafety
==============================================================================

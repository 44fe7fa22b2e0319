------------------------------ MODULE RecordsProofs ------------------------------
(***************************************************************************)
(* Records, keys and copies that stay right whatever happens, for any number*)
(* of overlapping calls, of requests and of restarts.                      *)
(***************************************************************************)
EXTENDS IntentParser, Custody, Governance, StateBackup, Reconcile, ServiceRecovery, Authentication,
        YieldCheck, SequenceTheorems, FiniteSetTheorems, WellFoundedInduction, TLAPS

-----------------------------------------------------------------------------
(* The circuit breakers (intentParser.ts). *)

\* A closed breaker is below one threshold, a half open one below the other.
Calm(b) ==
  /\ b.state = "CLOSED" => b.failures < FailureThreshold
  /\ b.state = "HALF_OPEN" => b.successCount < SuccessThreshold

BreakersCalm ==
  llm \in [1 .. Providers -> Breaker] /\ \A p \in 1 .. Providers : Calm(llm[p])

\* Only a provider that exists is called.
ParseType == [at : 0 .. Providers + 1, calling : BOOLEAN, by : {"none", "model", "regex"}]
ParsesStand ==
  /\ parse \in [Parses -> ParseType]
  /\ \A m \in Parses : parse[m].calling => parse[m].at \in 1 .. Providers

\* What a failure makes of a breaker.
LEMMA FailureIsCalm ==
  ASSUME NEW b \in Breaker, Calm(b), b.failures < MaxFailures
  PROVE  Failed(b) \in Breaker /\ Calm(Failed(b))
  <1> DEFINE n == b.failures + 1
             s == IF n >= FailureThreshold \/ b.state = "HALF_OPEN" THEN "OPEN" ELSE b.state
  <1>0. b.failures \in 0 .. MaxFailures /\ b.state \in {"CLOSED", "OPEN", "HALF_OPEN"}
    BY DEF Breaker
  <1>1. n \in 0 .. MaxFailures /\ s \in {"CLOSED", "OPEN", "HALF_OPEN"} /\ s # "HALF_OPEN"
    BY <1>0, BreakerAssumption
  <1>2. s = "CLOSED" => n < FailureThreshold
    BY <1>0, <1>1, BreakerAssumption
  <1>3. Failed(b) = [state |-> s, failures |-> n, successCount |-> b.successCount, since |-> 0]
    <2>1. Failed(b) = [b EXCEPT !.failures = n, !.since = 0, !.state = s]
      BY DEF Failed
    <2> HIDE DEF n, s
    <2> QED
      BY <1>1, <2>1 DEF Breaker
  <1>4. b.successCount \in 0 .. SuccessThreshold /\ 0 \in 0 .. RecoveryTimeout
    BY BreakerAssumption DEF Breaker
  <1> HIDE DEF n, s
  <1> QED
    BY <1>1, <1>2, <1>3, <1>4 DEF Breaker, Calm

\* What an answer makes of a breaker.
LEMMA AnswerIsCalm ==
  ASSUME NEW b \in Breaker, Calm(b)
  PROVE  Succeeded(b) \in Breaker /\ Calm(Succeeded(b))
  <1> USE BreakerAssumption DEF Breaker, Calm
  <1>1. CASE b.state # "HALF_OPEN"
    <2>1. Succeeded(b) = [b EXCEPT !.failures = 0]
      BY <1>1 DEF Succeeded
    <2> QED
      BY <1>1, <2>1
  <1>2. CASE b.state = "HALF_OPEN" /\ b.successCount + 1 >= SuccessThreshold
    <2>1. Succeeded(b) = [state |-> "CLOSED", failures |-> 0,
                          successCount |-> b.successCount + 1, since |-> b.since]
      BY <1>2 DEF Succeeded, Closes
    <2> QED
      BY <1>2, <2>1
  <1>3. CASE b.state = "HALF_OPEN" /\ ~(b.successCount + 1 >= SuccessThreshold)
    <2>1. Succeeded(b) = [b EXCEPT !.successCount = b.successCount + 1]
      BY <1>3 DEF Succeeded
    <2> QED
      BY <1>3, <2>1
  <1> QED
    BY <1>1, <1>2, <1>3

\* A step that changes one breaker, if there is one, changes it into a calm one.
LEMMA OneBreakerChanges ==
  ASSUME BreakersCalm, NEW p, NEW b, llm' = [llm EXCEPT ![p] = b],
         p \in 1 .. Providers => b \in Breaker /\ Calm(b)
  PROVE  BreakersCalm'
  BY DEF BreakersCalm

LEMMA LlmInitCalm == LlmInit => BreakersCalm
  <1> SUFFICES ASSUME LlmInit PROVE BreakersCalm
    OBVIOUS
  <1> DEFINE b == [state |-> "CLOSED", failures |-> 0, successCount |-> 0,
                   since |-> RecoveryTimeout]
  <1>1. llm = [p \in 1 .. Providers |-> b]
    BY DEF LlmInit
  <1>2. b \in Breaker /\ Calm(b)
    BY BreakerAssumption DEF Breaker, Calm
  <1> QED
    BY <1>1, <1>2 DEF BreakersCalm

LEMMA LlmStepCalm ==
  ASSUME BreakersCalm, [LlmNext]_llmVars
  PROVE  BreakersCalm'
  <1>1. CASE UNCHANGED llm
    BY <1>1 DEF BreakersCalm
  <1>2. CASE LlmTick
    <2>1. \A p \in 1 .. Providers :
            llm'[p] = [llm[p] EXCEPT !.since = IF @ < RecoveryTimeout THEN @ + 1 ELSE @]
      BY <1>2 DEF LlmTick
    <2>2. \A p \in 1 .. Providers : llm'[p] \in Breaker /\ Calm(llm'[p])
      <3> SUFFICES ASSUME NEW p \in 1 .. Providers
                   PROVE  llm'[p] \in Breaker /\ Calm(llm'[p])
        OBVIOUS
      <3> DEFINE x == IF llm[p].since < RecoveryTimeout THEN llm[p].since + 1 ELSE llm[p].since
      <3>1. llm[p] \in Breaker /\ Calm(llm[p])
        BY DEF BreakersCalm
      <3>2. x \in 0 .. RecoveryTimeout /\ llm'[p] = [llm[p] EXCEPT !.since = x]
        BY <2>1, <3>1, BreakerAssumption DEF Breaker
      <3> HIDE DEF x
      <3> QED
        BY <3>1, <3>2 DEF Breaker, Calm
    <2>3. llm' = [p \in 1 .. Providers |-> llm'[p]]
      BY <1>2 DEF LlmTick
    <2> QED
      BY <2>2, <2>3 DEF BreakersCalm
  <1>3. ASSUME NEW m \in Parses, CallProvider(m) PROVE BreakersCalm'
    <2> DEFINE p == parse[m].at
               b == [llm[p] EXCEPT !.state = "HALF_OPEN", !.successCount = 0]
    <2>1. CASE Recovers(llm[p]) /\ llm' = [llm EXCEPT ![p].state = "HALF_OPEN",
                                                   ![p].successCount = 0]
      <3>0. 0 \in 0 .. SuccessThreshold /\ 0 < SuccessThreshold
        BY BreakerAssumption
      <3>1. p \in 1 .. Providers => b \in Breaker /\ Calm(b)
        BY <3>0 DEF BreakersCalm, Breaker, Calm
      <3>2. llm' = [llm EXCEPT ![p] = b]
        BY <2>1 DEF BreakersCalm
      <3> QED
        BY <3>1, <3>2, OneBreakerChanges
    <2> QED
      BY <1>1, <1>3, <2>1 DEF CallProvider
  <1>4. ASSUME NEW m \in Parses, Answers(m) PROVE BreakersCalm'
    <2> DEFINE p == parse[m].at
    <2>1. llm' = [llm EXCEPT ![p] = Succeeded(llm[p])]
      BY <1>4 DEF Answers
    <2>2. p \in 1 .. Providers => Succeeded(llm[p]) \in Breaker /\ Calm(Succeeded(llm[p]))
      BY AnswerIsCalm DEF BreakersCalm
    <2> QED
      BY <2>1, <2>2, OneBreakerChanges
  <1>5. ASSUME NEW m \in Parses, CallFails(m) PROVE BreakersCalm'
    <2> DEFINE p == parse[m].at
    <2>1. llm' = [llm EXCEPT ![p] = Failed(llm[p])] /\ llm[p].failures < MaxFailures
      BY <1>5 DEF CallFails
    <2>2. p \in 1 .. Providers => Failed(llm[p]) \in Breaker /\ Calm(Failed(llm[p]))
      BY <2>1, FailureIsCalm DEF BreakersCalm
    <2> QED
      BY <2>1, <2>2, OneBreakerChanges
  <1> QED
    BY <1>1, <1>2, <1>3, <1>4, <1>5 DEF LlmNext, llmVars, BeginParse, FallsBack

LEMMA LlmInitInv == LlmInit => BreakersCalm /\ ParsesStand
  <1>1. LlmInit => ParsesStand
    BY BreakerAssumption DEF LlmInit, ParsesStand, ParseType, NoParse
  <1> QED
    BY <1>1, LlmInitCalm

LEMMA ParsesStep ==
  ASSUME ParsesStand, [LlmNext]_llmVars
  PROVE  ParsesStand'
  <1>1. CASE UNCHANGED parse
    BY <1>1 DEF ParsesStand
  <1>2. ASSUME NEW m \in Parses,
               BeginParse(m) \/ CallProvider(m) \/ Answers(m) \/ CallFails(m) \/ FallsBack(m)
        PROVE  ParsesStand'
    <2> DEFINE q == parse[m]
    <2>1. q \in ParseType /\ q.at \in 0 .. Providers + 1
          /\ (q.calling => q.at \in 1 .. Providers)
      BY DEF ParsesStand, ParseType
    <2>2. PICK z : /\ parse' = [parse EXCEPT ![m] = z]
                   /\ z \in ParseType /\ (z.calling => z.at \in 1 .. Providers)
      <3>1. CASE BeginParse(m)
        <4> DEFINE z == [NoParse EXCEPT !.at = 1]
        <4>1. parse' = [parse EXCEPT ![m] = z]
          BY <3>1 DEF BeginParse
        <4>2. 1 \in 0 .. Providers + 1
          BY BreakerAssumption
        <4>3. z \in ParseType /\ ~z.calling
          BY <4>2 DEF NoParse, ParseType
        <4> QED
          BY <4>1, <4>3
      <3>2. CASE Answers(m) \/ FallsBack(m)
        <4>1. PICK by \in {"model", "regex"} : parse' = [parse EXCEPT ![m] = [NoParse EXCEPT !.by = by]]
          BY <3>2 DEF Answers, FallsBack
        <4> DEFINE z == [NoParse EXCEPT !.by = by]
        <4>2. 0 \in 0 .. Providers + 1
          BY BreakerAssumption
        <4>3. z \in ParseType /\ ~z.calling
          BY <4>2 DEF NoParse, ParseType
        <4> QED
          BY <4>1, <4>3
      <3>3. CASE CallProvider(m)
        <4>1. CASE parse' = [parse EXCEPT ![m].calling = TRUE]
          <5>1. parse' = [parse EXCEPT ![m] = [q EXCEPT !.calling = TRUE]]
            BY <4>1 DEF ParsesStand
          <5>2. [q EXCEPT !.calling = TRUE] \in ParseType
                /\ [q EXCEPT !.calling = TRUE].at \in 1 .. Providers
            BY <2>1, <3>3 DEF CallProvider, ParseType
          <5> QED
            BY <5>1, <5>2
        <4>2. CASE parse' = [parse EXCEPT ![m].at = parse[m].at + 1]
          <5>1. parse' = [parse EXCEPT ![m] = [q EXCEPT !.at = q.at + 1]]
            BY <4>2 DEF ParsesStand
          <5>2. q.at \in 1 .. Providers /\ ~q.calling
            BY <3>3 DEF CallProvider
          <5>3. q.at + 1 \in 0 .. Providers + 1
            BY <5>2, BreakerAssumption
          <5>4. [q EXCEPT !.at = q.at + 1] \in ParseType /\ ~[q EXCEPT !.at = q.at + 1].calling
            BY <2>1, <5>2, <5>3 DEF ParseType
          <5> QED
            BY <5>1, <5>4
        <4> QED
          BY <3>3, <4>1, <4>2 DEF CallProvider
      <3>4. CASE CallFails(m)
        <4>1. parse' = [parse EXCEPT ![m] = [q EXCEPT !.at = q.at + 1, !.calling = FALSE]]
          BY <3>4 DEF CallFails, ParsesStand
        <4>2. q.at + 1 \in 0 .. Providers + 1
          BY <2>1, <3>4, BreakerAssumption DEF CallFails
        <4>3. [q EXCEPT !.at = q.at + 1, !.calling = FALSE] \in ParseType
              /\ ~[q EXCEPT !.at = q.at + 1, !.calling = FALSE].calling
          BY <2>1, <4>2 DEF ParseType
        <4> QED
          BY <4>1, <4>3
      <3> QED
        BY <1>2, <3>1, <3>2, <3>3, <3>4
    <2> QED
      BY <2>2 DEF ParsesStand
  <1> QED
    BY <1>1, <1>2 DEF LlmNext, llmVars, LlmTick

\* Every breaker and every parse keeps its shape, and a call goes only to a
\* provider there is.
THEOREM LlmTypeCorrectness == LlmSpec => []LlmTypeOK
  <1>1. BreakersCalm /\ ParsesStand => LlmTypeOK
    BY DEF BreakersCalm, ParsesStand, ParseType, LlmTypeOK
  <1> QED
    BY <1>1, LlmInitInv, LlmStepCalm, ParsesStep, PTL DEF LlmSpec

\* A closed breaker keeps fewer failures than the threshold, however the answers
\* of overlapping calls fall around its opening and closing.
THEOREM ClosedFewFailures == LlmSpec => []ClosedHasFewFailures
  <1>1. BreakersCalm => ClosedHasFewFailures
    BY DEF BreakersCalm, ClosedHasFewFailures, Calm
  <1> QED
    BY <1>1, LlmInitCalm, LlmStepCalm, PTL DEF LlmSpec

-----------------------------------------------------------------------------
(* The confirmations (intentParser.ts). *)

\* A confirmation shows what its fingerprint says, of a financial action, and expires
\* when it must; what was executed is the intent of now, because a change begins anew.
Sealed(c) ==
  /\ IsFinancialAction(c.action) /\ c.expiresAt <= time + TTL
  /\ c.action = c.intentFingerprint.action /\ Shows(c, c.intentFingerprint)

ConfirmInv ==
  /\ ConfirmTypeOK /\ ExecutedAsShown
  /\ \A c \in confirmations : Sealed(c)

LEMMA ConfirmInitInv == ConfirmInit => ConfirmInv
  BY ConfirmationAssumption
  DEF ConfirmInit, ConfirmInv, ConfirmTypeOK, ExecutedAsShown, SchemaIntents, RegexIntents

Confirmables ==
  [action : Actions, amount : Amounts \cup NonFinite \cup {0}, details : Details,
   intentFingerprint : Fingerprints, expiresAt : 0 .. MaxTime + TTL]
Executables == [operation : Operations, at : 0 .. MaxTime]

LEMMA FingerprintsOfIntents ==
  ASSUME NEW i \in Intents, NEW d \in Details
  PROVE  FingerprintIntent(i, d) \in Fingerprints /\ Operation(i, d) \in Operations
  BY DEF FingerprintIntent, Fingerprints, Intents, JsonAmount, Operation, Operations

\* What is built shows the intent of now.
LEMMA BuiltIsSealed ==
  ASSUME ConfirmInv, BuildConfirmation
  PROVE  \E c \in Confirmables : confirmations' = confirmations \cup {c} /\ Sealed(c)
  <1> DEFINE c == [action |-> intent.action, amount |-> AmountShown(intent), details |-> details,
                   intentFingerprint |-> FingerprintIntent(intent, details),
                   expiresAt |-> time + TTL]
  <1>1. /\ intent \in Intents /\ details \in Details /\ time \in 0 .. MaxTime
        /\ TTL \in Nat /\ MaxTime \in Nat /\ IsFinancialAction(intent.action)
        /\ confirmations' = confirmations \cup {c}
    BY ConfirmationAssumption DEF ConfirmInv, ConfirmTypeOK, BuildConfirmation
  <1>2. /\ intent.action \in Actions /\ intent.amount \in Amounts \cup NonFinite \cup {NoAmount}
        /\ AmountShown(intent) \in Amounts \cup NonFinite \cup {0}
    BY <1>1 DEF Intents, AmountShown
  <1>3. c \in Confirmables
    BY <1>1, <1>2, FingerprintsOfIntents DEF Confirmables
  <1>4. Shows(c, FingerprintIntent(intent, details))
    <2>1. intent.amount = NoAmount => intent.action = "withdraw_all"
      BY DEF BuildConfirmation
    <2>2. intent.amount \in NonFinite => intent.amount \notin Amounts \cup {NoAmount}
      BY ConfirmationAssumption
    <2>3. ShowsAmount(c, FingerprintIntent(intent, details))
      <3>1. CASE intent.amount \in NonFinite
        BY <2>2, <3>1, ConfirmationAssumption
        DEF ShowsAmount, FingerprintIntent, JsonAmount, AmountShown
      <3>2. CASE intent.amount = NoAmount
        BY <2>1, <2>2, <3>2, ConfirmationAssumption
        DEF ShowsAmount, FingerprintIntent, JsonAmount, AmountShown
      <3>3. CASE intent.amount \in Amounts
        BY <2>2, <3>3, ConfirmationAssumption
        DEF ShowsAmount, FingerprintIntent, JsonAmount, AmountShown
      <3> QED
        BY <1>2, <3>1, <3>2, <3>3
    <2> QED
      BY <2>3 DEF Shows, FingerprintIntent
  <1>5. Sealed(c)
    <2>1. time + TTL <= time + TTL
      BY <1>1
    <2> QED
      BY <1>1, <1>4, <2>1 DEF Sealed, FingerprintIntent
  <1> HIDE DEF c
  <1> QED
    BY <1>1, <1>3, <1>5

\* What a confirmation verifies for was shown in it.
LEMMA VerifiedWasShown ==
  ASSUME ConfirmInv, NEW c \in confirmations, Verifies(c)
  PROVE  LET op == Operation(intent, details) IN
         /\ IsFinancialAction(op.action) /\ Shows(c, op)
         /\ time \in c.expiresAt - TTL .. c.expiresAt
  <1> DEFINE fp == FingerprintIntent(intent, details)
             op == Operation(intent, details)
  <1>1. c \in Confirmables /\ time \in 0 .. MaxTime /\ TTL \in Nat /\ MaxTime \in Nat
    BY ConfirmationAssumption DEF ConfirmInv, ConfirmTypeOK, Confirmables
  <1>2. c.expiresAt \in Int
    BY <1>1 DEF Confirmables
  <1>3. Sealed(c)
    BY DEF ConfirmInv
  <1>4. c.intentFingerprint = fp
    BY DEF Verifies
  <1>5. time <= c.expiresAt /\ c.expiresAt <= time + TTL
    BY <1>1, <1>2, <1>3 DEF Verifies, Expired, Sealed
  <1>6. time \in c.expiresAt - TTL .. c.expiresAt
    BY <1>1, <1>2, <1>5
  <1>7. IsFinancialAction(op.action) /\ Shows(c, op)
    <2>1. fp.action = op.action /\ fp.details = op.details /\ fp.withdrawAll = op.withdrawAll
      BY DEF FingerprintIntent, Operation
    <2>2. IF op.amount \in Amounts THEN fp.amount = op.amount ELSE fp.amount \notin Amounts
      BY ConfirmationAssumption DEF FingerprintIntent, Operation, JsonAmount
    <2>3. Shows(c, fp) /\ IsFinancialAction(fp.action)
      BY <1>3, <1>4 DEF Sealed
    <2> HIDE DEF fp, op
    <2> QED
      BY <2>1, <2>2, <2>3 DEF Shows, ShowsAmount
  <1> HIDE DEF op
  <1> QED
    BY <1>6, <1>7 DEF op

LEMMA ConfirmStepInv ==
  ASSUME ConfirmInv, [ConfirmNext]_confirmVars
  PROVE  ConfirmInv'
  <1>0. /\ time \in 0 .. MaxTime /\ TTL \in Nat /\ MaxTime \in Nat
        /\ intent \in Intents /\ details \in Details \cup {NoDetails}
        /\ confirmations \subseteq Confirmables /\ executed \subseteq Executables
    BY ConfirmationAssumption DEF ConfirmInv, ConfirmTypeOK, Confirmables, Executables
  <1>1. CASE EditIntent
    <2>1. /\ intent' \in Intents /\ details' \in Details \cup {NoDetails}
          /\ executed' = {} /\ time' = time /\ confirmations' = confirmations
      BY <1>0, <1>1 DEF EditIntent, SchemaIntents, RegexIntents
    <2> QED
      BY <2>1 DEF ConfirmInv, ConfirmTypeOK, ExecutedAsShown, Sealed
  <1>2. CASE BuildConfirmation
    <2>1. PICK c \in Confirmables : confirmations' = confirmations \cup {c} /\ Sealed(c)
      BY <1>2, BuiltIsSealed
    <2>2. intent' = intent /\ details' = details /\ executed' = executed /\ time' = time
      BY <1>2 DEF BuildConfirmation
    <2>3. ExecutedAsShown'
      BY <2>1, <2>2 DEF ConfirmInv, ExecutedAsShown
    <2>4. ConfirmTypeOK'
      BY <1>0, <2>1, <2>2 DEF ConfirmTypeOK, Confirmables, Executables
    <2> QED
      BY <2>1, <2>2, <2>3, <2>4 DEF ConfirmInv, Sealed
  <1>3. CASE ExecuteIntent
    <2>1. PICK c \in confirmations : Verifies(c)
      BY <1>3 DEF ExecuteIntent
    <2>2. PICK e : e = [operation |-> Operation(intent, details), at |-> time]
      OBVIOUS
    <2>3. /\ executed' = executed \cup {e} /\ intent' = intent /\ details' = details
          /\ confirmations' = confirmations /\ time' = time /\ details \in Details
      BY <1>0, <1>3, <2>2 DEF ExecuteIntent
    <2>4. e \in Executables
      BY <1>0, <2>2, <2>3, FingerprintsOfIntents DEF Executables
    <2>5. /\ IsFinancialAction(e.operation.action) /\ Shows(c, e.operation)
          /\ e.at \in c.expiresAt - TTL .. c.expiresAt
      BY <2>1, <2>2, VerifiedWasShown
    <2>6. ConfirmTypeOK'
      BY <1>0, <2>3, <2>4 DEF ConfirmTypeOK, Confirmables, Executables
    <2>7. ExecutedAsShown'
      BY <2>3, <2>5 DEF ConfirmInv, ExecutedAsShown
    <2> QED
      BY <2>3, <2>6, <2>7 DEF ConfirmInv, Sealed
  <1>4. CASE ConfirmTick
    <2>1. /\ time' = time + 1 /\ time' \in 0 .. MaxTime /\ intent' = intent
          /\ details' = details /\ confirmations' = confirmations /\ executed' = executed
      BY <1>0, <1>4 DEF ConfirmTick
    <2>2. \A c \in confirmations : c.expiresAt \in Int
      BY <1>0 DEF Confirmables
    <2>3. \A c \in confirmations : c.expiresAt <= time' + TTL
      BY <1>0, <2>1, <2>2 DEF ConfirmInv, Sealed
    <2>4. \A c \in confirmations' : Sealed(c)'
      BY <2>1, <2>3 DEF ConfirmInv, Sealed
    <2> QED
      BY <2>1, <2>4 DEF ConfirmInv, ConfirmTypeOK, ExecutedAsShown
  <1>5. CASE UNCHANGED confirmVars
    BY <1>5 DEF confirmVars, ConfirmInv, ConfirmTypeOK, ExecutedAsShown, Sealed
  <1> QED
    BY <1>1, <1>2, <1>3, <1>4, <1>5 DEF ConfirmNext

\* Money moves only under a confirmation built within its time to live, for the same action,
\* place and extent and a finite amount that was shown, whatever the user edits in between and
\* however many were shown; numbers JSON cannot write are not told apart (intentParser.ts).
THEOREM MovesAsShown == ConfirmSpec => [](ConfirmTypeOK /\ ExecutedAsShown)
  <1>1. ConfirmInv => ConfirmTypeOK /\ ExecutedAsShown
    BY DEF ConfirmInv
  <1> QED
    BY <1>1, ConfirmInitInv, ConfirmStepInv, PTL DEF ConfirmSpec

-----------------------------------------------------------------------------
(* The ring of API keys (openAiKeyManager.ts). *)

ExecutionType ==
  [at : {"idle", "choosing", "calling", "threw"}, key : KeyIndexes, attempts : 0 .. KeyCount,
   tried : SUBSET KeyIndexes, due : SUBSET KeyIndexes, alone : BOOLEAN]

\* The keys an execution has chosen, one for each attempt it made or is making.
Chosen(x) == x.attempts + IF x.at = "calling" THEN 1 ELSE 0

\* Those that were due and have not been tried have not cooled down since, and lie
\* ahead of the position by as much as leaves an attempt for each.
ReachesDue(x) ==
  \A k \in x.due \ x.tried : ~CoolsDown(k) /\ Ahead(k) + Chosen(x) < KeyCount

RotationInv ==
  /\ keyState \in [KeyIndexes -> [isHealthy : BOOLEAN, lastFailedAt : 0 .. MaxMoment]]
  /\ currentIndex \in KeyIndexes /\ moment \in 1 .. MaxMoment
  /\ execution \in [Executions -> ExecutionType]
  /\ \A e \in Executions :
       /\ e \in Running => execution[e].attempts < KeyCount
       /\ execution[e].at = "threw" => execution[e].attempts = KeyCount
       /\ execution[e].at = "calling" => execution[e].key \in execution[e].tried
       /\ execution[e].alone => Running \subseteq {e} /\ ReachesDue(execution[e])

\* The distance of a key from the position, without the remainder.
LEMMA AheadIs ==
  ASSUME NEW k \in KeyIndexes, currentIndex \in KeyIndexes
  PROVE  Ahead(k) = IF k >= currentIndex THEN k - currentIndex ELSE k + KeyCount - currentIndex
  <1>1. KeyCount \in Nat /\ KeyCount > 0 /\ k \in 0 .. KeyCount - 1 /\ currentIndex \in 0 .. KeyCount - 1
    BY RotationAssumption DEF KeyIndexes
  <1> QED
    BY <1>1 DEF Ahead

LEMMA NextIndexIs ==
  ASSUME NEW k \in KeyIndexes
  PROVE  NextIndex(k) = IF k = KeyCount - 1 THEN 0 ELSE k + 1
  BY RotationAssumption DEF KeyIndexes, NextIndex

LEMMA RotationInitInv == RotationInit => RotationInv
  <1> SUFFICES ASSUME RotationInit PROVE RotationInv
    OBVIOUS
  <1>1. 0 \in KeyIndexes /\ 0 \in 0 .. KeyCount /\ 0 \in 0 .. MaxMoment /\ 1 \in 1 .. MaxMoment
    BY RotationAssumption DEF KeyIndexes
  <1>2. NoExecution \in ExecutionType
    BY <1>1 DEF NoExecution, ExecutionType
  <1>3. \A e \in Executions : /\ execution[e] = NoExecution /\ e \notin Running
    BY DEF RotationInit, Running, NoExecution
  <1> QED
    BY <1>1, <1>2, <1>3 DEF RotationInit, RotationInv, NoExecution

\* While an execution is alone, no other runs.
LEMMA OnlyOneRuns ==
  ASSUME RotationInv, NEW e \in Running, NEW x \in Executions, execution[x].alone
  PROVE  x = e
  BY DEF RotationInv

\* An execution that runs makes a step, and the others wait.
LEMMA ExecutionMoves ==
  ASSUME RotationInv, NEW e \in Running, NEW z \in ExecutionType,
         execution' = [execution EXCEPT ![e] = z], moment' = moment,
         keyState' \in [KeyIndexes -> [isHealthy : BOOLEAN, lastFailedAt : 0 .. MaxMoment]],
         currentIndex' \in KeyIndexes,
         z.at \in {"choosing", "calling"} => z.attempts < KeyCount,
         z.at = "threw" => z.attempts = KeyCount,
         z.at = "calling" => z.key \in z.tried,
         z.alone => execution[e].alone /\ ReachesDue(z)'
  PROVE  RotationInv'
  <1>1. /\ execution' \in [Executions -> ExecutionType] /\ e \in Executions /\ execution'[e] = z
        /\ \A x \in Executions \ {e} : execution'[x] = execution[x]
    BY DEF RotationInv, Running
  <1>2. ASSUME NEW x \in Executions, execution'[x].alone
        PROVE  x = e /\ Running' \subseteq {e} /\ ReachesDue(z)'
    <2>1. x = e
      BY <1>1, <1>2, OnlyOneRuns
    <2>2. Running \subseteq {e}
      BY <1>1, <1>2, <2>1 DEF RotationInv
    <2> QED
      BY <1>1, <1>2, <2>1, <2>2 DEF Running
  <1>3. ASSUME NEW x \in Executions
        PROVE  /\ x \in Running' => execution'[x].attempts < KeyCount
               /\ execution'[x].at = "threw" => execution'[x].attempts = KeyCount
               /\ execution'[x].at = "calling" => execution'[x].key \in execution'[x].tried
    BY <1>1 DEF RotationInv, Running
  <1>4. ASSUME NEW x \in Executions, execution'[x].alone
        PROVE  Running' \subseteq {x} /\ ReachesDue(execution[x])'
    <2>1. x = e /\ z = execution'[x]
      BY <1>1, <1>2, <1>4
    <2>2. ReachesDue(z)' <=> ReachesDue(execution[x])'
      BY <2>1 DEF ReachesDue
    <2> QED
      BY <1>2, <1>4, <2>1, <2>2
  <1>5. moment' \in 1 .. MaxMoment
    BY DEF RotationInv
  <1> QED
    BY <1>1, <1>3, <1>4, <1>5 DEF RotationInv

LEMMA BeginExecutionInv ==
  ASSUME RotationInv, NEW e \in Executions, BeginExecution(e)
  PROVE  RotationInv'
  <1> DEFINE due == {k \in KeyIndexes : ~CoolsDown(k)}
             lone == Running = {}
  <1>0. lone \in BOOLEAN
    OBVIOUS
  <1>1. PICK z : z = [NoExecution EXCEPT !.at = "choosing", !.alone = lone, !.due = due]
    OBVIOUS
  <1>2. /\ z.at = "choosing" /\ z.attempts = 0 /\ z.tried = {} /\ z.due = due /\ z.alone = lone
        /\ z.key = 0
    <2> HIDE DEF due, lone
    <2> QED
      BY <1>1 DEF NoExecution
  <1>3. /\ keyState' = keyState /\ currentIndex' = currentIndex /\ moment' = moment
        /\ execution'[e] = z /\ e \notin Running
        /\ \A x \in Executions \ {e} : execution'[x] = [execution[x] EXCEPT !.alone = FALSE]
        /\ execution' = [x \in Executions |-> execution'[x]]
    BY <1>1 DEF BeginExecution
  <1>4. z \in ExecutionType
    <2>1. 0 \in KeyIndexes /\ 0 \in 0 .. KeyCount /\ due \in SUBSET KeyIndexes
      BY RotationAssumption DEF KeyIndexes
    <2> HIDE DEF due, lone
    <2> QED
      BY <1>0, <1>1, <2>1 DEF ExecutionType, NoExecution
  <1>5. ASSUME NEW x \in Executions \ {e}
        PROVE  /\ execution'[x] \in ExecutionType /\ ~execution'[x].alone
               /\ execution'[x].at = execution[x].at
               /\ execution'[x].attempts = execution[x].attempts
               /\ execution'[x].key = execution[x].key /\ execution'[x].tried = execution[x].tried
    <2>1. execution[x] \in ExecutionType
      BY DEF RotationInv
    <2> QED
      BY <1>3, <2>1 DEF ExecutionType
  <1>6. execution' \in [Executions -> ExecutionType]
    BY <1>3, <1>4, <1>5
  <1>7. z.at = "choosing" /\ z.attempts = 0 /\ z.tried = {} /\ z.due = due /\ (z.alone <=> Running = {})
    BY <1>2
  <1>8. Running' = Running \cup {e}
    BY <1>3, <1>5, <1>7 DEF Running
  <1>9. ReachesDue(execution[e])'
    <2> SUFFICES ASSUME NEW k \in due
                 PROVE  ~CoolsDown(k)' /\ (Ahead(k) + Chosen(execution[e]) < KeyCount)'
      BY <1>3, <1>7 DEF ReachesDue
    <2>1. ~CoolsDown(k)'
      BY <1>3 DEF CoolsDown
    <2>2. Ahead(k)' = Ahead(k) /\ Chosen(execution[e])' = 0
      BY <1>3, <1>7 DEF Ahead, Chosen
    <2>3. Ahead(k) < KeyCount /\ Ahead(k) \in Nat
      BY AheadIs, RotationAssumption DEF RotationInv, KeyIndexes
    <2> QED
      BY <2>1, <2>2, <2>3
  <1>10. ASSUME NEW x \in Executions
         PROVE  /\ x \in Running' => execution'[x].attempts < KeyCount
                /\ execution'[x].at = "threw" => execution'[x].attempts = KeyCount
                /\ execution'[x].at = "calling" => execution'[x].key \in execution'[x].tried
                /\ execution'[x].alone => Running' \subseteq {x} /\ ReachesDue(execution[x])'
    <2>1. CASE x = e
      BY <1>3, <1>7, <1>8, <1>9, <2>1, RotationAssumption
    <2>2. CASE x # e
      BY <1>5, <1>8, <2>2 DEF RotationInv
    <2> QED
      BY <2>1, <2>2
  <1> HIDE DEF due
  <1> QED
    BY <1>3, <1>6, <1>10 DEF RotationInv

\* The next key that is not cooling down: the ones passed over are.
LEMMA ChooseKeyInv ==
  ASSUME RotationInv, NEW e \in Executions, ChooseKey(e)
  PROVE  RotationInv'
  <1>1. PICK c \in KeyIndexes :
          /\ ~CoolsDown(c) /\ \A j \in KeyIndexes : Ahead(j) < Ahead(c) => CoolsDown(j)
          /\ keyState' = [keyState EXCEPT ![c].isHealthy = TRUE]
          /\ currentIndex' = NextIndex(c)
          /\ execution' = [execution EXCEPT ![e].at = "calling", ![e].key = c,
                                            ![e].tried = @ \cup {c}]
    BY DEF ChooseKey
  <1>2. PICK x : x = execution[e]
    OBVIOUS
  <1>3. PICK z : z = [x EXCEPT !.at = "calling", !.key = c, !.tried = x.tried \cup {c}]
    OBVIOUS
  <1>4. x \in ExecutionType /\ x.at = "choosing" /\ e \in Running /\ x.attempts < KeyCount
    BY <1>2 DEF RotationInv, ChooseKey, Running
  <1>5. execution' = [execution EXCEPT ![e] = z] /\ moment' = moment
    BY <1>1, <1>2, <1>3 DEF RotationInv, ChooseKey
  <1>6. /\ z \in ExecutionType /\ z.at = "calling" /\ z.key = c /\ z.tried = x.tried \cup {c}
        /\ z.due = x.due /\ z.alone = x.alone /\ z.attempts = x.attempts
    BY <1>3, <1>4 DEF ExecutionType
  <1>7. keyState' \in [KeyIndexes -> [isHealthy : BOOLEAN, lastFailedAt : 0 .. MaxMoment]]
    <2>1. /\ keyState \in [KeyIndexes -> [isHealthy : BOOLEAN, lastFailedAt : 0 .. MaxMoment]]
          /\ keyState' = [keyState EXCEPT ![c].isHealthy = TRUE]
      BY <1>1 DEF RotationInv
    <2>2. PICK s : s = [keyState[c] EXCEPT !.isHealthy = TRUE]
      OBVIOUS
    <2>3. s \in [isHealthy : BOOLEAN, lastFailedAt : 0 .. MaxMoment]
      BY <2>1, <2>2
    <2>4. keyState' = [keyState EXCEPT ![c] = s]
      BY <2>1, <2>2
    <2> QED
      BY <2>1, <2>3, <2>4
  <1>8. currentIndex' \in KeyIndexes
    BY <1>1, NextIndexIs, RotationAssumption DEF KeyIndexes
  <1>9. ASSUME z.alone
        PROVE  execution[e].alone /\ ReachesDue(z)'
    <2>1. execution[e].alone /\ ReachesDue(x)
      BY <1>2, <1>6, <1>9 DEF RotationInv
    <2> SUFFICES ASSUME NEW k \in z.due \ z.tried
                 PROVE  ~CoolsDown(k)' /\ Ahead(k)' + Chosen(z) < KeyCount
      BY <2>1 DEF ReachesDue, Chosen
    <2>2. /\ k \in KeyIndexes /\ k # c /\ ~CoolsDown(k) /\ Ahead(k) + Chosen(x) < KeyCount
      BY <1>4, <1>6, <2>1 DEF ReachesDue, ExecutionType
    <2>3. ~CoolsDown(k)'
      BY <1>1, <1>5, <2>2 DEF CoolsDown, RotationInv
    <2>4. ~(Ahead(k) < Ahead(c))
      BY <1>1, <2>2
    <2>5. Chosen(z) = Chosen(x) + 1 /\ Chosen(x) \in Nat
      BY <1>4, <1>6 DEF Chosen, ExecutionType
    <2>6. /\ Ahead(k) = (IF k >= currentIndex THEN k - currentIndex
                         ELSE k + KeyCount - currentIndex)
          /\ Ahead(c) = (IF c >= currentIndex THEN c - currentIndex
                         ELSE c + KeyCount - currentIndex)
      BY <2>2, AheadIs DEF RotationInv
    <2>7. currentIndex' = IF c = KeyCount - 1 THEN 0 ELSE c + 1
      BY <1>1, NextIndexIs
    <2>8. Ahead(k)' = (IF k >= currentIndex' THEN k - currentIndex'
                       ELSE k + KeyCount - currentIndex')
      BY <1>8, <2>2, <2>7, RotationAssumption DEF Ahead, KeyIndexes
    <2>9. Ahead(k)' < Ahead(k)
      BY <2>2, <2>4, <2>6, <2>7, <2>8, RotationAssumption DEF RotationInv, KeyIndexes
    <2>10. Ahead(k) \in Nat /\ Ahead(k)' \in Nat
      <3>1. /\ k \in 0 .. KeyCount - 1 /\ currentIndex \in 0 .. KeyCount - 1
            /\ currentIndex' \in 0 .. KeyCount - 1 /\ KeyCount \in Nat
        BY <1>8, <2>2, RotationAssumption DEF RotationInv, KeyIndexes
      <3>2. Ahead(k) \in Nat
        BY <2>6, <3>1
      <3>3. PICK n : n = currentIndex'
        OBVIOUS
      <3>4. (IF k >= n THEN k - n ELSE k + KeyCount - n) \in Nat
        <4>1. k \in Int /\ n \in Int /\ 0 <= k /\ n < KeyCount /\ KeyCount \in Int
          BY <3>1, <3>3
        <4>2. CASE k >= n
          BY <4>1, <4>2
        <4>3. CASE ~(k >= n)
          <5>1. k + KeyCount - n \in Int /\ k + KeyCount - n >= 0
            BY <4>1
          <5> QED
            BY <4>3, <5>1
        <4> QED
          BY <4>2, <4>3
      <3>5. Ahead(k)' = IF k >= n THEN k - n ELSE k + KeyCount - n
        BY <2>8, <3>3
      <3>6. Ahead(k)' \in Nat
        BY <3>4, <3>5
      <3> QED
        BY <3>2, <3>6
    <2> QED
      BY <2>2, <2>3, <2>5, <2>9, <2>10, RotationAssumption
  <1> QED
    BY <1>4, <1>5, <1>6, <1>7, <1>8, <1>9, ExecutionMoves

\* When all cool down, none that was due is left to try.
LEMMA ChooseFallbackInv ==
  ASSUME RotationInv, NEW e \in Executions, ChooseFallback(e)
  PROVE  RotationInv'
  <1>1. PICK c \in KeyIndexes :
          execution' = [execution EXCEPT ![e].at = "calling", ![e].key = c,
                                         ![e].tried = @ \cup {c}]
    BY DEF ChooseFallback
  <1>2. PICK x : x = execution[e]
    OBVIOUS
  <1>3. PICK z : z = [x EXCEPT !.at = "calling", !.key = c, !.tried = x.tried \cup {c}]
    OBVIOUS
  <1>4. x \in ExecutionType /\ x.at = "choosing" /\ e \in Running /\ x.attempts < KeyCount
    BY <1>2 DEF RotationInv, ChooseFallback, Running
  <1>5. /\ execution' = [execution EXCEPT ![e] = z] /\ moment' = moment
        /\ keyState' = keyState /\ currentIndex' = currentIndex
        /\ \A k \in KeyIndexes : CoolsDown(k)
    BY <1>1, <1>2, <1>3 DEF RotationInv, ChooseFallback
  <1>6. /\ z \in ExecutionType /\ z.at = "calling" /\ z.key = c /\ z.tried = x.tried \cup {c}
        /\ z.due = x.due /\ z.alone = x.alone /\ z.attempts = x.attempts
    BY <1>3, <1>4 DEF ExecutionType
  <1>7. /\ keyState' \in [KeyIndexes -> [isHealthy : BOOLEAN, lastFailedAt : 0 .. MaxMoment]]
        /\ currentIndex' \in KeyIndexes
    BY <1>5 DEF RotationInv
  <1>8. ASSUME z.alone
        PROVE  execution[e].alone /\ ReachesDue(z)'
    <2>1. execution[e].alone /\ ReachesDue(x)
      BY <1>2, <1>6, <1>8 DEF RotationInv
    <2>2. x.due \ x.tried = {}
      BY <1>4, <1>5, <2>1 DEF ReachesDue, ExecutionType
    <2> QED
      BY <1>6, <2>1, <2>2 DEF ReachesDue
  <1> QED
    BY <1>4, <1>5, <1>6, <1>7, <1>8, ExecutionMoves

LEMMA CallSucceedsInv ==
  ASSUME RotationInv, NEW e \in Executions, CallSucceeds(e)
  PROVE  RotationInv'
  <1>1. /\ execution' = [execution EXCEPT ![e] = NoExecution] /\ moment' = moment
        /\ currentIndex' = currentIndex /\ e \in Running
        /\ keyState' = [keyState EXCEPT ![execution[e].key].isHealthy = TRUE]
    BY DEF CallSucceeds, Running
  <1>2. 0 \in KeyIndexes /\ 0 \in 0 .. KeyCount
    BY RotationAssumption DEF KeyIndexes
  <1>3. /\ NoExecution \in ExecutionType /\ ~NoExecution.alone
        /\ NoExecution.at \notin {"choosing", "calling", "threw"}
    BY <1>2 DEF NoExecution, ExecutionType
  <1>4. keyState' \in [KeyIndexes -> [isHealthy : BOOLEAN, lastFailedAt : 0 .. MaxMoment]]
    BY <1>1 DEF RotationInv
  <1>5. currentIndex' \in KeyIndexes
    BY <1>1 DEF RotationInv
  <1> HIDE DEF NoExecution
  <1> QED
    BY <1>1, <1>3, <1>4, <1>5, ExecutionMoves

\* The key that failed has been tried; the others have not changed.
LEMMA CallThrowsInv ==
  ASSUME RotationInv, NEW e \in Executions, CallThrows(e)
  PROVE  RotationInv'
  <1>1. PICK x : x = execution[e]
    OBVIOUS
  <1>2. PICK healthy \in BOOLEAN :
          keyState' = [keyState EXCEPT ![x.key].isHealthy = healthy,
                                       ![x.key].lastFailedAt = moment]
    <2>1. PICK unhealthy \in BOOLEAN :
            keyState' = [keyState EXCEPT ![x.key].isHealthy = @ /\ ~unhealthy,
                                         ![x.key].lastFailedAt = moment]
      BY <1>1 DEF CallThrows
    <2>2. PICK healthy : healthy = (keyState[x.key].isHealthy /\ ~unhealthy)
      OBVIOUS
    <2>3. healthy \in BOOLEAN
      BY <2>2
    <2> QED
      BY <2>1, <2>2, <2>3
  <1> DEFINE there == IF x.attempts + 1 = KeyCount THEN "threw" ELSE "choosing"
  <1>3. PICK z : z = [x EXCEPT !.attempts = x.attempts + 1, !.at = there]
    OBVIOUS
  <1>4. /\ x \in ExecutionType /\ x.at = "calling" /\ e \in Running
        /\ x.attempts < KeyCount /\ x.key \in x.tried
    BY <1>1 DEF RotationInv, CallThrows, Running
  <1>5. /\ execution' = [execution EXCEPT ![e] = z] /\ moment' = moment
        /\ currentIndex' = currentIndex
    BY <1>1, <1>3 DEF RotationInv, CallThrows
  <1>6. x.attempts + 1 \in 0 .. KeyCount /\ there \in {"threw", "choosing"}
    BY <1>4, RotationAssumption DEF ExecutionType
  <1>7. /\ z \in ExecutionType /\ z.at = there /\ z.tried = x.tried /\ z.due = x.due
        /\ z.alone = x.alone /\ z.attempts = x.attempts + 1
    <2> HIDE DEF there
    <2> QED
      BY <1>3, <1>4, <1>6 DEF ExecutionType
  <1>8. keyState' \in [KeyIndexes -> [isHealthy : BOOLEAN, lastFailedAt : 0 .. MaxMoment]]
    <2>1. moment \in 0 .. MaxMoment
      BY RotationAssumption DEF RotationInv
    <2> QED
      BY <1>2, <2>1 DEF RotationInv
  <1>9. /\ z.at \in {"choosing", "calling"} => z.attempts < KeyCount
        /\ z.at = "threw" => z.attempts = KeyCount
        /\ z.at # "calling"
    BY <1>4, <1>6, <1>7, RotationAssumption DEF ExecutionType
  <1>10. ASSUME z.alone
         PROVE  execution[e].alone /\ ReachesDue(z)'
    <2>1. execution[e].alone /\ ReachesDue(x)
      BY <1>1, <1>7, <1>10 DEF RotationInv
    <2> SUFFICES ASSUME NEW k \in z.due \ z.tried
                 PROVE  ~CoolsDown(k)' /\ Ahead(k)' + Chosen(z) < KeyCount
      BY <2>1 DEF ReachesDue, Chosen
    <2>2. /\ k \in KeyIndexes /\ k # x.key /\ ~CoolsDown(k) /\ Ahead(k) + Chosen(x) < KeyCount
      BY <1>4, <1>7, <2>1 DEF ReachesDue, ExecutionType
    <2>3. ~CoolsDown(k)'
      <3>1. keyState'[k] = keyState[k]
        BY <1>2, <2>2 DEF RotationInv
      <3> QED
        BY <1>5, <2>2, <3>1 DEF CoolsDown
    <2>4. Ahead(k)' = Ahead(k)
      BY <1>5 DEF Ahead
    <2>5. Chosen(z) = Chosen(x)
      BY <1>4, <1>7, <1>9 DEF Chosen, ExecutionType
    <2> QED
      BY <2>2, <2>3, <2>4, <2>5
  <1> HIDE DEF there
  <1>11. currentIndex' \in KeyIndexes
    BY <1>5 DEF RotationInv
  <1> QED
    BY <1>4, <1>5, <1>7, <1>8, <1>9, <1>10, <1>11, ExecutionMoves

LEMMA MomentInv ==
  ASSUME RotationInv, MomentPasses
  PROVE  RotationInv'
  <1>1. /\ moment' \in 1 .. MaxMoment /\ moment' = moment + 1 /\ moment \in Nat
        /\ keyState' = keyState /\ currentIndex' = currentIndex /\ execution' = execution
    BY RotationAssumption DEF MomentPasses, RotationInv
  <1>2. ASSUME NEW x \in ExecutionType, ReachesDue(x)
        PROVE  ReachesDue(x)'
    <2> SUFFICES ASSUME NEW k \in x.due \ x.tried
                 PROVE  ~CoolsDown(k)' /\ Ahead(k)' + Chosen(x) < KeyCount
      BY DEF ReachesDue, Chosen
    <2>1. k \in KeyIndexes /\ ~CoolsDown(k) /\ Ahead(k) + Chosen(x) < KeyCount
      BY <1>2 DEF ReachesDue, ExecutionType
    <2>2. keyState[k].lastFailedAt \in Nat /\ CoolDown \in Nat
      BY <2>1, RotationAssumption DEF RotationInv
    <2>3. ~CoolsDown(k)'
      BY <1>1, <2>1, <2>2 DEF CoolsDown
    <2>4. Ahead(k)' = Ahead(k)
      BY <1>1 DEF Ahead
    <2> QED
      BY <2>1, <2>3, <2>4
  <1>3. ASSUME NEW e \in Executions, execution[e].alone
        PROVE  ReachesDue(execution[e])'
    <2>1. PICK x : x = execution[e] /\ x = execution'[e]
      BY <1>1
    <2>2. x \in ExecutionType /\ ReachesDue(x)
      BY <1>3, <2>1 DEF RotationInv
    <2>3. ReachesDue(x)'
      BY <1>2, <2>2
    <2> QED
      BY <2>1, <2>3 DEF ReachesDue
  <1>4. Running' = Running
    BY <1>1 DEF Running
  <1> QED
    BY <1>1, <1>3, <1>4 DEF RotationInv

LEMMA RotationStepInv ==
  ASSUME RotationInv, [RotationNext]_rotationVars
  PROVE  RotationInv'
  <1>1. CASE UNCHANGED rotationVars
    BY <1>1 DEF rotationVars, RotationInv, Running, ReachesDue, CoolsDown, Ahead, Chosen
  <1> QED
    BY <1>1, MomentInv, BeginExecutionInv, ChooseKeyInv, ChooseFallbackInv, CallSucceedsInv,
       CallThrowsInv DEF RotationNext

\* "All keys failed" is true of an execution that ran alone, whatever number of
\* keys cool down, recover and fail while it goes round the ring.
THEOREM AllKeysWereTried == RotationSpec => [](RotationTypeOK /\ ThrowsAfterEveryKey)
  <1>1. RotationInv => RotationTypeOK
    BY DEF RotationInv, RotationTypeOK, ExecutionType
  <1>2. RotationInv => ThrowsAfterEveryKey
    <2> SUFFICES ASSUME RotationInv, NEW e \in Executions, execution[e].at = "threw",
                        execution[e].alone, NEW k \in execution[e].due \ execution[e].tried
                 PROVE  FALSE
      BY DEF ThrowsAfterEveryKey
    <2>1. execution[e].attempts = KeyCount /\ ReachesDue(execution[e]) /\ k \in KeyIndexes
      BY DEF RotationInv, ExecutionType
    <2>2. Ahead(k) + KeyCount < KeyCount
      BY <2>1, RotationAssumption DEF ReachesDue, Chosen
    <2>3. Ahead(k) \in Nat
      <3>1. KeyCount \in Nat /\ k \in 0 .. KeyCount - 1 /\ currentIndex \in 0 .. KeyCount - 1
        BY <2>1, RotationAssumption DEF RotationInv, KeyIndexes
      <3>2. Ahead(k) = IF k >= currentIndex THEN k - currentIndex ELSE k + KeyCount - currentIndex
        BY <2>1, AheadIs DEF RotationInv
      <3> QED
        BY <3>1, <3>2
    <2> QED
      BY <2>2, <2>3, RotationAssumption
  <1> QED
    BY <1>1, <1>2, RotationInitInv, RotationStepInv, PTL DEF RotationSpec

\* The three machines of the parser together.
THEOREM IntentSafe == LlmSpec /\ ConfirmSpec /\ RotationSpec => []IntentSafety
  <1>1. LlmTypeOK /\ ClosedHasFewFailures /\ (ConfirmTypeOK /\ ExecutedAsShown)
        /\ (RotationTypeOK /\ ThrowsAfterEveryKey) => IntentSafety
    BY DEF IntentSafety
  <1> QED
    BY <1>1, LlmTypeCorrectness, ClosedFewFailures, MovesAsShown, AllKeysWereTried, PTL

-----------------------------------------------------------------------------
(* The custody of keys (custodialKeypair.ts). *)

\* The audit log names an address, or an entry that would is due or was lost.
Accounted(a) ==
  a \in named \cup unlogged \/ \E k \in Keepers : keeper[k].at = "logging" /\ keeper[k].key = a

KeeperType == [at : {"idle", "reading", "announcing", "sealing", "writing", "logging",
                     "loading", "opening", "returned", "rejected"},
               rotates : BOOLEAN, old : Keypairs, key : Keypairs]

\* Past its announcement, a rotation has named the keypair it read, or failed to.
AnnouncedOld ==
  \A k \in Keepers : keeper[k].rotates /\ keeper[k].at \in {"sealing", "writing"} =>
    keeper[k].old \in named \cup unannounced

LogType == named \subseteq Keypairs /\ unlogged \subseteq Keypairs /\ unannounced \subseteq Keypairs

\* The address in the row is accounted for as well, before it is replaced.
CustodyInv ==
  /\ keeper \in [Keepers -> KeeperType]
  /\ drawn \in Keypairs /\ row \in Keypairs
  /\ replaced \subseteq Keypairs /\ rotated \subseteq Keypairs /\ LogType
  /\ row # 0 => Accounted(row)
  /\ \A a \in replaced : Accounted(a)
  /\ AnnouncedOld /\ RotatedIsAnnounced

LEMMA ZeroIsAKeypair == 0 \in Keypairs
  BY CustodyAssumption DEF Keypairs

LEMMA CustodyInitInv == CustodyInit => CustodyInv
  BY ZeroIsAKeypair DEF CustodyInit, CustodyInv, LogType, AnnouncedOld, RotatedIsAnnounced,
                        IdleKeeper, KeeperType

\* A step that writes no row, and loses no entry that is due, keeps the invariant.
LEMMA AccountedKept ==
  ASSUME CustodyInv,
         keeper' \in [Keepers -> KeeperType],
         drawn' \in Keypairs, UNCHANGED users, LogType', AnnouncedOld',
         named \cup unlogged \subseteq named' \cup unlogged',
         named \cup unannounced \subseteq named' \cup unannounced',
         \A k \in Keepers : keeper[k].at = "logging" =>
           \/ keeper[k].key \in named' \cup unlogged'
           \/ keeper'[k].at = "logging" /\ keeper'[k].key = keeper[k].key
  PROVE  CustodyInv'
  <1>1. ASSUME NEW a, Accounted(a) PROVE Accounted(a)'
    BY <1>1 DEF Accounted
  <1> QED
    BY <1>1 DEF CustodyInv, RotatedIsAnnounced, users

\* The row is written by a call that is about to log.
LEMMA WritesRowInv ==
  ASSUME CustodyInv, NEW k \in Keepers, WritesRow(k)
  PROVE  CustodyInv'
  <1> USE DEF CustodyInv
  <1>1. /\ row' = keeper[k].key
        /\ keeper' = [keeper EXCEPT ![k].at = "logging"]
        /\ replaced' = replaced \cup ({row} \ {0})
        /\ drawn' = drawn /\ named' = named /\ unlogged' = unlogged /\ unannounced' = unannounced
    BY DEF WritesRow, Moves, audit
  <1>0. PICK z : z = [keeper[k] EXCEPT !.at = "logging"]
    OBVIOUS
  <1>2. keeper' \in [Keepers -> KeeperType]
    <2>1. keeper[k] \in KeeperType
      OBVIOUS
    <2>2. z \in KeeperType
      BY <1>0, <2>1 DEF KeeperType
    <2>3. keeper' = [keeper EXCEPT ![k] = z]
      BY <1>0, <1>1
    <2> QED
      BY <2>2, <2>3
  <1>3. keeper'[k].at = "logging" /\ keeper'[k].key = keeper[k].key
    BY <1>1 DEF KeeperType
  <1>4. \A j \in Keepers \ {k} : keeper'[j] = keeper[j]
    BY <1>1
  <1>5. keeper[k].at = "writing"
    BY DEF WritesRow
  <1>6. ASSUME NEW a, Accounted(a) PROVE Accounted(a)'
    <2>1. CASE a \in named \cup unlogged
      BY <1>1, <2>1 DEF Accounted
    <2>2. ASSUME NEW j \in Keepers, keeper[j].at = "logging", keeper[j].key = a
          PROVE  Accounted(a)'
      <3>1. j # k
        BY <1>5, <2>2
      <3>2. keeper'[j] = keeper[j]
        BY <1>4, <3>1
      <3> QED
        BY <2>2, <3>2 DEF Accounted
    <2> QED
      BY <1>6, <2>1, <2>2 DEF Accounted
  <1>7. Accounted(row)'
    BY <1>1, <1>3 DEF Accounted
  <1>8. \A a \in replaced' : Accounted(a)'
    BY <1>1, <1>6
  <1>9. keeper[k].key \in Keypairs
    BY DEF KeeperType
  <1>10. row' \in Keypairs /\ LogType'
    BY <1>1, <1>9 DEF LogType
  <1>11. replaced' \subseteq Keypairs /\ rotated' \subseteq Keypairs
    BY <1>1 DEF WritesRow
  <1>12. RotatedIsAnnounced'
    BY <1>1, <1>5 DEF WritesRow, RotatedIsAnnounced, AnnouncedOld
  <1>13. AnnouncedOld'
    BY <1>1, <1>3, <1>4 DEF AnnouncedOld
  <1> QED
    BY <1>1, <1>2, <1>7, <1>8, <1>10, <1>11, <1>12, <1>13

LEMMA CustodyStepInv ==
  ASSUME CustodyInv, [CustodyNext]_custodyVars
  PROVE  CustodyInv'
  <1> USE DEF CustodyInv
  <1> DEFINE Due == \A k \in Keepers : keeper[k].at = "logging" =>
               \/ keeper[k].key \in named' \cup unlogged'
               \/ keeper'[k].at = "logging" /\ keeper'[k].key = keeper[k].key
  <1>1. ASSUME NEW k \in Keepers, WritesRow(k) PROVE CustodyInv'
    BY <1>1, WritesRowInv
  <1>2. ASSUME NEW k \in Keepers, EndsGeneration(k) PROVE CustodyInv'
    <2>1. keeper' = [keeper EXCEPT ![k].at = "rejected"]
      BY <1>2 DEF EndsGeneration, AfterLogging, Moves
    <2>2. keeper' \in [Keepers -> KeeperType] /\ drawn' \in Keypairs /\ UNCHANGED users
      BY <1>2, <2>1 DEF EndsGeneration, KeeperType
    <2>3. /\ keeper[k].key \in named' \cup unlogged'
          /\ named \cup unlogged \subseteq named' \cup unlogged'
          /\ named \cup unannounced \subseteq named' \cup unannounced'
      BY <1>2 DEF EndsGeneration, LogsGenerated, Logs
    <2>4. Due
      BY <2>1, <2>3
    <2>5. LogType'
      BY <1>2 DEF EndsGeneration, LogsGenerated, Logs, KeeperType, LogType
    <2>6. AnnouncedOld'
      BY <2>1, <2>3 DEF AnnouncedOld
    <2> QED
      BY <2>2, <2>3, <2>4, <2>5, <2>6, AccountedKept
  <1>3. ASSUME NEW k \in Keepers,
               \/ BeginRotation(k) \/ ReadsRow(k) \/ AnnouncesRotation(k)
               \/ BeginGeneration(k) \/ SealsSecret(k) \/ BeginSigning(k)
               \/ LoadsSecret(k) \/ OpensSecret(k) \/ CustodyFails(k)
        PROVE  CustodyInv'
    <2> USE DEF Moves, Draws
    <2>1. keeper' \in [Keepers -> KeeperType] /\ drawn' \in Keypairs
      <3>1. CASE BeginRotation(k)
        <4>1. [IdleKeeper EXCEPT !.at = "reading", !.rotates = TRUE] \in KeeperType
          BY ZeroIsAKeypair DEF IdleKeeper, KeeperType
        <4> QED
          BY <3>1, <4>1 DEF BeginRotation
      <3>2. CASE ReadsRow(k)
        <4>1. keeper[k] \in KeeperType /\ row \in Keypairs
          OBVIOUS
        <4>2. [keeper[k] EXCEPT !.at = "announcing", !.old = row] \in KeeperType
          BY <4>1 DEF KeeperType
        <4>3. keeper' = [keeper EXCEPT ![k] = [keeper[k] EXCEPT !.at = "announcing",
                                                               !.old = row]]
          BY <3>2 DEF ReadsRow
        <4> QED
          BY <3>2, <4>2, <4>3 DEF ReadsRow
      <3>3. ASSUME NEW rotates \in BOOLEAN, NEW old \in Keypairs, Draws(k, rotates, old)
            PROVE  keeper' \in [Keepers -> KeeperType] /\ drawn' \in Keypairs
        <4>1. drawn' \in Keypairs
          BY <3>3, CustodyAssumption DEF Keypairs
        <4>2. [IdleKeeper EXCEPT !.at = "sealing", !.rotates = rotates, !.old = old,
                                 !.key = drawn'] \in KeeperType
          BY <4>1 DEF IdleKeeper, KeeperType
        <4> QED
          BY <3>3, <4>1, <4>2
      <3>4. CASE AnnouncesRotation(k) \/ BeginGeneration(k)
        <4>1. keeper[k].old \in Keypairs /\ 0 \in Keypairs
          BY ZeroIsAKeypair DEF KeeperType
        <4> QED
          BY <3>3, <3>4, <4>1 DEF AnnouncesRotation, BeginGeneration
      <3>5. CASE SealsSecret(k) \/ OpensSecret(k) \/ CustodyFails(k)
        BY <3>5 DEF SealsSecret, OpensSecret, CustodyFails, KeeperType
      <3>6. CASE BeginSigning(k)
        <4>1. [IdleKeeper EXCEPT !.at = "loading"] \in KeeperType
          BY ZeroIsAKeypair DEF IdleKeeper, KeeperType
        <4> QED
          BY <3>6, <4>1 DEF BeginSigning
      <3>7. CASE LoadsSecret(k)
        <4> DEFINE to == IF row = 0 THEN "returned" ELSE "opening"
        <4>1. keeper[k] \in KeeperType /\ row \in Keypairs
          OBVIOUS
        <4>2. to \in {"returned", "opening"}
          OBVIOUS
        <4>3. keeper' = [keeper EXCEPT ![k] = [keeper[k] EXCEPT !.at = to, !.key = row]]
          BY <3>7 DEF LoadsSecret
        <4> HIDE DEF to
        <4>4. [keeper[k] EXCEPT !.at = to, !.key = row] \in KeeperType
          BY <4>1, <4>2 DEF KeeperType
        <4>5. drawn' = drawn
          BY <1>3, <3>7 DEF LoadsSecret
        <4>6. PICK z : z = [keeper[k] EXCEPT !.at = to, !.key = row]
          OBVIOUS
        <4>7. keeper' = [keeper EXCEPT ![k] = z] /\ z \in KeeperType
          BY <4>3, <4>4, <4>6
        <4> QED
          BY <4>5, <4>7
      <3> QED
        BY <1>3, <3>1, <3>2, <3>4, <3>5, <3>6, <3>7
    <2>2. /\ UNCHANGED users
          /\ named \cup unlogged \subseteq named' \cup unlogged'
          /\ named \cup unannounced \subseteq named' \cup unannounced'
      BY <1>3 DEF BeginRotation, ReadsRow, AnnouncesRotation, BeginGeneration, SealsSecret,
                  BeginSigning, LoadsSecret, OpensSecret, CustodyFails, Logs, audit
    <2>3. keeper[k].at # "logging"
      BY <1>3 DEF BeginRotation, ReadsRow, AnnouncesRotation, BeginGeneration, SealsSecret,
                  BeginSigning, LoadsSecret, OpensSecret, CustodyFails, Free
    <2>4. \A j \in Keepers \ {k} : keeper'[j] = keeper[j]
      BY <1>3 DEF BeginRotation, ReadsRow, AnnouncesRotation, BeginGeneration, SealsSecret,
                  BeginSigning, LoadsSecret, OpensSecret, CustodyFails
    <2>5. Due
      BY <2>3, <2>4
    <2>6. LogType'
      BY <1>3 DEF BeginRotation, ReadsRow, AnnouncesRotation, BeginGeneration, SealsSecret,
                  BeginSigning, LoadsSecret, OpensSecret, CustodyFails, Logs, audit, KeeperType, LogType
    <2>7. keeper'[k].rotates /\ keeper'[k].at \in {"sealing", "writing"} =>
            keeper'[k].old \in named' \cup unannounced'
      <3>1. CASE BeginRotation(k) \/ BeginSigning(k)
        <4>1. keeper'[k].at \in {"reading", "loading"}
          <5>1. CASE BeginRotation(k)
            BY <5>1 DEF BeginRotation, IdleKeeper
          <5>2. CASE BeginSigning(k)
            BY <5>2 DEF BeginSigning, IdleKeeper
          <5> QED
            BY <3>1, <5>1, <5>2
        <4> QED
          BY <4>1
      <3>2. CASE ReadsRow(k) \/ LoadsSecret(k) \/ OpensSecret(k) \/ CustodyFails(k)
        BY <3>2 DEF ReadsRow, LoadsSecret, OpensSecret, CustodyFails, KeeperType
      <3>3. CASE AnnouncesRotation(k)
        BY <3>3 DEF AnnouncesRotation, Logs, IdleKeeper
      <3>4. CASE BeginGeneration(k)
        BY <3>4 DEF BeginGeneration, IdleKeeper
      <3>5. CASE SealsSecret(k)
        BY <2>2, <3>5 DEF SealsSecret, AnnouncedOld
      <3> QED
        BY <1>3, <3>1, <3>2, <3>3, <3>4, <3>5
    <2>8. AnnouncedOld'
      BY <2>2, <2>4, <2>7 DEF AnnouncedOld
    <2> QED
      BY <2>1, <2>2, <2>5, <2>6, <2>8, AccountedKept
  <1>4. CASE KeeperDies
    <2>1. /\ keeper' = [k \in Keepers |-> IF Free(k) THEN keeper[k] ELSE IdleKeeper]
          /\ unlogged' = unlogged \cup
               {keeper[k].key : k \in {x \in Keepers : keeper[x].at = "logging"}}
          /\ UNCHANGED <<drawn, named, unannounced>> /\ UNCHANGED users
      BY <1>4 DEF KeeperDies
    <2>2. keeper' \in [Keepers -> KeeperType]
      BY <2>1, ZeroIsAKeypair DEF IdleKeeper, KeeperType
    <2>3. Due
      BY <2>1
    <2>4. LogType'
      BY <2>1 DEF KeeperType, LogType
    <2>5. AnnouncedOld'
      BY <2>1 DEF AnnouncedOld, IdleKeeper, Free
    <2> QED
      BY <2>1, <2>2, <2>3, <2>4, <2>5, AccountedKept
  <1>5. CASE UNCHANGED custodyVars
    BY <1>5, AccountedKept DEF custodyVars, users, LogType, AnnouncedOld
  <1> QED
    BY <1>1, <1>2, <1>3, <1>4, <1>5 DEF CustodyNext

\* However calls overlap, fail or die, an address that was the user's and was replaced is
\* missing from the audit log only when an entry failed or died, and one that a rotation had
\* read only when its announcement failed (custodialKeypair.ts).
THEOREM AddressesStayNamed == CustodySpec => []AddressesNamed
  <1>1. CustodyInv => CustodyTypeOK
    BY DEF CustodyInv, CustodyTypeOK, KeeperType, LogType
  <1>2. CustodyInv => ReplacedIsNamed /\ RotatedIsAnnounced
    BY DEF CustodyInv, ReplacedIsNamed, Accounted
  <1>3. CustodyInv => AddressesNamed
    BY <1>1, <1>2 DEF AddressesNamed
  <1> QED
    BY <1>3, CustodyInitInv, CustodyStepInv, PTL DEF CustodySpec

-----------------------------------------------------------------------------
(***************************************************************************)
(* The contract's governance: nobody shortens the notice of an upgrade or   *)
(* of a new agent, for every delay and every set of keys and codes.  The    *)
(* argument: while a proposal is pending, its expiry lies a whole delay     *)
(* after the notice.                                                        *)
(***************************************************************************)


\* What the storage keeps true of a proposal under way.
ExpiryIsDelayed ==
  \A k \in Proposals : IsPending(k) => proposal[k].expiry = noticeAt[k] + Timelock

ProposalsTyped ==
  proposal \in [Proposals -> [value : Keys \cup WasmHashes \cup {Nothing}, expiry : Nat]]

GovernanceInv == GovernanceTypeOK /\ ProposalsTyped /\ ExpiryIsDelayed

\* A pending proposal names a value that is one, an absent one does not.
LEMMA PendingNamesAValue ==
  ASSUME GovernanceTypeOK, NEW k \in Proposals
  PROVE  /\ IsPending(k) <=> proposal[k].value # Nothing
         /\ IsPending(k) => proposal[k].value \in Subjects[k]
  <1>1. Subjects["agent"] = Keys /\ Subjects["upgrade"] = WasmHashes
    BY DEF Subjects
  <1>2. Nothing \notin Subjects[k]
    BY <1>1, GovernanceAssumption DEF Proposals
  <1>3. proposal[k] = None \/ proposal[k].value \in Subjects[k]
    BY DEF GovernanceTypeOK
  <1> QED
    BY <1>2, <1>3 DEF IsPending, None

\* The initial state satisfies the invariant.
LEMMA GovernanceInitInv == GovernanceInit => GovernanceInv
  <1> SUFFICES ASSUME GovernanceInit PROVE GovernanceInv
    OBVIOUS
  <1>1. keys \in [Roles -> Keys \cup {Nothing}]
    <2>1. PICK o \in Keys, a \in Keys : keys = [r \in Roles |->
             CASE r = "owner" -> o [] r = "agent" -> a [] OTHER -> Nothing]
      BY DEF GovernanceInit
    <2>2. \A r \in Roles : (CASE r = "owner" -> o [] r = "agent" -> a [] OTHER -> Nothing)
                              \in Keys \cup {Nothing}
      OBVIOUS
    <2> QED
      BY <2>1, <2>2
  <1>2. proposal = [k \in Proposals |-> None] /\ noticeAt \in [Proposals -> 0..MaxLedger]
    BY GovernanceAssumption DEF GovernanceInit
  <1>3. GovernanceTypeOK
    <2>1. \A k \in Proposals : proposal[k] = None
      BY <1>2
    <2>2. now \in 0..MaxLedger
      BY GovernanceAssumption DEF GovernanceInit
    <2>3. code \in WasmHashes /\ contractPaused \in BOOLEAN
      BY DEF GovernanceInit
    <2> QED
      BY <1>1, <1>2, <2>1, <2>2, <2>3 DEF GovernanceTypeOK
  <1>4. ProposalsTyped
    BY <1>2 DEF ProposalsTyped, None
  <1>5. ExpiryIsDelayed
    BY <1>2 DEF ExpiryIsDelayed, IsPending
  <1> QED
    BY <1>3, <1>4, <1>5 DEF GovernanceInv

\* A new proposal keeps the invariant.
LEMMA ProposeInv ==
  ASSUME GovernanceInv, NEW k \in Proposals, NEW v \in Subjects[k], Propose(k, v)
  PROVE  GovernanceInv'
  <1> DEFINE p == [value |-> v, expiry |-> Expiry(k)]
  <1> USE GovernanceAssumption
  <1>1. now \in Nat /\ now \in 0..MaxLedger /\ now + Timelock \in Nat
    BY DEF GovernanceInv, GovernanceTypeOK
  <1>2. v \in Keys \cup WasmHashes
    BY DEF Subjects, Proposals
  <1>3. /\ proposal' = [proposal EXCEPT ![k] = p]
        /\ noticeAt' = [noticeAt EXCEPT ![k] = now]
    BY DEF Propose
  <1>4. \A j \in Proposals : /\ proposal'[j] = IF j = k THEN p ELSE proposal[j]
                             /\ noticeAt'[j] = IF j = k THEN now ELSE noticeAt[j]
    BY <1>3 DEF GovernanceInv, GovernanceTypeOK, ProposalsTyped
  <1>5. p.value \in Subjects[k] /\ p.expiry = now + Timelock
    BY DEF Expiry
  <1>6. ProposalsTyped'
    BY <1>1, <1>2, <1>3 DEF GovernanceInv, ProposalsTyped, Expiry
  <1>7. noticeAt' \in [Proposals -> 0..MaxLedger]
    BY <1>1, <1>3 DEF GovernanceInv, GovernanceTypeOK
  <1>8. GovernanceTypeOK'
    <2>1. \A j \in Proposals : \/ proposal'[j] = None
                               \/ proposal'[j].value \in Subjects[j] /\ proposal'[j].expiry \in Nat
      BY <1>1, <1>4, <1>5 DEF GovernanceInv, GovernanceTypeOK
    <2> QED
      BY <1>7, <2>1 DEF GovernanceInv, GovernanceTypeOK, Propose
  <1>9. ExpiryIsDelayed'
    BY <1>4, <1>5 DEF GovernanceInv, ExpiryIsDelayed, IsPending
  <1> QED
    BY <1>6, <1>8, <1>9 DEF GovernanceInv

\* Dropping a proposal keeps the invariant, whatever becomes of the keys and the code.
LEMMA DropInv ==
  ASSUME GovernanceInv, NEW k \in Proposals,
         proposal' = [proposal EXCEPT ![k] = None], UNCHANGED <<now, noticeAt>>,
         keys' \in [Roles -> Keys \cup {Nothing}],
         code' \in WasmHashes, contractPaused' \in BOOLEAN
  PROVE  GovernanceInv'
  <1>1. \A j \in Proposals : proposal'[j] = IF j = k THEN None ELSE proposal[j]
    BY DEF GovernanceInv, ProposalsTyped
  <1>2. ProposalsTyped'
    BY DEF GovernanceInv, ProposalsTyped, None
  <1>3. GovernanceTypeOK'
    BY <1>1 DEF GovernanceInv, GovernanceTypeOK
  <1>4. ExpiryIsDelayed'
    BY <1>1 DEF GovernanceInv, ExpiryIsDelayed, IsPending
  <1> QED
    BY <1>2, <1>3, <1>4 DEF GovernanceInv

\* So does a step that leaves the proposals alone.
LEMMA KeepInv ==
  ASSUME GovernanceInv, UNCHANGED <<proposal, noticeAt>>, now' \in 0..MaxLedger,
         keys' \in [Roles -> Keys \cup {Nothing}],
         code' \in WasmHashes, contractPaused' \in BOOLEAN
  PROVE  GovernanceInv'
  BY DEF GovernanceInv, GovernanceTypeOK, ProposalsTyped, ExpiryIsDelayed, IsPending

\* Every step keeps the invariant.
LEMMA GovernanceStepInv ==
  ASSUME GovernanceInv, [GovernanceNext]_governanceVars
  PROVE  GovernanceInv'
  <1> USE DEF GovernanceInv, GovernanceTypeOK
  <1>1. ASSUME NEW v \in Keys, UpdateAgent(v) PROVE GovernanceInv'
    <2>1. "agent" \in Proposals /\ v \in Subjects["agent"] /\ Propose("agent", v)
      BY <1>1 DEF UpdateAgent, Proposals, Subjects
    <2> QED
      BY <2>1, ProposeInv
  <1>2. ASSUME NEW h \in WasmHashes, ScheduleUpgrade(h) PROVE GovernanceInv'
    <2>1. "upgrade" \in Proposals /\ h \in Subjects["upgrade"] /\ Propose("upgrade", h)
      BY <1>2 DEF ScheduleUpgrade, Proposals, Subjects
    <2> QED
      BY <2>1, ProposeInv
  <1>3. CASE CancelAgentUpdate
    BY <1>3, DropInv DEF CancelAgentUpdate, Withdraw, others, Proposals
  <1>4. CASE CancelUpgrade
    BY <1>4, DropInv DEF CancelUpgrade, Withdraw, others, Proposals
  <1>5. CASE ConfirmAgentUpdate
    <2>1. proposal["agent"].value \in Keys
      BY <1>5, PendingNamesAValue DEF ConfirmAgentUpdate, Ripe, Proposals, Subjects
    <2>2. keys' \in [Roles -> Keys \cup {Nothing}]
      BY <1>5, <2>1 DEF ConfirmAgentUpdate, Set, Roles
    <2> QED
      BY <1>5, <2>2, DropInv DEF ConfirmAgentUpdate, others, Proposals
  <1>6. CASE ExecuteUpgrade
    <2>1. proposal["upgrade"].value \in WasmHashes
      BY <1>6, PendingNamesAValue DEF ExecuteUpgrade, Ripe, Proposals, Subjects
    <2> QED
      BY <1>6, <2>1, DropInv DEF ExecuteUpgrade, Proposals
  <1>7. ASSUME NEW r \in Roles, NEW v \in Keys \cup {Nothing}, Appoints(r, v)
        PROVE  GovernanceInv'
    BY <1>7, KeepInv DEF Appoints, Set, others
  <1>8. CASE SwitchToStandbyAgent
    <2>1. keys' \in [Roles -> Keys \cup {Nothing}]
      BY <1>8 DEF SwitchToStandbyAgent, Roles
    <2> QED
      BY <1>8, <2>1, KeepInv DEF SwitchToStandbyAgent, others
  <1>9. CASE AcceptOwnership
    <2>1. keys' \in [Roles -> Keys \cup {Nothing}]
      BY <1>9 DEF AcceptOwnership, Roles
    <2> QED
      BY <1>9, <2>1, KeepInv DEF AcceptOwnership, others
  <1>10. CASE NextLedger
    BY <1>10, KeepInv, GovernanceAssumption DEF NextLedger
  <1>11. CASE PauseOrResume
    BY <1>11, KeepInv DEF PauseOrResume
  <1>12. CASE UNCHANGED governanceVars
    BY <1>12, KeepInv DEF governanceVars
  <1> QED
    BY <1>1, <1>2, <1>3, <1>4, <1>5, <1>6, <1>7, <1>8, <1>9, <1>10, <1>11, <1>12
    DEF GovernanceNext, UpdateStandbyAgent, SetGuardian, TransferOwnership, RemoveGuardian,
        CancelOwnershipTransfer, Roles

\* A pending proposal ripens no sooner than its notice plus the timelock, whoever proposes,
\* withdraws or hands over, for any keys and hashes.
THEOREM GovernanceInvariant == GovernanceSpec => []GovernanceInv
  BY GovernanceInitInv, GovernanceStepInv, PTL DEF GovernanceSpec

-----------------------------------------------------------------------------
(* What watchers of the chain rely on. *)

\* The step of NoticeIsGiven.
NoticeStep ==
  /\ code' # code => now >= noticeAt["upgrade"] + Timelock
  /\ keys'["agent"] # keys["agent"]
       => \/ keys'["agent"] = keys["standby"]
          \/ now >= noticeAt["agent"] + Timelock

\* A ripe proposal has been announced for the whole delay.
LEMMA RipeHasWaited ==
  ASSUME GovernanceInv, NEW k \in Proposals, Ripe(k)
  PROVE  now >= noticeAt[k] + Timelock
  BY DEF GovernanceInv, ExpiryIsDelayed, Ripe

LEMMA GovernanceStepNotice ==
  ASSUME GovernanceInv, GovernanceNext
  PROVE  NoticeStep
  <1> USE DEF GovernanceInv, GovernanceTypeOK
  <1>1. CASE ConfirmAgentUpdate
    BY <1>1, RipeHasWaited DEF ConfirmAgentUpdate, NoticeStep, others, Proposals
  <1>2. CASE ExecuteUpgrade
    BY <1>2, RipeHasWaited DEF ExecuteUpgrade, NoticeStep, Proposals
  <1>3. CASE SwitchToStandbyAgent
    BY <1>3 DEF SwitchToStandbyAgent, NoticeStep, others, Roles
  <1>4. CASE AcceptOwnership
    BY <1>4 DEF AcceptOwnership, NoticeStep, others, Roles
  <1>5. ASSUME NEW r \in Roles \ {"agent"}, NEW v, Appoints(r, v) PROVE NoticeStep
    BY <1>5 DEF Appoints, Set, NoticeStep, others, Roles
  <1>6. CASE UNCHANGED <<keys, code>>
    BY <1>6 DEF NoticeStep
  <1> QED
    BY <1>1, <1>2, <1>3, <1>4, <1>5, <1>6
    DEF GovernanceNext, UpdateStandbyAgent, SetGuardian, TransferOwnership, RemoveGuardian,
        CancelOwnershipTransfer, UpdateAgent, ScheduleUpgrade, Propose, CancelAgentUpdate,
        CancelUpgrade, Withdraw, NextLedger, PauseOrResume, others, Roles

\* New code, or a new agent that did not stand by, comes into force only after
\* the whole notice (update_agent, confirm, schedule_upgrade, execute_upgrade).
THEOREM NoticeGiven == GovernanceSpec => NoticeIsGiven
  <1>1. GovernanceInv /\ [GovernanceNext]_governanceVars => [NoticeStep]_governanceVars
    BY GovernanceStepNotice
  <1> QED
    BY <1>1, GovernanceInvariant, PTL DEF GovernanceSpec, NoticeIsGiven, NoticeStep

-----------------------------------------------------------------------------
(* The upgrade implements the abstract timelock. *)

LEMMA UpgradeInit == GovernanceInit => Upgrade!LockInit
  BY DEF GovernanceInit, Upgrade!LockInit, None, Proposals

LEMMA UpgradeStep ==
  ASSUME GovernanceInv, [GovernanceNext]_governanceVars
  PROVE  [Upgrade!LockNext]_(Upgrade!lockVars)
  <1> USE DEF GovernanceInv, GovernanceTypeOK, ProposalsTyped, Upgrade!LockNext, Upgrade!lockVars
  <1>1. "upgrade" \in Proposals /\ "agent" \in Proposals
    BY DEF Proposals
  <1>2. IsPending("upgrade") <=> proposal["upgrade"].value # Nothing
    BY <1>1, PendingNamesAValue
  <1>3. ASSUME NEW h \in WasmHashes, ScheduleUpgrade(h) PROVE Upgrade!Announce
    BY <1>1, <1>2, <1>3 DEF ScheduleUpgrade, Propose, Upgrade!Announce
  <1>4. CASE CancelUpgrade
    BY <1>1, <1>2, <1>4 DEF CancelUpgrade, Withdraw, others, None, Upgrade!Retract
  <1>5. CASE ExecuteUpgrade
    BY <1>1, <1>2, <1>5, RipeHasWaited DEF ExecuteUpgrade, Ripe, None, Upgrade!TakeEffect
  <1>6. CASE NextLedger
    BY <1>6 DEF NextLedger, Upgrade!TimeGoesOn
  <1>7. CASE UNCHANGED <<now, proposal["upgrade"], noticeAt["upgrade"], code>>
    BY <1>7
  <1>8. ASSUME NEW v \in Keys, UpdateAgent(v)
        PROVE  UNCHANGED <<now, proposal["upgrade"], noticeAt["upgrade"], code>>
    BY <1>1, <1>8 DEF UpdateAgent, Propose
  <1>9. ASSUME CancelAgentUpdate \/ ConfirmAgentUpdate
        PROVE  UNCHANGED <<now, proposal["upgrade"], noticeAt["upgrade"], code>>
    BY <1>1, <1>9 DEF CancelAgentUpdate, Withdraw, ConfirmAgentUpdate, others
  <1>10. ASSUME UNCHANGED <<now, proposal, noticeAt, code>>
         PROVE  UNCHANGED <<now, proposal["upgrade"], noticeAt["upgrade"], code>>
    BY <1>10
  <1> QED
    BY <1>3, <1>4, <1>5, <1>6, <1>7, <1>8, <1>9, <1>10
    DEF GovernanceNext, governanceVars, UpdateStandbyAgent, SetGuardian, TransferOwnership,
        RemoveGuardian, CancelOwnershipTransfer, Appoints, SwitchToStandbyAgent,
        AcceptOwnership, PauseOrResume, others

\* Proposing, withdrawing, executing and the pause leave no other way for new
\* code to come into force than the timelock has.
THEOREM UpgradeTimelocked == GovernanceSpec => UpgradeIsTimelocked
  <1>1. GovernanceInv /\ [GovernanceNext]_governanceVars => [Upgrade!LockNext]_(Upgrade!lockVars)
    BY UpgradeStep
  <1> QED
    BY <1>1, UpgradeInit, GovernanceInvariant, PTL
    DEF GovernanceSpec, UpgradeIsTimelocked, Upgrade!LockSpec

-----------------------------------------------------------------------------
(***************************************************************************)
(* The backups of the agent's state (stateBackup.ts).  What a backup that    *)
(* is alone has written stays as it wrote it, so that the stamp it settles   *)
(* is what every store holds; later writes are newer.                       *)
(***************************************************************************)

BackupRecords == [at : 0 .. Stores + 1, state : States, failed : 0 .. Stores, alone : BOOLEAN]
Restorations == [at : 0 .. Stores + 1, threw : BOOLEAN, state : States]

\* A backup under way carries a stamped state of this release, newer than
\* what is settled; one that is alone has left its state behind.
BackupStands(b) ==
  backup[b].at > 0 =>
    /\ agentPhase = "running"
    /\ backup[b].failed <= backup[b].at - 1
    /\ backup[b].state.version = release
    /\ backup[b].state.savedAt >= settled /\ backup[b].state.savedAt <= stamp
    /\ backup[b].alone =>
         /\ \A c \in Backups : backup[c].at > 0 => c = b
         /\ backup[b].failed = 0 => \A s \in 1 .. Stores : s < backup[b].at => stored[s] = backup[b].state

StoresAreFresh == \A s \in 1 .. Stores : stored[s] # Unreadable => stored[s].savedAt >= settled

BackupInv ==
  /\ BackupTypeOK /\ RestoredIsFresh /\ LastStateIsOfRelease
  /\ settled <= stamp
  /\ StoresAreFresh
  /\ agentPhase = "down" => lastState = NoState
  /\ \A b \in Backups : BackupStands(b)

\* The type, as the proofs use it.
LEMMA BackupTypes ==
  ASSUME BackupTypeOK
  PROVE  /\ Stores \in Nat \ {0} /\ MaxBackups \in Nat /\ MaxRestores \in Nat /\ MaxReleases \in Nat
         /\ backup \in [Backups -> BackupRecords] /\ stored \in [1 .. Stores -> States]
         /\ lastState \in States /\ restoring \in Restorations
         /\ stamp \in 0 .. MaxBackups /\ settled \in 0 .. MaxBackups
         /\ release \in 1 .. 1 + MaxReleases /\ restarts \in 0 .. MaxRestores
         /\ agentPhase \in {"down", "restoring", "restored", "running"}
         /\ NoState \in States /\ Unreadable \in States /\ NoBackup \in BackupRecords
         /\ NoRestore \in Restorations
         /\ NoState.savedAt = 0 /\ NoBackup.at = 0
  <1>1. Stores \in Nat \ {0} /\ MaxBackups \in Nat /\ MaxRestores \in Nat /\ MaxReleases \in Nat
    BY BackupAssumption
  <1>2. NoState \in States /\ Unreadable \in States
    BY <1>1 DEF NoState, Unreadable, States
  <1>3. NoBackup \in BackupRecords /\ NoRestore \in Restorations
    BY <1>1, <1>2 DEF NoBackup, NoRestore, BackupRecords, Restorations
  <1>4. NoState.savedAt = 0 /\ NoBackup.at = 0
    BY DEF NoState, NoBackup
  <1> QED
    BY <1>1, <1>2, <1>3, <1>4 DEF BackupTypeOK, BackupRecords, Restorations

\* The parts of a backup and of a state.
LEMMA BackupParts ==
  ASSUME BackupTypeOK, NEW r \in BackupRecords
  PROVE  /\ r.at \in 0 .. Stores + 1 /\ r.failed \in 0 .. Stores /\ r.alone \in BOOLEAN /\ r.state \in States
         /\ r.state.savedAt \in Nat
  <1>1. \A x \in States : x.savedAt \in 0 .. MaxBackups + 1
    BY DEF States
  <1> QED
    BY <1>1, BackupTypes DEF BackupRecords

LEMMA BackupInitInv == BackupInit => BackupInv
  <1> SUFFICES ASSUME BackupInit PROVE BackupInv
    OBVIOUS
  <1>1. Stores \in Nat \ {0} /\ MaxBackups \in Nat /\ MaxRestores \in Nat /\ MaxReleases \in Nat
    BY BackupAssumption
  <1>2. NoState \in States
    BY <1>1 DEF NoState, States
  <1>3. NoBackup \in BackupRecords /\ NoRestore \in Restorations /\ NoBackup.at = 0 /\ NoState.savedAt = 0
    BY <1>1, <1>2 DEF NoBackup, NoRestore, NoState, BackupRecords, Restorations
  <1>4. BackupTypeOK
    BY <1>1, <1>2, <1>3 DEF BackupInit, BackupTypeOK, BackupRecords, Restorations
  <1> QED
    BY <1>3, <1>4 DEF BackupInit, BackupInv, RestoredIsFresh, LastStateIsOfRelease, StoresAreFresh, BackupStands

\* The timer: the new backup is the newest, and alone only if there is no other.
LEMMA BeginBackupInv ==
  ASSUME BackupInv, NEW b \in Backups, BeginBackup(b)
  PROVE  BackupInv'
  <1> DEFINE new == [at |-> 1, state |-> [version |-> release, savedAt |-> stamp + 1],
                     failed |-> 0, alone |-> UnderWay = {}]
  <1>1. /\ agentPhase = "running" /\ backup[b].at = 0 /\ stamp < MaxBackups /\ stamp' = stamp + 1
        /\ agentPhase' = agentPhase /\ release' = release /\ restarts' = restarts
        /\ stored' = stored /\ lastState' = lastState /\ restoring' = restoring /\ settled' = settled
    <2>1. backup[b].at \in Nat
      BY BackupTypes, BackupParts DEF BackupInv
    <2> QED
      BY <2>1 DEF BeginBackup, UnderWay, process
  <1>2. backup' = [c \in Backups |-> IF c = b THEN new ELSE [backup[c] EXCEPT !.alone = FALSE]]
    BY <1>1 DEF BeginBackup
  <1>3. BackupTypeOK /\ settled <= stamp
    BY DEF BackupInv
  <1>4. [version |-> release, savedAt |-> stamp + 1] \in States
    BY <1>1, <1>3, BackupTypes DEF States
  <1>5. new \in BackupRecords /\ (new.alone <=> UnderWay = {})
    <2>1. (UnderWay = {}) \in BOOLEAN
      OBVIOUS
    <2>2. 1 \in 0 .. Stores + 1 /\ 0 \in 0 .. Stores
      BY <1>3, BackupTypes
    <2> QED
      BY <1>4, <2>1, <2>2 DEF BackupRecords
  <1>6. \A c \in Backups : /\ backup[c] \in BackupRecords
                           /\ [backup[c] EXCEPT !.alone = FALSE] \in BackupRecords
    BY <1>3, BackupTypes DEF BackupRecords
  <1>7. backup' \in [Backups -> BackupRecords]
    BY <1>2, <1>5, <1>6
  <1>8. BackupTypeOK'
    <2>1. stamp' \in 0 .. MaxBackups
      BY <1>1, <1>3, BackupTypes
    <2> QED
      BY <1>1, <1>3, <1>7, <2>1 DEF BackupTypeOK, BackupRecords
  <1>9. ASSUME NEW c \in Backups PROVE BackupStands(c)'
    <2>1. CASE c = b
      <3>1. backup'[c] = new
        BY <1>2, <2>1
      <3>2. /\ backup'[c].at = 1 /\ backup'[c].failed = 0 /\ backup'[c].state.version = release
            /\ backup'[c].state.savedAt = stamp + 1 /\ (backup'[c].alone <=> UnderWay = {})
        BY <1>5, <3>1
      <3>3. ASSUME UnderWay = {} PROVE \A d \in Backups : backup'[d].at > 0 => d = b
        <4>1. \A d \in Backups : d # b => backup'[d].at = backup[d].at
          BY <1>2, <1>6 DEF BackupRecords
        <4> QED
          BY <3>3, <4>1 DEF UnderWay
      <3>4. stamp \in Nat /\ settled \in Nat
        BY <1>3, BackupTypes
      <3> QED
        BY <1>1, <1>3, <2>1, <3>2, <3>3, <3>4 DEF BackupStands
    <2>2. CASE c # b
      <3>1. backup'[c] = [backup[c] EXCEPT !.alone = FALSE]
        BY <1>2, <2>2
      <3>2. /\ backup'[c].at = backup[c].at /\ backup'[c].failed = backup[c].failed
            /\ backup'[c].state = backup[c].state /\ ~backup'[c].alone
        BY <1>6, <3>1 DEF BackupRecords
      <3>3. BackupStands(c) /\ backup[c].state.savedAt \in Nat /\ stamp \in Nat
        BY <1>3, <1>6, BackupTypes, BackupParts DEF BackupInv
      <3> QED
        BY <1>1, <3>2, <3>3 DEF BackupStands
    <2> QED
      BY <2>1, <2>2
  <1>10. settled' <= stamp'
    BY <1>1, <1>3, BackupTypes
  <1> QED
    BY <1>1, <1>8, <1>9, <1>10 DEF BackupInv, RestoredIsFresh, LastStateIsOfRelease, StoresAreFresh

\* A write: the state of the backup, what was there before a failed write, or
\* half a file.
LEMMA WritesStoreInv ==
  ASSUME BackupInv, NEW b \in Backups, SaveSucceeds(b) \/ SaveFails(b)
  PROVE  BackupInv'
  <1> DEFINE s == backup[b].at
  <1>1. BackupTypeOK /\ StoresAreFresh /\ BackupStands(b) /\ backup[b] \in BackupRecords
    BY BackupTypes DEF BackupInv
  <1>0. PICK left \in {stored[s], backup[b].state, Unreadable} : \E r :
          /\ s \in 1 .. Stores
          /\ stored' = [stored EXCEPT ![s] = left]
          /\ backup' = [backup EXCEPT ![b] = r]
          /\ \/ r = [backup[b] EXCEPT !.at = s + 1] /\ left = backup[b].state
             \/ r = [backup[b] EXCEPT !.at = s + 1, !.failed = @ + 1]
    <2>1. CASE SaveSucceeds(b)
      BY <2>1 DEF SaveSucceeds, Upserted
    <2>2. CASE SaveFails(b)
      <3>1. /\ s \in 1 .. Stores
            /\ \E left \in {stored[s], backup[b].state, Unreadable} : stored' = [stored EXCEPT ![s] = left]
            /\ backup' = [backup EXCEPT ![b].at = s + 1, ![b].failed = @ + 1]
        BY <2>2 DEF SaveFails, Upserted
      <3>2. backup' = [backup EXCEPT ![b] = [backup[b] EXCEPT !.at = s + 1, !.failed = @ + 1]]
        BY <1>1, <3>1, BackupTypes
      <3> QED
        BY <3>1, <3>2
    <2> QED
      BY <2>1, <2>2
  <1>2. PICK r :
          /\ s \in 1 .. Stores
          /\ stored' = [stored EXCEPT ![s] = left]
          /\ backup' = [backup EXCEPT ![b] = r]
          /\ \/ r = [backup[b] EXCEPT !.at = s + 1] /\ left = backup[b].state
             \/ r = [backup[b] EXCEPT !.at = s + 1, !.failed = @ + 1]
    BY <1>0
  <1>3. /\ stamp' = stamp /\ agentPhase' = agentPhase /\ release' = release /\ restarts' = restarts
        /\ lastState' = lastState /\ restoring' = restoring /\ settled' = settled
    BY DEF SaveSucceeds, SaveFails, process
  <1>4. /\ s \in Nat /\ Stores \in Nat /\ settled \in Nat /\ stamp \in Nat /\ backup[b].failed \in Nat
        /\ backup[b].state \in States /\ backup[b].state.savedAt \in Nat
    BY <1>1, <1>2, BackupTypes, BackupParts
  <1>5. /\ backup[b].failed <= s - 1 /\ s > 0
        /\ backup[b].state.savedAt >= settled
    BY <1>1, <1>2, <1>4 DEF BackupStands
  <1> HIDE DEF s
  <1>7. /\ r \in BackupRecords /\ r.at = s + 1
        /\ \/ r.failed = backup[b].failed /\ left = backup[b].state
           \/ r.failed = backup[b].failed + 1
        /\ r.state = backup[b].state /\ r.alone = backup[b].alone
    <2>1. s + 1 \in 0 .. Stores + 1 /\ backup[b].failed + 1 \in 0 .. Stores
      BY <1>2, <1>4, <1>5
    <2> QED
      BY <1>1, <1>2, <2>1 DEF BackupRecords
  <1>8. /\ backup' \in [Backups -> BackupRecords] /\ backup'[b] = r
        /\ \A c \in Backups : c # b => backup'[c] = backup[c]
    BY <1>1, <1>2, <1>7, BackupTypes
  <1>9. /\ stored' \in [1 .. Stores -> States] /\ stored'[s] = left
        /\ \A t \in 1 .. Stores : t # s => stored'[t] = stored[t]
    <2>1. left \in States
      BY <1>1, <1>2, <1>4, BackupTypes
    <2> QED
      BY <1>1, <1>2, <2>1, BackupTypes
  <1>10. BackupTypeOK'
    BY <1>1, <1>3, <1>8, <1>9 DEF BackupTypeOK, BackupRecords
  <1>11. StoresAreFresh'
    <2>1. left # Unreadable => left.savedAt >= settled
      BY <1>1, <1>2, <1>5 DEF StoresAreFresh
    <2> QED
      BY <1>1, <1>3, <1>9, <2>1 DEF StoresAreFresh
  <1>12. ASSUME NEW c \in Backups PROVE BackupStands(c)'
    <2>1. CASE c = b
      <3>1. ASSUME r.alone PROVE \A d \in Backups : backup'[d].at > 0 => d = b
        BY <1>1, <1>4, <1>5, <1>7, <1>8, <3>1 DEF BackupStands, s
      <3>2. ASSUME r.alone, r.failed = 0 PROVE \A t \in 1 .. Stores : t < r.at => stored'[t] = r.state
        <4>1. left = backup[b].state /\ backup[b].failed = 0
          BY <1>4, <1>7, <3>2
        <4>2. \A t \in 1 .. Stores : t < s => stored[t] = backup[b].state
          BY <1>1, <1>5, <1>7, <3>2, <4>1 DEF BackupStands, s
        <4>3. stored'[s] = backup[b].state
          BY <1>9, <4>1
        <4>4. ASSUME NEW t \in 1 .. Stores, t < r.at PROVE stored'[t] = r.state
          <5>1. t < s \/ t = s
            BY <1>4, <1>7, <4>4
          <5> QED
            BY <1>4, <1>7, <1>9, <4>2, <4>3, <5>1
        <4> QED
          BY <4>4
      <3>3. r.failed <= r.at - 1
        BY <1>4, <1>5, <1>7
      <3> QED
        BY <1>1, <1>3, <1>4, <1>5, <1>7, <1>8, <2>1, <3>1, <3>2, <3>3 DEF BackupStands, s
    <2>2. CASE c # b
      <3>1. BackupStands(c) /\ backup'[c] = backup[c]
        BY <1>8, <2>2 DEF BackupInv
      <3>2. ~(backup[c].at > 0 /\ backup[c].alone)
        BY <1>5, <2>2, <3>1 DEF BackupStands, s
      <3> QED
        BY <1>3, <3>1, <3>2 DEF BackupStands
    <2> QED
      BY <2>1, <2>2
  <1> QED
    BY <1>3, <1>10, <1>11, <1>12 DEF BackupInv, RestoredIsFresh, LastStateIsOfRelease

\* What is settled is what every store holds.
LEMMA EndBackupInv ==
  ASSUME BackupInv, NEW b \in Backups, EndBackup(b)
  PROVE  BackupInv'
  <1>1. /\ backup[b].at = Stores + 1
        /\ lastState' \in {lastState, backup[b].state}
        /\ settled' = IF backup[b].failed = 0 /\ backup[b].alone THEN backup[b].state.savedAt ELSE settled
        /\ backup' = [backup EXCEPT ![b] = NoBackup]
        /\ agentPhase' = agentPhase /\ release' = release /\ restarts' = restarts
        /\ stamp' = stamp /\ stored' = stored /\ restoring' = restoring
    BY DEF EndBackup, process
  <1>2. BackupTypeOK /\ backup[b] \in BackupRecords /\ BackupStands(b)
    BY BackupTypes DEF BackupInv
  <1>3. /\ Stores \in Nat \ {0} /\ backup[b].state \in States /\ backup[b].state.savedAt \in Nat
        /\ stamp \in 0 .. MaxBackups /\ MaxBackups \in Nat /\ settled \in Nat
    BY <1>2, BackupTypes, BackupParts
  <1>4. /\ agentPhase = "running" /\ backup[b].state.version = release
        /\ backup[b].state.savedAt >= settled /\ backup[b].state.savedAt <= stamp
    BY <1>1, <1>2, <1>3 DEF BackupStands
  <1>5. /\ backup' \in [Backups -> BackupRecords] /\ backup'[b].at = 0
        /\ \A c \in Backups : c # b => backup'[c] = backup[c]
    BY <1>1, <1>2, BackupTypes
  <1>6. settled' \in 0 .. MaxBackups /\ settled' <= stamp
    BY <1>1, <1>2, <1>3, <1>4, BackupTypes DEF BackupInv
  <1>7. BackupTypeOK'
    BY <1>1, <1>2, <1>3, <1>5, <1>6 DEF BackupTypeOK, BackupRecords
  <1>8. StoresAreFresh' /\ \A c \in Backups : BackupStands(c)'
    <2>1. CASE backup[b].failed = 0 /\ backup[b].alone
      <3>1. \A s \in 1 .. Stores : stored[s] = backup[b].state
        BY <1>1, <1>2, <1>3, <2>1 DEF BackupStands
      <3>2. \A c \in Backups : ~(backup'[c].at > 0)
        BY <1>1, <1>2, <1>3, <1>5, <2>1 DEF BackupStands
      <3> QED
        BY <1>1, <1>3, <2>1, <3>1, <3>2 DEF StoresAreFresh, BackupStands
    <2>2. CASE ~(backup[b].failed = 0 /\ backup[b].alone)
      <3>1. settled' = settled
        BY <1>1, <2>2
      <3>2. ASSUME NEW c \in Backups PROVE BackupStands(c)'
        <4>1. CASE c = b
          BY <1>5, <4>1 DEF BackupStands
        <4>2. CASE c # b
          BY <1>1, <1>5, <3>1, <4>2 DEF BackupInv, BackupStands
        <4> QED
          BY <4>1, <4>2
      <3> QED
        BY <1>1, <3>1, <3>2 DEF BackupInv, StoresAreFresh
    <2> QED
      BY <2>1, <2>2
  <1>9. RestoredIsFresh' /\ LastStateIsOfRelease'
    BY <1>1, <1>4 DEF BackupInv, RestoredIsFresh, LastStateIsOfRelease
  <1> QED
    BY <1>1, <1>4, <1>6, <1>7, <1>8, <1>9 DEF BackupInv

\* Without a backup under way, every one stands.
LEMMA NoBackupStands ==
  ASSUME \A b \in Backups : ~(backup'[b].at > 0)
  PROVE  \A b \in Backups : BackupStands(b)'
  BY DEF BackupStands

\* A crash, and the restoration by the next process: the stores are left alone.
LEMMA RestoresInv ==
  ASSUME BackupInv, Crash \/ Starts \/ LoadFrom \/ LoadThrows \/ NothingFound \/ Resumes
  PROVE  BackupInv'
  <1>1. BackupTypeOK /\ StoresAreFresh /\ settled <= stamp /\ RestoredIsFresh /\ LastStateIsOfRelease
    BY DEF BackupInv
  <1>2. stamp' = stamp /\ stored' = stored /\ settled' = settled
    BY DEF Crash, Starts, LoadFrom, LoadThrows, NothingFound, Resumes, process
  <1>3. \A b \in Backups : backup[b].at \in Nat
    BY <1>1, BackupTypes, BackupParts
  <1>4. StoresAreFresh'
    BY <1>1, <1>2 DEF StoresAreFresh
  <1>5. CASE Crash
    <2>1. /\ agentPhase' = "down" /\ restarts < MaxRestores /\ restarts' = restarts + 1 /\ release' = release
          /\ backup' = [b \in Backups |-> NoBackup] /\ lastState' = NoState /\ restoring' = NoRestore
      BY <1>5 DEF Crash
    <2>2. restarts' \in 0 .. MaxRestores
      BY <1>1, <2>1, BackupTypes
    <2>3. BackupTypeOK'
      BY <1>1, <1>2, <2>1, <2>2, BackupTypes DEF BackupTypeOK, BackupRecords, Restorations
    <2>4. \A b \in Backups : ~(backup'[b].at > 0)
      BY <1>1, <2>1, BackupTypes
    <2> QED
      BY <1>1, <1>2, <1>4, <2>1, <2>3, <2>4, NoBackupStands DEF BackupInv, RestoredIsFresh, LastStateIsOfRelease
  <1>6. CASE ~Crash
    <2>1. /\ agentPhase # "running" /\ backup' = backup /\ restarts' = restarts
          /\ agentPhase' # "down"
      BY <1>6 DEF Starts, LoadFrom, LoadThrows, NothingFound, Resumes, Restores, process
    <2>2. \A b \in Backups : ~(backup'[b].at > 0)
      BY <2>1 DEF BackupInv, BackupStands
    <2>3. CASE Starts
      <3>1. /\ agentPhase = "down" /\ agentPhase' = "restoring" /\ restoring' = [NoRestore EXCEPT !.at = 1]
            /\ release' \in release .. 1 + MaxReleases /\ lastState' = lastState
        BY <2>3 DEF Starts
      <3>2. lastState = NoState
        BY <3>1 DEF BackupInv
      <3>3. [NoRestore EXCEPT !.at = 1] \in Restorations
        <4>1. 1 \in 0 .. Stores + 1 /\ NoRestore \in Restorations
          BY <1>1, BackupTypes
        <4> QED
          BY <4>1 DEF Restorations
      <3>4. BackupTypeOK'
        BY <1>1, <1>2, <2>1, <3>1, <3>3, BackupTypes DEF BackupTypeOK, BackupRecords, Restorations
      <3> QED
        BY <1>1, <1>2, <1>4, <2>1, <2>2, <3>1, <3>2, <3>4, NoBackupStands
        DEF BackupInv, RestoredIsFresh, LastStateIsOfRelease
    <2>4. CASE LoadThrows \/ (LoadFrom /\ stored[restoring.at] \in {NoState, Unreadable})
      <3>1. /\ agentPhase = "restoring" /\ agentPhase' = agentPhase /\ release' = release
            /\ lastState' = lastState /\ restoring.at \in 1 .. Stores
            /\ \/ restoring' = [restoring EXCEPT !.at = restoring.at + 1]
               \/ restoring' = [restoring EXCEPT !.at = restoring.at + 1, !.threw = TRUE]
        BY <2>4 DEF LoadThrows, LoadFrom, process
      <3>2. restoring.at + 1 \in 0 .. Stores + 1
        BY <1>1, <3>1, BackupTypes
      <3>3. restoring' \in Restorations
        BY <1>1, <3>1, <3>2, BackupTypes DEF Restorations
      <3>4. BackupTypeOK'
        BY <1>1, <1>2, <2>1, <3>1, <3>3, BackupTypes DEF BackupTypeOK, BackupRecords, Restorations
      <3> QED
        BY <1>1, <1>2, <1>4, <2>1, <2>2, <3>1, <3>4, NoBackupStands
        DEF BackupInv, RestoredIsFresh, LastStateIsOfRelease
    <2>5. CASE NothingFound \/ (LoadFrom /\ stored[restoring.at] \notin {NoState, Unreadable})
      <3>1. PICK raw \in States :
              /\ agentPhase = "restoring" /\ release' = release /\ Restores(raw)
              /\ raw = NoState \/ \E s \in 1 .. Stores : raw = stored[s] /\ raw # Unreadable
        <4>1. CASE NothingFound
          BY <1>1, <4>1, BackupTypes DEF NothingFound
        <4>2. CASE LoadFrom /\ stored[restoring.at] \notin {NoState, Unreadable}
          <5>1. restoring.at \in 1 .. Stores /\ agentPhase = "restoring" /\ release' = release
                /\ Restores(stored[restoring.at])
            BY <4>2 DEF LoadFrom
          <5>2. stored[restoring.at] \in States
            BY <1>1, <5>1, BackupTypes
          <5> QED
            BY <4>2, <5>1, <5>2
        <4> QED
          BY <2>5, <4>1, <4>2
      <3>2. PICK found : found = Parsed(raw)
        OBVIOUS
      <3>3. /\ found \in States
            /\ found # NoState => found.version = release
            /\ found # NoState => found.savedAt >= settled
        <4>1. found \in {raw, NoState} /\ (found # NoState => found = raw /\ raw.version = release)
          BY <3>2 DEF Parsed
        <4> QED
          BY <1>1, <3>1, <4>1, BackupTypes DEF StoresAreFresh
      <3>4. /\ agentPhase' = "restored"
            /\ restoring' = [restoring EXCEPT !.at = 0, !.state = found]
            /\ lastState' = IF found = NoState THEN lastState ELSE found
        BY <3>1, <3>2 DEF Restores
      <3>5. restoring' \in Restorations /\ restoring'.state = found
        <4>1. 0 \in 0 .. Stores + 1 /\ restoring \in Restorations
          BY <1>1, BackupTypes
        <4> QED
          BY <3>3, <3>4, <4>1 DEF Restorations
      <3>6. BackupTypeOK'
        BY <1>1, <1>2, <2>1, <3>1, <3>3, <3>4, <3>5, BackupTypes DEF BackupTypeOK, BackupRecords, Restorations
      <3>7. RestoredIsFresh' /\ LastStateIsOfRelease'
        BY <1>1, <1>2, <3>1, <3>3, <3>4, <3>5 DEF RestoredIsFresh, LastStateIsOfRelease
      <3> QED
        BY <1>1, <1>2, <1>4, <2>1, <2>2, <3>6, <3>7, NoBackupStands DEF BackupInv
    <2>6. CASE Resumes
      <3>1. /\ agentPhase = "restored" /\ agentPhase' = "running" /\ restoring' = NoRestore
            /\ release' = release /\ lastState' = lastState
        BY <2>6 DEF Resumes
      <3>2. BackupTypeOK'
        BY <1>1, <1>2, <2>1, <3>1, BackupTypes DEF BackupTypeOK, BackupRecords, Restorations
      <3> QED
        BY <1>1, <1>2, <1>4, <2>1, <2>2, <3>1, <3>2, NoBackupStands
        DEF BackupInv, RestoredIsFresh, LastStateIsOfRelease
    <2> QED
      BY <1>6, <2>3, <2>4, <2>5, <2>6
  <1> QED
    BY <1>5, <1>6

LEMMA BackupStepInv ==
  ASSUME BackupInv, [BackupNext]_backupVars
  PROVE  BackupInv'
  <1>1. CASE UNCHANGED backupVars
    BY <1>1 DEF backupVars, BackupInv, BackupTypeOK, RestoredIsFresh, LastStateIsOfRelease, StoresAreFresh,
       BackupStands
  <1> QED
    BY <1>1, BeginBackupInv, WritesStoreInv, EndBackupInv, RestoresInv DEF BackupNext

\* A restarted agent begins with a state of its release that is as fresh as the
\* last backup every store took alone: for any number of stores and of backups
\* under way at once.
THEOREM BackupsSafe == BackupSpec => []BackupSafety
  <1>1. BackupInv => BackupSafety
    BY DEF BackupInv, BackupSafety
  <1> QED
    BY <1>1, BackupInitInv, BackupStepInv, PTL DEF BackupSpec

-----------------------------------------------------------------------------
(***************************************************************************)
(* The reconciliation (reconcile.ts).  A page is the least addresses beyond  *)
(* the last one; whoever was known at the beginning and has not been         *)
(* compared is in the page or beyond it, and then the page is full.          *)
(***************************************************************************)

\* A non-empty set of numbers has a least member, a finite one a greatest.
LEMMA LeastExists ==
  ASSUME NEW S, \A n \in S : n \in Nat, S # {}
  PROVE  \E m \in S : \A n \in S : m <= n
  <1> DEFINE R == OpToRel(<, Nat)
  <1>1. IsWellFoundedOn(R, Nat)
    BY NatLessThanWellFounded
  <1>2. \A x, y \in Nat : x < y => <<x, y>> \in R
    BY DEF OpToRel
  <1>3. S \subseteq Nat /\ S # {}
    OBVIOUS
  <1> HIDE DEF R
  <1>4. PICK m \in S : \A n \in S : ~(<<n, m>> \in R)
    BY <1>1, <1>3, WFMin
  <1>5. ASSUME NEW n \in S PROVE m <= n
    <2>1. ~(n < m)
      BY <1>2, <1>4
    <2> QED
      BY <2>1
  <1> QED
    BY <1>5

LEMMA GreatestExists ==
  ASSUME NEW S, \A n \in S : n \in Nat, S # {}, IsFiniteSet(S)
  PROVE  Max(S) \in S /\ \A n \in S : n <= Max(S)
  <1> DEFINE Above(n) == {k \in S : k > n}
             Ranks(k) == \E n \in S : k = Cardinality(Above(n))
             K == {k \in Nat : Ranks(k)}
  <1>1. \A n \in S : IsFiniteSet(Above(n)) /\ Cardinality(Above(n)) \in Nat
    <2>1. \A n \in S : Above(n) \in SUBSET S
      OBVIOUS
    <2> HIDE DEF Above
    <2> QED
      BY <2>1, FS_Subset, FS_CardinalityType
  <1>2. K \subseteq Nat /\ K # {}
    BY <1>1
  <1>3. PICK k \in K : \A j \in K : k <= j
    <2> HIDE DEF K
    <2> QED
      BY <1>2, LeastExists
  <1>4. PICK m \in S : k = Cardinality(Above(m))
    OBVIOUS
  <1>5. ASSUME NEW n \in S, ~(n <= m) PROVE FALSE
    <2>1. n > m /\ n \in Nat /\ m \in Nat
      BY <1>5
    <2>2. Above(n) \in SUBSET Above(m) /\ n \in Above(m) /\ n \notin Above(n)
      <3>1. ASSUME NEW x \in S, x > n PROVE x > m
        BY <2>1, <3>1
      <3>2. Above(n) \in SUBSET Above(m)
        BY <3>1
      <3> QED
        BY <2>1, <3>2
    <2>3. Cardinality(Above(n)) \in K
      BY <1>1
    <2> HIDE DEF Above, K
    <2>4. Cardinality(Above(n)) <= Cardinality(Above(m)) /\ Cardinality(Above(n)) # Cardinality(Above(m))
      BY <1>1, <2>2, FS_Subset
    <2> QED
      BY <1>1, <1>3, <1>4, <2>3, <2>4
  <1>6. \E x \in S : \A y \in S : x >= y
    BY <1>5
  <1>7. PICK x : x = Max(S)
    OBVIOUS
  <1>8. x \in S /\ \A y \in S : x >= y
    BY <1>6, <1>7 DEF Max
  <1> QED
    BY <1>7, <1>8

\* The page of a set: what is left out is beyond it, and then it is full.
LEMMA PageIsFirst ==
  ASSUME NEW S, \A n \in S : n \in Nat, IsFiniteSet(S)
  PROVE  /\ FirstOf(S) \subseteq S /\ IsFiniteSet(FirstOf(S))
         /\ \A a \in S \ FirstOf(S) :
              /\ Cardinality(FirstOf(S)) >= PageSize
              /\ \A b \in FirstOf(S) : b < a
  <1> DEFINE Below(a) == {b \in S : b < a}
  <1>1. \A a : IsFiniteSet(Below(a)) /\ Cardinality(Below(a)) \in Nat
    <2>1. \A a : Below(a) \in SUBSET S
      OBVIOUS
    <2> HIDE DEF Below
    <2> QED
      BY <2>1, FS_Subset, FS_CardinalityType
  <1>2. FirstOf(S) = {a \in S : Cardinality(Below(a)) < PageSize}
    BY DEF FirstOf
  <1>3. FirstOf(S) \in SUBSET S
    BY <1>2
  <1>4. IsFiniteSet(FirstOf(S)) /\ Cardinality(FirstOf(S)) \in Nat
    BY <1>3, FS_Subset, FS_CardinalityType
  <1>5. PageSize \in Nat
    BY ReconcileAssumption
  <1>6. ASSUME NEW a \in S \ FirstOf(S), NEW b \in FirstOf(S), ~(b < a) PROVE FALSE
    <2>1. a \in S /\ b \in S
      BY <1>3
    <2>2. a \in Nat /\ b \in Nat /\ a <= b
      BY <1>6, <2>1
    <2>3. Below(a) \in SUBSET Below(b)
      <3>1. ASSUME NEW n \in S, n < a PROVE n < b
        BY <2>2, <3>1
      <3> QED
        BY <3>1
    <2> HIDE DEF Below
    <2>4. Cardinality(Below(a)) <= Cardinality(Below(b))
      BY <1>1, <2>3, FS_Subset
    <2> QED
      BY <1>1, <1>2, <1>5, <1>6, <2>4
  <1>7. ASSUME S \ FirstOf(S) # {} PROVE Cardinality(FirstOf(S)) >= PageSize
    <2>1. PICK a \in S \ FirstOf(S) : \A n \in S \ FirstOf(S) : a <= n
      BY <1>7, LeastExists
    <2>2. Below(a) \in SUBSET FirstOf(S)
      <3>1. ASSUME NEW n \in S, n < a, n \notin FirstOf(S) PROVE FALSE
        <4>1. a <= n /\ n \in Nat /\ a \in Nat
          BY <2>1, <3>1
        <4> QED
          BY <3>1, <4>1
      <3> QED
        BY <3>1
    <2>3. ~(Cardinality(Below(a)) < PageSize)
      BY <1>2, <2>1
    <2> HIDE DEF Below
    <2>4. Cardinality(Below(a)) <= Cardinality(FirstOf(S))
      BY <1>4, <2>2, FS_Subset
    <2> QED
      BY <1>1, <1>4, <1>5, <2>3, <2>4
  <1> QED
    BY <1>3, <1>4, <1>6, <1>7

PassFields == {"busy", "positions", "left", "mismatches"}
Page == DOMAIN pass.positions

\* A page lies beyond the last address of the run before.
PageIsBeyond == pass.busy /\ startAfter # 0 => \A a \in Page : a > startAfter

\* Who is still to come is beyond the page, and beyond the last address between
\* two runs.
StillToCome ==
  /\ pass.busy => \A a \in wanted : a \notin swept \cup pass.left =>
                    Cardinality(Page) >= PageSize /\ \A b \in Page : b < a
  /\ ~pass.busy /\ startAfter # 0 => \A a \in wanted : a \notin swept => a > startAfter

ReconcileInv ==
  /\ ReconcileTypeOK /\ ReportsWhatRowsLeave
  /\ DOMAIN pass = PassFields /\ pass.busy \in BOOLEAN
  /\ ~pass.busy => pass.left = {}
  /\ IsFiniteSet(known) /\ Page \subseteq known /\ wanted \subseteq known
  /\ PageIsBeyond /\ StillToCome

LEMMA AddressesAreNumbers == \A a \in Addresses : a \in Nat /\ a # 0
  BY ReconcileAssumption

LEMMA KnownAreFinite ==
  ASSUME ReconcileInv
  PROVE  /\ known \subseteq Addresses /\ \A a \in known : a \in Nat
         /\ IsFiniteSet(Page) /\ Cardinality(Page) \in Nat /\ \A a \in Page : a \in Nat
  <1>1. known \subseteq Addresses /\ IsFiniteSet(known) /\ Page \in SUBSET known
    BY DEF ReconcileInv, ReconcileTypeOK
  <1>2. IsFiniteSet(Page)
    BY <1>1, FS_Subset
  <1> QED
    BY <1>1, <1>2, AddressesAreNumbers, FS_CardinalityType

LEMMA ReconcileInitInv == ReconcileInit => ReconcileInv
  <1> SUFFICES ASSUME ReconcileInit PROVE ReconcileInv
    OBVIOUS
  <1>1. /\ pass = NoPass /\ DOMAIN pass = PassFields /\ pass.busy = FALSE /\ pass.positions = <<>>
        /\ pass.left = {} /\ pass.mismatches = {}
    BY DEF ReconcileInit, NoPass, PassFields
  <1>2. Page = {}
    BY <1>1, EmptySeq DEF Page
  <1>3. NoRows \in Counts
    BY DEF NoRows, Counts
  <1>4. ReconcileTypeOK
    <2>1. 0 \in 0 .. MaxPinFailures
      BY ReconcileAssumption
    <2>2. pass.left \subseteq Page /\ pass.mismatches \subseteq Page \ pass.left /\ Page \subseteq Addresses
      BY <1>1, <1>2
    <2> QED
      BY <1>3, <2>1, <2>2 DEF ReconcileInit, ReconcileTypeOK, Page
  <1>5. IsFiniteSet(known)
    BY FS_EmptySet DEF ReconcileInit
  <1>6. ReportsWhatRowsLeave
    BY <1>1, <1>2 DEF ReportsWhatRowsLeave, Page
  <1> QED
    BY <1>1, <1>2, <1>4, <1>5, <1>6 DEF ReconcileInit, ReconcileInv, PageIsBeyond, StillToCome

\* A run begins with the least addresses beyond the last one.
LEMMA BeginPassInv ==
  ASSUME ReconcileInv, BeginPass
  PROVE  ReconcileInv'
  <1>1. PICK page : page = FirstOf(After)
    OBVIOUS
  <1>2. /\ ~pass.busy
        /\ pass' = [NoPass EXCEPT !.busy = TRUE, !.left = page,
                      !.positions = [a \in page |-> NetShares(a)]]
        /\ swept' = IF startAfter = 0 THEN {} ELSE swept
        /\ wanted' = IF startAfter = 0 THEN known ELSE wanted
        /\ rows' = rows /\ known' = known /\ startAfter' = startAfter
        /\ pinFailures' = pinFailures
    BY <1>1 DEF BeginPass
  <1>3. /\ DOMAIN pass' = PassFields /\ pass'.busy = TRUE /\ pass'.left = page
        /\ pass'.positions = [a \in page |-> NetShares(a)] /\ pass'.mismatches = {}
    BY <1>2 DEF NoPass, PassFields
  <1>4. Page' = page
    BY <1>3 DEF Page
  <1>5. /\ After \subseteq known /\ known \subseteq Addresses /\ IsFiniteSet(After)
        /\ \A a \in After : a \in Nat
    <2>1. After \in SUBSET known
      BY DEF After
    <2>2. IsFiniteSet(After)
      BY <2>1, FS_Subset DEF ReconcileInv
    <2> QED
      BY <2>1, <2>2, KnownAreFinite
  <1>6. /\ page \subseteq After
        /\ \A a \in After \ page : Cardinality(page) >= PageSize /\ \A b \in page : b < a
    BY <1>1, <1>5, PageIsFirst
  <1>7. wanted' \subseteq known /\ \A a \in wanted' : a \notin swept' => a \in After
    <2>1. wanted \subseteq known
      BY DEF ReconcileInv
    <2>2. CASE startAfter = 0
      <3>1. \A a \in known : a > 0
        BY <1>5, AddressesAreNumbers
      <3> QED
        BY <1>2, <2>2, <3>1 DEF After
    <2>3. CASE startAfter # 0
      <3>1. \A a \in wanted : a \notin swept => a > startAfter
        BY <1>2, <2>3 DEF ReconcileInv, StillToCome
      <3> QED
        BY <1>2, <2>1, <2>3, <3>1 DEF After
    <2> QED
      BY <2>2, <2>3
  <1>8. StillToCome'
    BY <1>3, <1>4, <1>6, <1>7 DEF StillToCome
  <1>9. PageIsBeyond'
    BY <1>2, <1>4, <1>6 DEF PageIsBeyond, After
  <1>10. ReconcileTypeOK'
    <2>1. /\ swept' \subseteq Addresses /\ wanted' \subseteq Addresses /\ page \subseteq Addresses
      BY <1>2, <1>5, <1>6, <1>7 DEF ReconcileInv, ReconcileTypeOK
    <2> QED
      BY <1>2, <1>3, <1>4, <2>1 DEF ReconcileInv, ReconcileTypeOK, Page
  <1>11. page \subseteq known'
    BY <1>2, <1>5, <1>6
  <1>12. ReportsWhatRowsLeave'
    BY <1>3, <1>4 DEF ReportsWhatRowsLeave, Page
  <1> QED
    BY <1>2, <1>3, <1>4, <1>7, <1>8, <1>9, <1>10, <1>11, <1>12 DEF ReconcileInv

\* A run without its ledger gives up its page before it has compared anybody.
LEMMA PinFailsInv ==
  ASSUME ReconcileInv, PinFails
  PROVE  ReconcileInv'
  <1>1. /\ pass.busy /\ pass.left = Page /\ pass' = NoPass
        /\ pinFailures < MaxPinFailures /\ pinFailures' = pinFailures + 1
        /\ rows' = rows /\ known' = known /\ startAfter' = startAfter
        /\ swept' = swept /\ wanted' = wanted
    BY DEF PinFails, Page
  <1>2. /\ DOMAIN pass' = PassFields /\ pass'.busy = FALSE /\ pass'.positions = <<>>
        /\ pass'.left = {} /\ pass'.mismatches = {}
    BY <1>1 DEF NoPass, PassFields
  <1>3. Page' = {}
    BY <1>2, EmptySeq DEF Page
  <1>4. ReconcileTypeOK'
    <2>1. pinFailures' \in 0 .. MaxPinFailures
      BY <1>1, ReconcileAssumption DEF ReconcileInv, ReconcileTypeOK
    <2> QED
      BY <1>1, <1>2, <1>3, <2>1 DEF ReconcileInv, ReconcileTypeOK, Page
  <1>5. StillToCome'
    <2> SUFFICES ASSUME startAfter # 0, NEW a \in wanted, a \notin swept PROVE a > startAfter
      BY <1>1, <1>2 DEF StillToCome
    <2>1. \A b \in Page : b > startAfter /\ b \in Nat
      BY <1>1, KnownAreFinite DEF ReconcileInv, PageIsBeyond
    <2>2. CASE a \in Page
      BY <2>1, <2>2
    <2>3. CASE a \notin Page
      <3>1. Cardinality(Page) >= PageSize /\ \A b \in Page : b < a
        BY <1>1, <2>3 DEF ReconcileInv, StillToCome
      <3>2. Page # {}
        BY <3>1, FS_EmptySet, ReconcileAssumption
      <3>3. PICK b \in Page : TRUE
        BY <3>2
      <3>4. a \in Nat /\ startAfter \in Nat /\ b \in Nat /\ startAfter < b /\ b < a
        BY <2>1, <3>1, <3>3, KnownAreFinite, AddressesAreNumbers DEF ReconcileInv, ReconcileTypeOK
      <3> QED
        BY <3>4
    <2> QED
      BY <2>2, <2>3
  <1>6. ReportsWhatRowsLeave'
    BY <1>2, <1>3 DEF ReportsWhatRowsLeave, Page
  <1> QED
    BY <1>1, <1>2, <1>3, <1>4, <1>5, <1>6 DEF ReconcileInv, PageIsBeyond

\* An address is compared with the answer that never comes.
LEMMA ComparesInv ==
  ASSUME ReconcileInv, NEW a \in Addresses, Compares(a)
  PROVE  ReconcileInv'
  <1>1. ReconcileTypeOK /\ StillToCome /\ ReportsWhatRowsLeave /\ DOMAIN pass = PassFields
        /\ pass.left \subseteq Page
    BY DEF ReconcileInv, ReconcileTypeOK, Page
  <1>2. /\ pass.left # {} /\ a = Min(pass.left)
        /\ pass' = [pass EXCEPT !.left = @ \ {a},
                      !.mismatches = IF pass.positions[a] # 0 THEN @ \cup {a} ELSE @]
        /\ swept' = swept \cup {a}
        /\ rows' = rows /\ known' = known /\ startAfter' = startAfter /\ wanted' = wanted
        /\ pinFailures' = pinFailures
    BY DEF Compares, OnchainShares
  <1>3. /\ DOMAIN pass' = PassFields /\ pass'.busy = pass.busy /\ pass'.left = pass.left \ {a}
        /\ pass'.positions = pass.positions
        /\ pass'.mismatches = IF pass.positions[a] # 0 THEN pass.mismatches \cup {a} ELSE pass.mismatches
    BY <1>1, <1>2 DEF PassFields
  <1>4. a \in pass.left
    <2>1. \A b \in pass.left : b \in Nat
      BY <1>1, KnownAreFinite
    <2>2. \E m \in pass.left : \A n \in pass.left : m <= n
      BY <1>2, <2>1, LeastExists
    <2> QED
      BY <1>2, <2>2 DEF Min
  <1>5. Page' = Page
    BY <1>3 DEF Page
  <1>6. ReconcileTypeOK'
    <2>1. pass'.left \subseteq Page /\ pass'.mismatches \subseteq Page \ pass'.left /\ Page \subseteq Addresses
      BY <1>1, <1>3, <1>4 DEF ReconcileTypeOK, Page
    <2> QED
      BY <1>1, <1>2, <1>3, <1>5, <2>1 DEF ReconcileTypeOK, Page
  <1>7. ReportsWhatRowsLeave'
    BY <1>1, <1>3, <1>4 DEF ReportsWhatRowsLeave, Page
  <1>8. PageIsBeyond' /\ StillToCome'
    BY <1>1, <1>2, <1>3, <1>4, <1>5 DEF ReconcileInv, PageIsBeyond, StillToCome
  <1> QED
    BY <1>2, <1>3, <1>4, <1>5, <1>6, <1>7, <1>8 DEF ReconcileInv

\* The next run starts after the last address of a full page.
LEMMA EndPassInv ==
  ASSUME ReconcileInv, EndPass
  PROVE  ReconcileInv'
  <1>1. /\ pass.busy /\ pass.left = {} /\ pass' = NoPass
        /\ startAfter' = IF Cardinality(Page) < PageSize THEN 0 ELSE Max(Page)
        /\ rows' = rows /\ known' = known /\ swept' = swept /\ wanted' = wanted
        /\ pinFailures' = pinFailures
    BY DEF EndPass, Page
  <1>2. /\ DOMAIN pass' = PassFields /\ pass'.busy = FALSE /\ pass'.positions = <<>>
        /\ pass'.left = {} /\ pass'.mismatches = {}
    BY <1>1 DEF NoPass, PassFields
  <1>3. Page' = {}
    BY <1>2, EmptySeq DEF Page
  <1>4. /\ \A a \in Page : a \in Nat /\ IsFiniteSet(Page) /\ Cardinality(Page) \in Nat
        /\ Page \subseteq Addresses
    BY KnownAreFinite DEF ReconcileInv, ReconcileTypeOK, Page
  <1>5. ASSUME Cardinality(Page) >= PageSize PROVE Max(Page) \in Page /\ \A n \in Page : n <= Max(Page)
    <2>1. Page # {}
      BY <1>5, FS_EmptySet, ReconcileAssumption
    <2>2. IsFiniteSet(Page) /\ \A a \in Page : a \in Nat
      BY KnownAreFinite
    <2> HIDE DEF Page
    <2> QED
      BY <2>1, <2>2, GreatestExists
  <1>6. startAfter' = 0 \/ (Cardinality(Page) >= PageSize /\ startAfter' \in Page)
    BY <1>1, <1>5, KnownAreFinite, ReconcileAssumption
  <1>7. ReconcileTypeOK'
    BY <1>1, <1>2, <1>3, <1>4, <1>6 DEF ReconcileInv, ReconcileTypeOK, Page
  <1>8. StillToCome'
    <2> SUFFICES ASSUME startAfter' # 0, NEW a \in wanted, a \notin swept PROVE a > startAfter'
      BY <1>1, <1>2 DEF StillToCome
    <2>1. startAfter' \in Page /\ \A b \in Page : b < a
      BY <1>1, <1>6 DEF ReconcileInv, StillToCome
    <2>2. a \in Nat /\ startAfter' \in Nat
      BY <2>1, KnownAreFinite DEF ReconcileInv
    <2> QED
      BY <2>1, <2>2
  <1>9. ReportsWhatRowsLeave' /\ PageIsBeyond'
    BY <1>2, <1>3 DEF ReportsWhatRowsLeave, PageIsBeyond, Page
  <1> QED
    BY <1>1, <1>2, <1>3, <1>7, <1>8, <1>9 DEF ReconcileInv

\* What a row adds to.
LEMMA RowAdds ==
  ASSUME NEW c \in Counts, NEW k \in Kind, NEW s \in ShareAmounts
  PROVE  /\ WithRow(c, k, s) \in Counts /\ s \in Nat
         /\ WithRow(c, k, s)[k].shares = c[k].shares + s
         /\ \A i \in Kind : i # k => WithRow(c, k, s)[i] = c[i]
  <1>1. s \in Nat
    BY ReconcileAssumption
  <1>2. c[k].count \in Nat /\ c[k].shares \in Nat
    BY DEF Counts
  <1>3. [count |-> c[k].count + 1, shares |-> c[k].shares + s] \in [count : Nat, shares : Nat]
    BY <1>1, <1>2
  <1> QED
    BY <1>1, <1>3 DEF Counts, WithRow

\* A user registers, or a row is written: the run under way stands.
LEMMA MovesInv ==
  ASSUME ReconcileInv, NEW a \in Addresses,
         LogsIn(a) \/ \E k \in Kind, s \in ShareAmounts : RecordTransaction(a, k, s)
  PROVE  ReconcileInv'
  <1>1. ReconcileTypeOK /\ ReportsWhatRowsLeave /\ StillToCome /\ PageIsBeyond
    BY DEF ReconcileInv
  <1>2. /\ pass' = pass /\ startAfter' = startAfter /\ swept' = swept /\ wanted' = wanted
        /\ pinFailures' = pinFailures
        /\ known' \in {known, known \cup {a}}
    BY Zenon DEF LogsIn, RecordTransaction
  <1>3. rows' \in [Askers -> Counts]
    <2>1. CASE LogsIn(a)
      BY <1>1, <2>1 DEF LogsIn, ReconcileTypeOK
    <2>2. ASSUME NEW k \in Kind, NEW s \in ShareAmounts, RecordTransaction(a, k, s)
          PROVE  rows' \in [Askers -> Counts]
      <3>1. rows' = [b \in Askers |-> IF b \in {a, Everybody} THEN WithRow(rows[b], k, s) ELSE rows[b]]
        BY <2>2 DEF RecordTransaction
      <3>2. \A b \in Askers : rows[b] \in Counts
        BY <1>1 DEF ReconcileTypeOK
      <3> QED
        BY <3>1, <3>2, RowAdds
    <2> QED
      BY <2>1, <2>2
  <1>4. known \subseteq known' /\ known' \subseteq Addresses /\ IsFiniteSet(known')
    <2>1. known \subseteq Addresses /\ IsFiniteSet(known)
      BY DEF ReconcileInv, ReconcileTypeOK
    <2>2. IsFiniteSet(known \cup {a})
      BY <2>1, FS_AddElement
    <2> QED
      BY <1>2, <2>1, <2>2
  <1>5. ReconcileTypeOK' /\ ReportsWhatRowsLeave' /\ StillToCome' /\ PageIsBeyond'
    BY <1>1, <1>2, <1>3, <1>4
       DEF ReconcileTypeOK, ReportsWhatRowsLeave, StillToCome, PageIsBeyond, Page
  <1> QED
    BY <1>2, <1>4, <1>5 DEF ReconcileInv, Page

LEMMA ReconcileStepInv ==
  ASSUME ReconcileInv, [ReconcileNext]_reconcileVars
  PROVE  ReconcileInv'
  <1>1. CASE UNCHANGED reconcileVars
    BY <1>1 DEF reconcileVars, ReconcileInv, ReconcileTypeOK, ReportsWhatRowsLeave, PageIsBeyond,
       StillToCome, Page
  <1>2. ASSUME AnswersBalance \/ \E a \in Askers : AddsDeposits(a)
        PROVE  ReconcileInv'
    <2>1. UNCHANGED <<rows, known, startAfter, pass, swept, wanted, pinFailures>>
      BY <1>2, Zenon DEF AnswersBalance, AddsDeposits
    <2> QED
      BY <2>1 DEF ReconcileInv, ReconcileTypeOK, ReportsWhatRowsLeave, PageIsBeyond, StillToCome, Page
  <1> QED
    BY <1>1, <1>2, BeginPassInv, PinFailsInv, EndPassInv, ComparesInv, MovesInv DEF ReconcileNext

\* Between the two sums of a balance the deposits have only grown, and the least that was
\* left has taken in every withdrawal.
AnswerInv ==
  /\ asked \in BalanceRequests
  /\ asked # NoRequest =>
       /\ asked.user \in Askers
       /\ asked.deposited <= rows[asked.user]["deposit"].shares
       /\ asked.deposited - rows[asked.user]["withdrawal"].shares <= asked.least

LEMMA AnswerStep ==
  ASSUME ReconcileInv, AnswerInv, [ReconcileNext]_reconcileVars
  PROVE  AnswerInv'
  <1>1. rows \in [Askers -> Counts]
    BY DEF ReconcileInv, ReconcileTypeOK
  <1>2. \A a \in Askers : /\ rows[a]["deposit"].shares \in Nat
                          /\ rows[a]["withdrawal"].shares \in Nat
    BY <1>1 DEF Counts, Kind
  <1>3. CASE rows' = rows /\ asked' = asked
    BY <1>3 DEF AnswerInv
  <1>4. CASE asked' = NoRequest
    BY <1>4 DEF AnswerInv, NoRequest, BalanceRequests
  <1>5. ASSUME NEW a \in Askers, AddsDeposits(a)
        PROVE  AnswerInv'
    <2>1. /\ asked' = [user |-> a, deposited |-> rows[a]["deposit"].shares, least |-> Held(rows, a)]
          /\ rows' = rows
      BY <1>5 DEF AddsDeposits
    <2>2. Held(rows, a) = rows[a]["deposit"].shares - rows[a]["withdrawal"].shares
      BY DEF Held
    <2> QED
      BY <1>2, <2>1, <2>2 DEF AnswerInv, BalanceRequests
  <1>6. ASSUME NEW a \in Addresses, NEW k \in Kind, NEW s \in ShareAmounts, RecordTransaction(a, k, s)
        PROVE  AnswerInv'
    <2> DEFINE u == asked.user
    <2>1. /\ rows' = [b \in Askers |-> IF b \in {a, Everybody} THEN WithRow(rows[b], k, s) ELSE rows[b]]
          /\ asked' = IF u \in {a, Everybody}
                        THEN [asked EXCEPT !.least = Lower(@, Held(rows', u))] ELSE asked
      BY <1>6 DEF RecordTransaction
    <2>2. k \in {"deposit", "withdrawal"}
      BY DEF Kind
    <2>3. CASE u \notin {a, Everybody}
      <3>1. asked' = asked /\ (u \in Askers => rows'[u] = rows[u])
        BY <2>1, <2>3
      <3> QED
        BY <3>1 DEF AnswerInv
    <2>4. CASE u \in {a, Everybody}
      <3> DEFINE dep  == rows[u]["deposit"].shares
                 wit  == rows[u]["withdrawal"].shares
                 dep2 == rows'[u]["deposit"].shares
                 wit2 == rows'[u]["withdrawal"].shares
      <3>1. u \in Askers /\ asked # NoRequest
        BY <2>4, ReconcileAssumption DEF Askers, Everybody, NoRequest
      <3>2. /\ asked.deposited \in Nat /\ asked.least \in Int
            /\ asked.deposited <= dep /\ asked.deposited - wit <= asked.least
        BY <3>1 DEF AnswerInv, BalanceRequests
      <3>3. dep \in Nat /\ wit \in Nat
        BY <1>2, <3>1
      <3>4. rows'[u] = WithRow(rows[u], k, s) /\ rows[u] \in Counts
        BY <1>1, <2>1, <2>4, <3>1
      <3>5. s \in Nat /\ ((dep2 = dep + s /\ wit2 = wit) \/ (dep2 = dep /\ wit2 = wit + s))
        BY <2>2, <3>4, RowAdds DEF Kind
      <3>6. Held(rows', u) = dep2 - wit2
        BY DEF Held
      <3> DEFINE low == Lower(asked.least, Held(rows', u))
      <3>7. low \in Int /\ asked.deposited <= dep2 /\ asked.deposited - wit2 <= low
        <4> HIDE DEF dep, wit, dep2, wit2
        <4> QED
          BY <3>2, <3>3, <3>5, <3>6 DEF Lower
      <3>8. asked' = [asked EXCEPT !.least = low]
        BY <2>1, <2>4
      <3>9. asked' \in BalanceRequests /\ asked'.user = u /\ asked'.deposited = asked.deposited /\ asked'.least = low
        <4> HIDE DEF low
        <4> QED
          BY <3>7, <3>8 DEF AnswerInv, BalanceRequests
      <3> QED
        BY <3>1, <3>7, <3>9 DEF AnswerInv
    <2> QED
      BY <2>3, <2>4
  <1>7. CASE UNCHANGED reconcileVars
    BY <1>3, <1>7 DEF reconcileVars
  <1>8. CASE BeginPass \/ PinFails \/ EndPass \/ \E a \in Addresses : Compares(a) \/ LogsIn(a)
    BY <1>3, <1>8, Zenon DEF BeginPass, PinFails, EndPass, Compares, LogsIn
  <1>9. CASE AnswersBalance
    BY <1>4, <1>9 DEF AnswersBalance
  <1> QED
    BY <1>5, <1>6, <1>7, <1>8, <1>9 DEF ReconcileNext

\* The sweep reaches everybody and reports what the rows leave over, and no balance is more
\* than was held, for any addresses, page size, shares and failures.
THEOREM ReadersSafe == ReconcileSpec => []TablesReadRight
  <1>1. ReconcileInit => AnswerInv
    BY DEF ReconcileInit, AnswerInv, NoRequest, BalanceRequests
  <1>2. ReconcileInv /\ AnswerInv => TablesReadRight
    <2> SUFFICES ASSUME ReconcileInv, AnswerInv PROVE TablesReadRight
      OBVIOUS
    <2>1. SweepMissesNobody
      BY KnownAreFinite, ReconcileAssumption DEF ReconcileInv, StillToCome, SweepMissesNobody, Page
    <2>2. ASSUME asked # NoRequest PROVE Balance <= FromZero(asked.least)
      <3>1. /\ asked.deposited \in Nat /\ asked.least \in Int /\ asked.user \in Askers
            /\ asked.deposited - rows[asked.user]["withdrawal"].shares <= asked.least
        BY <2>2 DEF AnswerInv, BalanceRequests
      <3>2. rows[asked.user]["withdrawal"].shares \in Nat
        BY <3>1 DEF ReconcileInv, ReconcileTypeOK, Counts, Kind
      <3> QED
        BY <3>1, <3>2 DEF Balance, FromZero
    <2> QED
      BY <2>1, <2>2 DEF ReconcileInv, AnswerInv, NeverMoreThanHeld, TablesReadRight
  <1> QED
    BY <1>1, <1>2, ReconcileInitInv, ReconcileStepInv, AnswerStep, PTL DEF ReconcileSpec

-----------------------------------------------------------------------------
(* Recovery after an outage (serviceRecovery.ts). *)

RunType == [phase : RunPhases, top : 0 .. LastEvent, fetched : SUBSET Events,
            confirmed : SUBSET RecoveryKeys, left : SUBSET RecoveryJobs,
            ready : SUBSET RecoveryJobs, gaps : BOOLEAN, note : 0 .. 2]

\* What is to be saved as the checkpoint is in the database or about to be, unless
\* a gap is known, with which no recovery ends.
WindowStands ==
  /\ CheckpointCovered
  /\ run.phase \notin {"down", "up"} =>
       run.top \in Events /\ (run.gaps \/ 1 .. run.top \subseteq indexed \cup run.fetched)
  /\ run.phase # "backfill" => run.fetched = {}
  /\ run.phase \in {"execute", "record"} => ~run.gaps

\* An action whose landing would be its first, or that nobody knows the fate of.
Fresh(k) == actionLanded[k] = 0 \/ k \in doubtful

DoubtStands ==
  /\ pending \subseteq doubtful
  /\ RepeatsOnlyInDoubt
  /\ run.phase = "dedupe" => \A k \in RecoveryKeys \ run.confirmed : Fresh(k)
  /\ \A j \in run.ready : (run.phase = "record" /\ j \in run.left) \/ Fresh(KeyOf[j])
  /\ \A i, j \in run.ready : KeyOf[i] = KeyOf[j] => i = j

\* A job has been looked at: its key is in Redis, or it will be before the gate
\* of the workers opens, or the gate stays shut.
KeysStand ==
  /\ run.phase = "record" =>
       \E j \in run.ready : run.left = {j} /\ (run.note # 0 => KeyOf[j] \in redisKeys)
  /\ run.phase # "record" => run.note = 0
  /\ run.phase \in {"reconcile", "execute"} => run.left = {}
  /\ run.phase \in {"dedupe", "reconcile", "execute", "record"} =>
       \A j \in RecoveryJobs : \/ run.phase = "dedupe" /\ j \in run.left
                               \/ run.gaps
                               \/ KeyOf[j] \in redisKeys
                               \/ InBatch(KeyOf[j])
  /\ run.phase \in {"down", "backfill", "up"} => run.ready = {}
  /\ run.phase = "up" => RecoveryKeys \subseteq redisKeys

RecoveryInv == ServiceTypeOK /\ WindowStands /\ DoubtStands /\ KeysStand

LEMMA NoRecoveryIsTyped == NoRecovery \in RunType
  BY ServiceAssumption DEF NoRecovery, RunType, RunPhases

\* A recovery that has ended has nothing left to do.
LEMMA NoRecoveryStands ==
  ASSUME ServiceTypeOK', WindowStands, DoubtStands, run' = NoRecovery,
         saved' = saved, indexed' = indexed, actionLanded' = actionLanded,
         pending' \subseteq doubtful', doubtful \subseteq doubtful'
  PROVE  RecoveryInv'
  <1>1. /\ run'.phase = "down" /\ run'.fetched = {} /\ run'.ready = {} /\ run'.note = 0
    BY DEF NoRecovery
  <1>2. CheckpointCovered'
    BY DEF WindowStands, CheckpointCovered
  <1>3. RepeatsOnlyInDoubt'
    BY DEF DoubtStands, RepeatsOnlyInDoubt
  <1> QED
    BY <1>1, <1>2, <1>3 DEF RecoveryInv, WindowStands, DoubtStands, KeysStand

LEMMA ServiceInitInv == ServiceInit => RecoveryInv
  <1> SUFFICES ASSUME ServiceInit PROVE RecoveryInv
    OBVIOUS
  <1> DEFINE Done == {k \in RecoveryKeys : actionLanded[k] = 1}
  <1>1. Cardinality(Done) \in Nat /\ Cardinality(Done) < LastEvent
    <2>1. Done \subseteq RecoveryKeys /\ IsFiniteSet(RecoveryKeys)
      BY ServiceAssumption
    <2>2. /\ IsFiniteSet(Done) /\ Cardinality(Done) <= Cardinality(RecoveryKeys)
      BY <2>1, FS_Subset
    <2>3. Cardinality(Done) \in Nat /\ Cardinality(RecoveryKeys) \in Nat
      BY <2>1, <2>2, FS_CardinalityType
    <2> QED
      BY <2>2, <2>3, ServiceAssumption
  <1>2. eventHead = 1 + Cardinality(Done)
    BY DEF ServiceInit
  <1>3. eventHead \in Events /\ 1 \in Events
    <2> HIDE DEF Done
    <2> QED
      BY <1>1, <1>2, ServiceAssumption DEF Events
  <1>4. doubtful \subseteq RecoveryKeys /\ dbKeys \subseteq RecoveryKeys
    BY DEF ServiceInit, RecoveryKeys
  <1>5. unserved \subseteq Events /\ saved = 1 /\ indexed = {1}
    BY <1>3, ServiceAssumption DEF ServiceInit, Events
  <1>6. actionLanded \in [RecoveryKeys -> 0 .. 1]
    BY DEF ServiceInit
  <1>7. ServiceTypeOK
    <2>1. run \in RunType /\ outages \in 0 .. MaxOutages
      BY NoRecoveryIsTyped, ServiceAssumption DEF ServiceInit
    <2>2. actionLanded \in [RecoveryKeys -> Nat]
      BY <1>6
    <2>3. pending \subseteq RecoveryKeys /\ redisKeys \subseteq RecoveryKeys
      BY <1>4 DEF ServiceInit
    <2>4. /\ malformed \subseteq RecoveryJobs
          /\ status \in [RecoveryJobs ->
               {"queued", "in_flight", "confirmed", "skipped_duplicate", "blocked"}]
      BY DEF ServiceInit
    <2> QED
      BY <1>3, <1>4, <1>5, <2>1, <2>2, <2>3, <2>4 DEF ServiceTypeOK, RunType
  <1>8. /\ run.phase = "down" /\ run.fetched = {} /\ run.ready = {} /\ run.note = 0
    BY DEF ServiceInit, NoRecovery
  <1>9. CheckpointCovered
    BY <1>5 DEF CheckpointCovered
  <1>10. RepeatsOnlyInDoubt /\ pending \subseteq doubtful
    BY <1>6 DEF ServiceInit, RepeatsOnlyInDoubt
  <1> QED
    BY <1>7, <1>8, <1>9, <1>10 DEF RecoveryInv, WindowStands, DoubtStands, KeysStand

LEMMA BeginRecoveryInv ==
  ASSUME RecoveryInv, BeginRecovery, malformed' = malformed
  PROVE  RecoveryInv'
  <1> DEFINE window == saved + 1 .. eventHead
             missing == window \cap unserved # {}
  <1>0. /\ saved \in Nat /\ eventHead \in Events /\ saved \in Events /\ missing \in BOOLEAN
    BY ServiceAssumption DEF RecoveryInv, ServiceTypeOK, Events
  <1>1. window \subseteq Events
    BY <1>0, ServiceAssumption DEF Events
  <1>2. /\ run' = [NoRecovery EXCEPT !.phase = "backfill", !.top = eventHead,
                                     !.fetched = window \ unserved, !.gaps = missing]
        /\ actionLanded' = actionLanded /\ pending' = pending /\ doubtful' = doubtful
        /\ eventHead' = eventHead /\ unserved' = unserved /\ status' = status
        /\ redisKeys' = redisKeys /\ dbKeys' = dbKeys /\ indexed' = indexed
        /\ saved' = saved /\ outages' = outages
    BY DEF BeginRecovery, chain
  <1> HIDE DEF missing
  <1>3. /\ run'.phase = "backfill" /\ run'.top = eventHead /\ run'.fetched = window \ unserved
        /\ run'.gaps = missing /\ run'.ready = {} /\ run'.note = 0 /\ run'.left = {}
        /\ run' \in RunType
    <2>1. eventHead \in 0 .. LastEvent /\ window \ unserved \in SUBSET Events
      BY <1>0, <1>1, ServiceAssumption DEF Events
    <2> HIDE DEF window
    <2> QED
      BY <1>0, <1>2, <2>1, NoRecoveryIsTyped DEF NoRecovery, RunType, RunPhases
  <1>4. ServiceTypeOK'
    BY <1>2, <1>3 DEF RecoveryInv, ServiceTypeOK, RunType
  <1>5. missing \/ 1 .. eventHead \subseteq indexed \cup (window \ unserved)
    <2> SUFFICES ASSUME ~missing, NEW n \in 1 .. eventHead
                 PROVE  n \in indexed \cup (window \ unserved)
      OBVIOUS
    <2>1. n \in 1 .. saved \/ n \in window
      BY <1>0 DEF Events
    <2>2. n \in window => n \notin unserved
      BY DEF missing
    <2> QED
      BY <2>1, <2>2 DEF RecoveryInv, WindowStands, CheckpointCovered
  <1>6. WindowStands'
    BY <1>0, <1>2, <1>3, <1>5 DEF RecoveryInv, WindowStands, CheckpointCovered
  <1>7. DoubtStands' /\ KeysStand'
    BY <1>2, <1>3 DEF RecoveryInv, DoubtStands, KeysStand, RepeatsOnlyInDoubt
  <1> QED
    BY <1>4, <1>6, <1>7 DEF RecoveryInv

LEMMA InsertIndexedEventInv ==
  ASSUME RecoveryInv, InsertIndexedEvent, malformed' = malformed
  PROVE  RecoveryInv'
  <1>1. PICK e \in run.fetched : /\ indexed' = indexed \cup {e}
                                 /\ run' = [run EXCEPT !.fetched = run.fetched \ {e}]
    BY DEF InsertIndexedEvent, Inserted
  <1>2. run \in RunType /\ run.phase = "backfill" /\ e \in Events
    BY <1>1 DEF RecoveryInv, ServiceTypeOK, RunType, InsertIndexedEvent
  <1>3. /\ actionLanded' = actionLanded /\ pending' = pending /\ doubtful' = doubtful
        /\ eventHead' = eventHead /\ unserved' = unserved /\ status' = status
        /\ redisKeys' = redisKeys /\ dbKeys' = dbKeys /\ saved' = saved /\ outages' = outages
    BY DEF InsertIndexedEvent, chain
  <1>4. /\ run' \in RunType /\ run'.phase = "backfill" /\ run'.fetched = run.fetched \ {e}
        /\ run'.top = run.top /\ run'.gaps = run.gaps /\ run'.ready = run.ready
        /\ run'.note = run.note /\ run'.left = run.left
    BY <1>1, <1>2 DEF RunType
  <1>5. ServiceTypeOK'
    BY <1>1, <1>2, <1>3, <1>4 DEF RecoveryInv, ServiceTypeOK, RunType
  <1>6. WindowStands'
    BY <1>1, <1>2, <1>3, <1>4 DEF RecoveryInv, WindowStands, CheckpointCovered
  <1>7. DoubtStands' /\ KeysStand'
    BY <1>2, <1>3, <1>4 DEF RecoveryInv, DoubtStands, KeysStand, RepeatsOnlyInDoubt
  <1> QED
    BY <1>5, <1>6, <1>7 DEF RecoveryInv

LEMMA ReadQueueInv ==
  ASSUME RecoveryInv, ReadQueue, malformed' = malformed
  PROVE  RecoveryInv'
  <1>1. /\ run' = [run EXCEPT !.phase = "dedupe", !.left = RecoveryJobs,
                              !.confirmed = ConfirmedOnChain]
        /\ run.phase = "backfill" /\ run.fetched = {}
        /\ actionLanded' = actionLanded /\ pending' = pending /\ doubtful' = doubtful
        /\ eventHead' = eventHead /\ unserved' = unserved /\ status' = status
        /\ redisKeys' = redisKeys /\ dbKeys' = dbKeys /\ saved' = saved
        /\ indexed' = indexed /\ outages' = outages
    BY DEF ReadQueue, chain, PendingJobs
  <1>2. run \in RunType
    BY DEF RecoveryInv, ServiceTypeOK, RunType
  <1>3. ConfirmedOnChain \subseteq RecoveryKeys
    BY DEF ConfirmedOnChain
  <1>4. /\ run' \in RunType /\ run'.phase = "dedupe" /\ run'.left = RecoveryJobs
        /\ run'.confirmed = ConfirmedOnChain /\ run'.fetched = {} /\ run'.top = run.top
        /\ run'.gaps = run.gaps /\ run'.ready = run.ready /\ run'.note = run.note
    BY <1>1, <1>2, <1>3 DEF RunType, RunPhases
  <1>5. ServiceTypeOK'
    BY <1>1, <1>4 DEF RecoveryInv, ServiceTypeOK, RunType
  <1>6. WindowStands'
    BY <1>1, <1>4 DEF RecoveryInv, WindowStands, CheckpointCovered
  <1>7. run.ready = {} /\ run.note = 0
    BY <1>1 DEF RecoveryInv, KeysStand
  <1>8. \A k \in RecoveryKeys \ ConfirmedOnChain : actionLanded[k] = 0
    BY DEF ConfirmedOnChain, RecoveryInv, ServiceTypeOK
  <1>9. DoubtStands'
    BY <1>1, <1>4, <1>7, <1>8 DEF RecoveryInv, DoubtStands, RepeatsOnlyInDoubt, Fresh
  <1>10. KeysStand'
    BY <1>4, <1>7 DEF KeysStand
  <1> QED
    BY <1>5, <1>6, <1>9, <1>10 DEF RecoveryInv

LEMMA DeduplicateInv ==
  ASSUME RecoveryInv, NEW j \in RecoveryJobs, Deduplicate(j), malformed' = malformed
  PROVE  RecoveryInv'
  <1>1. /\ run.phase = "dedupe" /\ j \in run.left
        /\ actionLanded' = actionLanded /\ pending' = pending /\ doubtful' = doubtful
        /\ eventHead' = eventHead /\ unserved' = unserved
        /\ saved' = saved /\ indexed' = indexed /\ outages' = outages
    BY DEF Deduplicate, chain
  <1>2. /\ run \in RunType /\ ServiceTypeOK /\ KeyOf[j] \in RecoveryKeys
    BY DEF RecoveryInv, ServiceTypeOK, RunType, RecoveryKeys
  <1>3. run.fetched = {} /\ run.note = 0 /\ run.confirmed \subseteq RecoveryKeys
    BY <1>1, <1>2 DEF RecoveryInv, WindowStands, KeysStand, RunType
  <1>4. CASE Blocks(j)
    <2>1. /\ run' = [run EXCEPT !.left = run.left \ {j}, !.gaps = TRUE]
          /\ redisKeys' = redisKeys /\ dbKeys' = dbKeys
          /\ status' = [status EXCEPT ![j] = "blocked"]
      BY <1>4 DEF Blocks
    <2>2. /\ run' \in RunType /\ run'.phase = "dedupe" /\ run'.left = run.left \ {j} /\ run'.gaps
          /\ run'.fetched = {} /\ run'.top = run.top /\ run'.ready = run.ready
          /\ run'.note = 0 /\ run'.confirmed = run.confirmed
      BY <1>1, <1>2, <1>3, <2>1 DEF RunType
    <2>3. ServiceTypeOK'
      BY <1>1, <1>2, <2>1, <2>2 DEF ServiceTypeOK, RunType
    <2>4. WindowStands'
      BY <1>1, <2>2 DEF RecoveryInv, WindowStands, CheckpointCovered
    <2>5. DoubtStands'
      BY <1>1, <2>2 DEF RecoveryInv, DoubtStands, RepeatsOnlyInDoubt, Fresh
    <2>6. KeysStand'
      BY <2>2 DEF KeysStand
    <2> QED
      BY <2>3, <2>4, <2>5, <2>6 DEF RecoveryInv
  <1>5. CASE SkipsDuplicate(j)
    <2>1. /\ run' = [run EXCEPT !.left = run.left \ {j}]
          /\ redisKeys' = redisKeys \cup {KeyOf[j]}
          /\ dbKeys' = dbKeys \/ dbKeys' = dbKeys \cup {KeyOf[j]}
          /\ status' = [status EXCEPT ![j] = "skipped_duplicate"]
      BY <1>5 DEF SkipsDuplicate, Remembered, RecordedIfConfirmed
    <2>2. /\ run' \in RunType /\ run'.phase = "dedupe" /\ run'.left = run.left \ {j}
          /\ run'.gaps = run.gaps
          /\ run'.fetched = {} /\ run'.top = run.top /\ run'.ready = run.ready
          /\ run'.note = 0 /\ run'.confirmed = run.confirmed
      BY <1>1, <1>2, <1>3, <2>1 DEF RunType
    <2>3. ServiceTypeOK'
      BY <1>1, <1>2, <2>1, <2>2 DEF ServiceTypeOK, RunType
    <2>4. WindowStands'
      BY <1>1, <2>2 DEF RecoveryInv, WindowStands, CheckpointCovered
    <2>5. DoubtStands'
      BY <1>1, <2>2 DEF RecoveryInv, DoubtStands, RepeatsOnlyInDoubt, Fresh
    <2>6. KeysStand'
      BY <1>1, <2>1, <2>2 DEF RecoveryInv, KeysStand, InBatch
    <2> QED
      BY <2>3, <2>4, <2>5, <2>6 DEF RecoveryInv
  <1>6. CASE /\ ~Duplicate(KeyOf[j])
             /\ run' = [run EXCEPT !.left = @ \ {j}, !.ready = @ \cup {j}]
             /\ UNCHANGED <<status, redisKeys, dbKeys>>
    <2>1. /\ run' \in RunType /\ run'.phase = "dedupe" /\ run'.left = run.left \ {j}
          /\ run'.gaps = run.gaps
          /\ run'.fetched = {} /\ run'.top = run.top /\ run'.ready = run.ready \cup {j}
          /\ run'.note = 0 /\ run'.confirmed = run.confirmed
      BY <1>1, <1>2, <1>3, <1>6 DEF RunType
    <2>2. ServiceTypeOK'
      BY <1>1, <1>2, <1>6, <2>1 DEF ServiceTypeOK, RunType
    <2>3. WindowStands'
      BY <1>1, <2>1 DEF RecoveryInv, WindowStands, CheckpointCovered
    <2>4. KeyOf[j] \notin run.confirmed /\ \A i \in run.ready : KeyOf[i] # KeyOf[j]
      BY <1>6 DEF Duplicate, DuplicateOfRecords, InBatch
    <2>5. Fresh(KeyOf[j])
      BY <1>1, <1>2, <2>4 DEF RecoveryInv, DoubtStands
    <2>6. \A i \in run.ready : Fresh(KeyOf[i])
      BY <1>1 DEF RecoveryInv, DoubtStands
    <2>7. DoubtStands'
      BY <1>1, <2>1, <2>4, <2>5, <2>6 DEF RecoveryInv, DoubtStands, RepeatsOnlyInDoubt, Fresh
    <2>8. \A k : InBatch(k) => InBatch(k)'
      BY <2>1 DEF InBatch
    <2>9. InBatch(KeyOf[j])'
      BY <2>1 DEF InBatch
    <2>10. KeysStand'
      BY <1>1, <1>6, <2>1, <2>8, <2>9 DEF RecoveryInv, KeysStand
    <2> QED
      BY <2>2, <2>3, <2>7, <2>10 DEF RecoveryInv
  <1> QED
    BY <1>4, <1>5, <1>6 DEF Deduplicate

\* The totals are compared, and the jobs wait for the verdict.
LEMMA TotalsInv ==
  ASSUME RecoveryInv, Reconcile, malformed' = malformed
  PROVE  RecoveryInv'
  <1> DEFINE g == run.gaps \/ ~TotalsAgree
  <1>1. /\ run' = [run EXCEPT !.phase = "reconcile", !.gaps = g]
        /\ run.phase = "dedupe" /\ run.left = {}
        /\ actionLanded' = actionLanded /\ pending' = pending /\ doubtful' = doubtful
        /\ eventHead' = eventHead /\ unserved' = unserved /\ status' = status
        /\ redisKeys' = redisKeys /\ dbKeys' = dbKeys /\ saved' = saved
        /\ indexed' = indexed /\ outages' = outages
    BY DEF Reconcile, chain
  <1>2. run \in RunType /\ g \in BOOLEAN /\ (run.gaps => g)
    BY DEF RecoveryInv, ServiceTypeOK, RunType
  <1> HIDE DEF g
  <1>3. /\ run' \in RunType /\ run'.phase = "reconcile" /\ run'.left = {} /\ run'.gaps = g
        /\ run'.fetched = run.fetched /\ run'.top = run.top
        /\ run'.ready = run.ready /\ run'.note = run.note
    BY <1>1, <1>2 DEF RunType, RunPhases
  <1>4. ServiceTypeOK'
    BY <1>1, <1>3 DEF RecoveryInv, ServiceTypeOK, RunType
  <1>5. WindowStands'
    BY <1>1, <1>2, <1>3 DEF RecoveryInv, WindowStands, CheckpointCovered
  <1>6. DoubtStands'
    BY <1>1, <1>3 DEF RecoveryInv, DoubtStands, RepeatsOnlyInDoubt, Fresh
  <1>7. KeysStand'
    BY <1>1, <1>2, <1>3 DEF RecoveryInv, KeysStand, InBatch
  <1> QED
    BY <1>4, <1>5, <1>6, <1>7 DEF RecoveryInv

LEMMA BlockRecoveryInv ==
  ASSUME RecoveryInv, BlockRecovery, malformed' = malformed
  PROVE  RecoveryInv'
  <1>1. /\ run' = NoRecovery
        /\ status' = [j \in RecoveryJobs |-> IF j \in run.ready THEN "blocked" ELSE status[j]]
        /\ actionLanded' = actionLanded /\ pending' = pending /\ doubtful' = doubtful
        /\ eventHead' = eventHead /\ unserved' = unserved
        /\ redisKeys' = redisKeys /\ dbKeys' = dbKeys /\ saved' = saved
        /\ indexed' = indexed /\ outages' = outages
    BY DEF BlockRecovery, chain
  <1>2. status' \in [RecoveryJobs ->
                       {"queued", "in_flight", "confirmed", "skipped_duplicate", "blocked"}]
    BY <1>1 DEF RecoveryInv, ServiceTypeOK
  <1>3. run' \in RunType
    BY <1>1, NoRecoveryIsTyped
  <1>4. ServiceTypeOK'
    BY <1>1, <1>2, <1>3 DEF RecoveryInv, ServiceTypeOK, RunType
  <1>5. pending' \subseteq doubtful'
    BY <1>1 DEF RecoveryInv, DoubtStands
  <1>6. WindowStands /\ DoubtStands
    BY DEF RecoveryInv
  <1> QED
    BY <1>1, <1>4, <1>5, <1>6, NoRecoveryStands

LEMMA OpenGateInv ==
  ASSUME RecoveryInv, OpenGate, malformed' = malformed
  PROVE  RecoveryInv'
  <1>1. /\ run' = [run EXCEPT !.phase = "execute"]
        /\ run.phase = "reconcile" /\ ~run.gaps
        /\ actionLanded' = actionLanded /\ pending' = pending /\ doubtful' = doubtful
        /\ eventHead' = eventHead /\ unserved' = unserved /\ status' = status
        /\ redisKeys' = redisKeys /\ dbKeys' = dbKeys /\ saved' = saved
        /\ indexed' = indexed /\ outages' = outages
    BY DEF OpenGate, chain
  <1>2. run \in RunType
    BY DEF RecoveryInv, ServiceTypeOK, RunType
  <1>3. /\ run' \in RunType /\ run'.phase = "execute" /\ run'.left = run.left
        /\ run'.gaps = run.gaps /\ run'.fetched = run.fetched /\ run'.top = run.top
        /\ run'.ready = run.ready /\ run'.note = run.note
    BY <1>1, <1>2 DEF RunType, RunPhases
  <1>4. ServiceTypeOK'
    BY <1>1, <1>3 DEF RecoveryInv, ServiceTypeOK, RunType
  <1>5. WindowStands'
    BY <1>1, <1>3 DEF RecoveryInv, WindowStands, CheckpointCovered
  <1>6. DoubtStands'
    BY <1>1, <1>3 DEF RecoveryInv, DoubtStands, RepeatsOnlyInDoubt, Fresh
  <1>7. KeysStand'
    BY <1>1, <1>3 DEF RecoveryInv, KeysStand, InBatch
  <1> QED
    BY <1>4, <1>5, <1>6, <1>7 DEF RecoveryInv

\* What lands was fresh; the other jobs to come have other keys.
LEMMA ExecuteInv ==
  ASSUME RecoveryInv, NEW j \in RecoveryJobs, Execute(j), malformed' = malformed
  PROVE  RecoveryInv'
  <1>1. PICK k : k = KeyOf[j]
    OBVIOUS
  <1>2. /\ run' = [run EXCEPT !.phase = "record", !.left = {j}]
        /\ run.phase = "execute" /\ j \in run.ready
        /\ eventHead' = eventHead + 1 /\ eventHead < LastEvent
        /\ actionLanded' = [actionLanded EXCEPT ![k] = actionLanded[k] + 1]
        /\ pending' = pending /\ doubtful' = doubtful /\ unserved' = unserved /\ status' = status
        /\ redisKeys' = redisKeys /\ dbKeys' = dbKeys /\ saved' = saved
        /\ indexed' = indexed /\ outages' = outages
    BY <1>1 DEF Execute, Landing
  <1>3. /\ run \in RunType /\ k \in RecoveryKeys /\ actionLanded \in [RecoveryKeys -> Nat]
        /\ ServiceTypeOK
    BY <1>1 DEF RecoveryInv, ServiceTypeOK, RunType, RecoveryKeys
  <1>4. /\ run' \in RunType /\ run'.phase = "record" /\ run'.left = {j}
        /\ run'.gaps = run.gaps /\ run'.fetched = run.fetched /\ run'.top = run.top
        /\ run'.ready = run.ready /\ run'.note = run.note
    BY <1>2, <1>3 DEF RunType, RunPhases
  <1>5. eventHead' \in Events
    BY <1>2, <1>3, ServiceAssumption DEF ServiceTypeOK, Events
  <1>6. actionLanded' \in [RecoveryKeys -> Nat]
    BY <1>2, <1>3
  <1>7. ServiceTypeOK'
    BY <1>2, <1>3, <1>4, <1>5, <1>6 DEF ServiceTypeOK, RunType
  <1>8. WindowStands'
    BY <1>2, <1>4 DEF RecoveryInv, WindowStands, CheckpointCovered
  <1>9. Fresh(k)
    BY <1>1, <1>2 DEF RecoveryInv, DoubtStands
  <1>10. RepeatsOnlyInDoubt'
    BY <1>2, <1>3, <1>9 DEF RecoveryInv, DoubtStands, RepeatsOnlyInDoubt, Fresh
  <1>11. ASSUME NEW i \in run.ready, i # j
         PROVE  Fresh(KeyOf[i])'
    <2>1. Fresh(KeyOf[i]) /\ KeyOf[i] # k /\ KeyOf[i] \in RecoveryKeys
      BY <1>1, <1>2, <1>3, <1>11 DEF RecoveryInv, DoubtStands, RunType, RecoveryKeys
    <2> QED
      BY <1>2, <1>3, <2>1 DEF Fresh
  <1>12. DoubtStands'
    BY <1>2, <1>4, <1>10, <1>11 DEF RecoveryInv, DoubtStands
  <1>13. run.note = 0
    BY <1>2 DEF RecoveryInv, KeysStand
  <1>14. KeysStand'
    BY <1>2, <1>4, <1>13 DEF RecoveryInv, KeysStand, InBatch
  <1> QED
    BY <1>7, <1>8, <1>12, <1>14 DEF RecoveryInv

\* The job leaves the batch when its key is in Redis.
LEMMA RecordExecutedInv ==
  ASSUME RecoveryInv, NEW j \in RecoveryJobs, RecordExecuted(j), malformed' = malformed
  PROVE  RecoveryInv'
  <1>1. /\ run.phase = "record" /\ run.left = {j}
        /\ actionLanded' = actionLanded /\ pending' = pending /\ doubtful' = doubtful
        /\ eventHead' = eventHead /\ unserved' = unserved
        /\ saved' = saved /\ indexed' = indexed /\ outages' = outages
        /\ redisKeys' = redisKeys \/ redisKeys' = redisKeys \cup {KeyOf[j]}
        /\ run.note = 0 => KeyOf[j] \in redisKeys'
        /\ dbKeys' = dbKeys \/ dbKeys' = dbKeys \cup {KeyOf[j]}
        /\ status' = status \/ status' = [status EXCEPT ![j] = "confirmed"]
    BY DEF RecordExecuted, chain
  <1>2. /\ run \in RunType /\ KeyOf[j] \in RecoveryKeys /\ ServiceTypeOK /\ run.note \in 0 .. 2
    BY DEF RecoveryInv, ServiceTypeOK, RunType, RecoveryKeys
  <1>3. j \in run.ready /\ (run.note # 0 => KeyOf[j] \in redisKeys)
    BY <1>1 DEF RecoveryInv, KeysStand
  <1>4. KeyOf[j] \in redisKeys' /\ redisKeys \subseteq redisKeys'
    BY <1>1, <1>3
  <1>5. CASE run.note < 2
    <2>1. run' = [run EXCEPT !.note = run.note + 1]
      BY <1>5 DEF RecordExecuted
    <2>2. run.note + 1 \in 0 .. 2
      BY <1>2, <1>5
    <2>3. /\ run' \in RunType /\ run'.phase = "record" /\ run'.left = {j}
          /\ run'.gaps = run.gaps /\ run'.fetched = run.fetched /\ run'.top = run.top
          /\ run'.ready = run.ready
      BY <1>1, <1>2, <2>1, <2>2 DEF RunType
    <2>4. ServiceTypeOK'
      BY <1>1, <1>2, <2>3 DEF ServiceTypeOK, RunType
    <2>5. WindowStands'
      BY <1>1, <2>3 DEF RecoveryInv, WindowStands, CheckpointCovered
    <2>6. DoubtStands'
      BY <1>1, <2>3 DEF RecoveryInv, DoubtStands, RepeatsOnlyInDoubt, Fresh
    <2>7. KeysStand'
      BY <1>1, <1>3, <1>4, <2>3 DEF RecoveryInv, KeysStand, InBatch
    <2> QED
      BY <2>4, <2>5, <2>6, <2>7 DEF RecoveryInv
  <1>6. CASE ~(run.note < 2)
    <2>1. run' = [run EXCEPT !.phase = "execute", !.left = {}, !.note = 0,
                             !.ready = run.ready \ {j}]
      BY <1>6 DEF RecordExecuted
    <2>2. /\ run' \in RunType /\ run'.phase = "execute" /\ run'.left = {} /\ run'.note = 0
          /\ run'.gaps = run.gaps /\ run'.fetched = run.fetched /\ run'.top = run.top
          /\ run'.ready = run.ready \ {j}
      <3>1. /\ run.ready \ {j} \in SUBSET RecoveryJobs /\ {} \in SUBSET RecoveryJobs
            /\ 0 \in 0 .. 2 /\ "execute" \in RunPhases
        BY <1>2 DEF RunType, RunPhases
      <3>2. PICK rest : rest = run.ready \ {j}
        OBVIOUS
      <3>3. run' = [run EXCEPT !.phase = "execute", !.left = {}, !.note = 0, !.ready = rest]
        BY <2>1, <3>2
      <3> QED
        BY <1>2, <3>1, <3>2, <3>3 DEF RunType
    <2>3. ServiceTypeOK'
      BY <1>1, <1>2, <2>2 DEF ServiceTypeOK, RunType
    <2>4. WindowStands'
      BY <1>1, <2>2 DEF RecoveryInv, WindowStands, CheckpointCovered
    <2>5. DoubtStands'
      BY <1>1, <2>2 DEF RecoveryInv, DoubtStands, RepeatsOnlyInDoubt, Fresh
    <2>6. \A k : InBatch(k) => InBatch(k)' \/ k = KeyOf[j]
      BY <2>2 DEF InBatch
    <2>7. ~run.gaps
      BY <1>1 DEF RecoveryInv, WindowStands
    <2>8. KeysStand'
      BY <1>1, <1>4, <2>2, <2>6, <2>7 DEF RecoveryInv, KeysStand
    <2> QED
      BY <2>3, <2>4, <2>5, <2>8 DEF RecoveryInv
  <1> QED
    BY <1>5, <1>6

\* Nothing is left in the batch, so every key is in Redis.
LEMMA ResumeWorkersInv ==
  ASSUME RecoveryInv, ResumeWorkers, malformed' = malformed
  PROVE  RecoveryInv'
  <1>1. /\ run' = [NoRecovery EXCEPT !.phase = "up"] /\ saved' = run.top
        /\ run.phase = "execute" /\ run.ready = {}
        /\ actionLanded' = actionLanded /\ pending' = pending /\ doubtful' = doubtful
        /\ eventHead' = eventHead /\ unserved' = unserved /\ status' = status
        /\ redisKeys' = redisKeys /\ dbKeys' = dbKeys
        /\ indexed' = indexed /\ outages' = outages
    BY DEF ResumeWorkers, chain, ReconciledLedger
  <1>2. /\ run' \in RunType /\ run'.phase = "up" /\ run'.fetched = {} /\ run'.ready = {}
        /\ run'.note = 0 /\ run'.left = {}
    BY <1>1, NoRecoveryIsTyped DEF NoRecovery, RunType, RunPhases
  <1>3. run.top \in Events /\ 1 .. run.top \subseteq indexed
    BY <1>1 DEF RecoveryInv, WindowStands
  <1>4. ServiceTypeOK'
    BY <1>1, <1>2, <1>3 DEF RecoveryInv, ServiceTypeOK, RunType
  <1>5. WindowStands'
    BY <1>1, <1>2, <1>3 DEF WindowStands, CheckpointCovered
  <1>6. DoubtStands'
    BY <1>1, <1>2 DEF RecoveryInv, DoubtStands, RepeatsOnlyInDoubt
  <1>7. \A j \in RecoveryJobs : KeyOf[j] \in redisKeys
    BY <1>1 DEF RecoveryInv, KeysStand, WindowStands, InBatch
  <1>8. KeysStand'
    BY <1>1, <1>2, <1>7 DEF KeysStand, RecoveryKeys
  <1> QED
    BY <1>4, <1>5, <1>6, <1>8 DEF RecoveryInv

LEMMA ExecuteThrowsInv ==
  ASSUME RecoveryInv, NEW j \in RecoveryJobs, ExecuteThrows(j), malformed' = malformed
  PROVE  RecoveryInv'
  <1>1. /\ run' = NoRecovery /\ outages' = outages + 1 /\ outages < MaxOutages
        /\ pending' = pending \cup {KeyOf[j]} /\ doubtful' = doubtful \cup {KeyOf[j]}
        /\ actionLanded' = actionLanded /\ eventHead' = eventHead /\ unserved' = unserved
        /\ status' = status /\ redisKeys' = redisKeys /\ dbKeys' = dbKeys /\ saved' = saved
        /\ indexed' = indexed
    BY DEF ExecuteThrows
  <1>2. KeyOf[j] \in RecoveryKeys /\ run' \in RunType
    BY <1>1, NoRecoveryIsTyped DEF RecoveryKeys
  <1>3. outages' \in 0 .. MaxOutages
    BY <1>1, ServiceAssumption DEF RecoveryInv, ServiceTypeOK
  <1>4. ServiceTypeOK'
    BY <1>1, <1>2, <1>3 DEF RecoveryInv, ServiceTypeOK, RunType
  <1>5. pending' \subseteq doubtful' /\ doubtful \subseteq doubtful'
    BY <1>1 DEF RecoveryInv, DoubtStands
  <1>6. WindowStands /\ DoubtStands
    BY DEF RecoveryInv
  <1> QED
    BY <1>1, <1>4, <1>5, <1>6, NoRecoveryStands

LEMMA RecoveryDiesInv ==
  ASSUME RecoveryInv, RecoveryDies, malformed' = malformed
  PROVE  RecoveryInv'
  <1>1. /\ run' = NoRecovery /\ outages' = outages + 1 /\ outages < MaxOutages
        /\ actionLanded' = actionLanded /\ pending' = pending /\ doubtful' = doubtful
        /\ eventHead' = eventHead /\ unserved' = unserved /\ status' = status
        /\ redisKeys' = redisKeys /\ dbKeys' = dbKeys /\ saved' = saved /\ indexed' = indexed
    BY DEF RecoveryDies, chain
  <1>2. run' \in RunType
    BY <1>1, NoRecoveryIsTyped
  <1>3. outages' \in 0 .. MaxOutages
    BY <1>1, ServiceAssumption DEF RecoveryInv, ServiceTypeOK
  <1>4. ServiceTypeOK'
    BY <1>1, <1>2, <1>3 DEF RecoveryInv, ServiceTypeOK, RunType
  <1>5. pending' \subseteq doubtful'
    BY <1>1 DEF RecoveryInv, DoubtStands
  <1>6. WindowStands /\ DoubtStands
    BY DEF RecoveryInv
  <1> QED
    BY <1>1, <1>4, <1>5, <1>6, NoRecoveryStands

\* What lands by itself is in doubt, and every key is in Redis before the workers
\* resume.
LEMMA PendingLandsInv ==
  ASSUME RecoveryInv, NEW k \in RecoveryKeys, PendingLands(k), malformed' = malformed
  PROVE  RecoveryInv'
  <1>1. /\ k \in pending /\ pending' = pending \ {k}
        /\ eventHead' = eventHead + 1 /\ eventHead < LastEvent
        /\ actionLanded' = [actionLanded EXCEPT ![k] = actionLanded[k] + 1]
        /\ doubtful' = doubtful /\ unserved' = unserved /\ status' = status
        /\ redisKeys' = redisKeys /\ dbKeys' = dbKeys /\ saved' = saved
        /\ indexed' = indexed /\ outages' = outages /\ run' = run
    BY DEF PendingLands, Landing
  <1>2. actionLanded \in [RecoveryKeys -> Nat] /\ ServiceTypeOK /\ k \in doubtful
    BY <1>1 DEF RecoveryInv, ServiceTypeOK, DoubtStands
  <1>3. eventHead' \in Events
    BY <1>1, <1>2, ServiceAssumption DEF ServiceTypeOK, Events
  <1>4. actionLanded' \in [RecoveryKeys -> Nat]
    BY <1>1, <1>2
  <1>5. ServiceTypeOK'
    BY <1>1, <1>2, <1>3, <1>4 DEF ServiceTypeOK
  <1>6. WindowStands'
    BY <1>1 DEF RecoveryInv, WindowStands, CheckpointCovered
  <1>7. \A i \in RecoveryKeys : Fresh(i) => Fresh(i)'
    BY <1>1, <1>2 DEF Fresh
  <1>8. \A j \in run.ready : KeyOf[j] \in RecoveryKeys
    BY <1>2 DEF ServiceTypeOK, RecoveryKeys
  <1>9. RepeatsOnlyInDoubt'
    BY <1>1, <1>2 DEF RecoveryInv, DoubtStands, RepeatsOnlyInDoubt
  <1>10. DoubtStands'
    BY <1>1, <1>7, <1>8, <1>9 DEF RecoveryInv, DoubtStands
  <1>11. KeysStand'
    BY <1>1 DEF RecoveryInv, KeysStand, InBatch
  <1> QED
    BY <1>5, <1>6, <1>10, <1>11 DEF RecoveryInv

\* Events of users, answers that come back and submissions that expire.
LEMMA OutsideInv ==
  ASSUME RecoveryInv, malformed' = malformed,
         UserEvent \/ RpcHeals \/ \E k \in RecoveryKeys : PendingExpires(k)
  PROVE  RecoveryInv'
  <1>1. /\ eventHead' = eventHead \/ (eventHead < LastEvent /\ eventHead' = eventHead + 1)
        /\ pending' \subseteq pending /\ unserved' \subseteq unserved
        /\ actionLanded' = actionLanded /\ doubtful' = doubtful /\ status' = status
        /\ redisKeys' = redisKeys /\ dbKeys' = dbKeys /\ saved' = saved
        /\ indexed' = indexed /\ outages' = outages /\ run' = run
    BY DEF UserEvent, RpcHeals, PendingExpires
  <1>2. eventHead' \in Events
    BY <1>1, ServiceAssumption DEF RecoveryInv, ServiceTypeOK, Events
  <1>3. ServiceTypeOK'
    BY <1>1, <1>2 DEF RecoveryInv, ServiceTypeOK
  <1>4. WindowStands'
    BY <1>1 DEF RecoveryInv, WindowStands, CheckpointCovered
  <1>5. DoubtStands'
    BY <1>1 DEF RecoveryInv, DoubtStands, RepeatsOnlyInDoubt, Fresh
  <1>6. KeysStand'
    BY <1>1 DEF RecoveryInv, KeysStand, InBatch
  <1> QED
    BY <1>3, <1>4, <1>5, <1>6 DEF RecoveryInv

LEMMA ServiceStepInv ==
  ASSUME RecoveryInv, [ServiceNext]_serviceVars
  PROVE  RecoveryInv'
  <1>1. CASE UNCHANGED serviceVars
    BY <1>1 DEF serviceVars, RecoveryInv, ServiceTypeOK, WindowStands, CheckpointCovered,
       DoubtStands, RepeatsOnlyInDoubt, Fresh, KeysStand, InBatch
  <1>2. CASE ServiceNext
    <2>1. malformed' = malformed
      BY <1>2 DEF ServiceNext
    <2> QED
      BY <1>2, <2>1, BeginRecoveryInv, InsertIndexedEventInv, ReadQueueInv, TotalsInv,
         BlockRecoveryInv, OpenGateInv, ResumeWorkersInv, RecoveryDiesInv, OutsideInv,
         DeduplicateInv, ExecuteInv, RecordExecutedInv, ExecuteThrowsInv, PendingLandsInv
         DEF ServiceNext
  <1> QED
    BY <1>1, <1>2

\* No recovery loses an event or repeats what it can know has landed, for any
\* jobs and keys, and with any number of crashes, gaps and reruns.
THEOREM RecoverySafe == ServiceSpec => []RecoverySafety
  <1>1. RecoveryInv => RecoverySafety
    <2> SUFFICES ASSUME RecoveryInv PROVE RecoverySafety
      OBVIOUS
    <2>1. ResumedKnowsLanded
      BY DEF RecoveryInv, KeysStand, ResumedKnowsLanded
    <2> QED
      BY <2>1 DEF RecoveryInv, WindowStands, DoubtStands, RecoverySafety
  <1> QED
    BY <1>1, ServiceInitInv, ServiceStepInv, PTL DEF ServiceSpec

-----------------------------------------------------------------------------
(***************************************************************************)
(* Credentials (otpService.ts, authService.ts).  A code that was accepted   *)
(* is in Redis no more, and codes stored later are others; a code in Redis  *)
(* was stored after the last lockout.                                       *)
(***************************************************************************)

CodesInv ==
  /\ CodesTypeOK
  /\ issuing => issued < MaxCodes
  /\ storedCode <= issued /\ deadCodes <= issued
  /\ storedCode # 0 => storedCode > deadCodes
  /\ \A c \in Codes : uses[c] <= 1 /\ (uses[c] > 0 => c # storedCode /\ c <= issued)

\* A code is accepted now only if it was stored after the last lockout.
CodeStep == \A c \in Codes : uses'[c] > uses[c] => c > deadCodes

LEMMA CodesInitInv == CodesInit => CodesInv
  <1> SUFFICES ASSUME CodesInit PROVE CodesInv
    OBVIOUS
  <1>1. MaxCodes \in Nat /\ 0 \in 0 .. MaxCodes
    BY CodesAssumption
  <1>2. \A c \in Codes : uses[c] = 0
    BY DEF CodesInit
  <1>3. CodesTypeOK
    BY <1>1 DEF CodesInit, CodesTypeOK
  <1> QED
    BY <1>1, <1>2, <1>3 DEF CodesInit, CodesInv

\* A step that accepts nothing, stores no code and locks nobody out.
LEMMA NoCodeAccepted ==
  ASSUME CodesInv, CodesTypeOK', uses' = uses, storedCode' \in {0, storedCode},
         issued' = issued, deadCodes' = deadCodes, issuing' => issued < MaxCodes
  PROVE  CodesInv' /\ CodeStep
  <1>1. uses \in [Codes -> Nat] /\ \A c \in Codes : c > 0 /\ c \in Nat
    BY CodesAssumption DEF CodesInv, CodesTypeOK, Codes
  <1>2. storedCode' <= issued' /\ (storedCode' # 0 => storedCode' > deadCodes')
    BY CodesAssumption DEF CodesInv, CodesTypeOK
  <1>3. \A c \in Codes : uses'[c] <= 1 /\ (uses'[c] > 0 => c # storedCode' /\ c <= issued')
    BY <1>1 DEF CodesInv
  <1>4. CodeStep
    BY <1>1 DEF CodeStep
  <1> QED
    BY <1>2, <1>3, <1>4 DEF CodesInv

LEMMA BeginPhoneKeeps ==
  ASSUME CodesInv, NEW v \in Verifiers, NEW c \in 0 .. issued, BeginPhone(v, c) \/ BeginAddress(v, c)
  PROVE  CodesInv' /\ CodeStep
  <1>1. c \in 0 .. MaxCodes
    BY CodesAssumption DEF CodesInv, CodesTypeOK
  <1>2. /\ uses' = uses /\ storedCode' = storedCode /\ issued' = issued /\ deadCodes' = deadCodes
        /\ issuing' = issuing /\ service' = service /\ cooldown' = cooldown /\ lockout' = lockout
        /\ holds' = holds /\ input' = [input EXCEPT ![v] = c]
        /\ \E p \in {"idle", "fetch"} : verifying' = [verifying EXCEPT ![v] = p]
    BY DEF BeginPhone, BeginAddress, issueVars, Turn
  <1>3. attempts' \in Nat
    BY DEF BeginPhone, BeginAddress, CodesInv, CodesTypeOK
  <1>4. CodesTypeOK'
    BY <1>1, <1>2, <1>3 DEF CodesInv, CodesTypeOK
  <1> QED
    BY <1>2, <1>4, NoCodeAccepted DEF CodesInv

LEMMA VerifyKeeps ==
  ASSUME CodesInv, NEW v \in Verifiers, FetchCode(v) \/ Mismatch(v) \/ ClearAttempts(v)
  PROVE  CodesInv' /\ CodeStep
  <1>1. /\ uses' = uses /\ storedCode' = storedCode /\ issued' = issued /\ deadCodes' = deadCodes
        /\ issuing' = issuing /\ service' = service /\ cooldown' = cooldown /\ lockout' = lockout
        /\ input' = input
        /\ \E p \in {"idle", "compare", "locking"} : verifying' = [verifying EXCEPT ![v] = p]
    BY DEF FetchCode, Mismatch, ClearAttempts, issueVars, Turn
  <1>2. attempts' \in Nat
    BY DEF FetchCode, Mismatch, ClearAttempts, CodesInv, CodesTypeOK
  <1>3. holds' \in [Verifiers -> 0 .. MaxCodes]
    BY DEF FetchCode, Mismatch, ClearAttempts, CodesInv, CodesTypeOK
  <1>4. CodesTypeOK'
    BY <1>1, <1>2, <1>3 DEF CodesInv, CodesTypeOK
  <1> QED
    BY <1>1, <1>4, NoCodeAccepted DEF CodesInv

LEMMA LockOutKeeps ==
  ASSUME CodesInv, NEW v \in Verifiers, LockOut(v)
  PROVE  CodesInv' /\ CodeStep
  <1>1. /\ storedCode' = 0 /\ attempts' = 0 /\ lockout' = TRUE /\ deadCodes' = issued
        /\ verifying' = [verifying EXCEPT ![v] = "idle"]
        /\ holds' = holds /\ input' = input /\ uses' = uses
        /\ service' = service /\ issuing' = issuing /\ cooldown' = cooldown /\ issued' = issued
    BY DEF LockOut, CodeAfterLock, issueVars, Turn
  <1>2. CodesTypeOK'
    BY <1>1, CodesAssumption DEF CodesInv, CodesTypeOK
  <1>3. uses \in [Codes -> Nat] /\ \A c \in Codes : c > 0
    BY CodesAssumption DEF CodesInv, CodesTypeOK, Codes
  <1>4. storedCode' <= issued' /\ deadCodes' <= issued'
    BY <1>1, CodesAssumption DEF CodesInv, CodesTypeOK
  <1>5. \A c \in Codes : uses'[c] <= 1 /\ (uses'[c] > 0 => c # storedCode' /\ c <= issued')
    BY <1>1, <1>3 DEF CodesInv
  <1>6. CodeStep
    BY <1>1, <1>3 DEF CodeStep
  <1> QED
    BY <1>1, <1>2, <1>4, <1>5, <1>6 DEF CodesInv

LEMMA StoreCodeKeeps ==
  ASSUME CodesInv, StoreCode
  PROVE  CodesInv' /\ CodeStep
  <1>1. /\ issuing' = FALSE /\ issued' = issued + 1 /\ storedCode' = issued + 1 /\ attempts' = 0
        /\ service' = service /\ cooldown' = cooldown /\ lockout' = lockout /\ deadCodes' = deadCodes
        /\ verifying' = verifying /\ holds' = holds /\ input' = input /\ uses' = uses
    BY DEF StoreCode, verifyVars
  <1>2. issued \in Nat /\ issued < MaxCodes /\ deadCodes \in Nat /\ deadCodes <= issued
    BY CodesAssumption DEF CodesInv, CodesTypeOK, StoreCode
  <1>3. issued + 1 \in 0 .. MaxCodes
    BY <1>2, CodesAssumption
  <1>4. CodesTypeOK'
    BY <1>1, <1>3 DEF CodesInv, CodesTypeOK
  <1>5. uses \in [Codes -> Nat] /\ \A c \in Codes : c \in Nat
    BY CodesAssumption DEF CodesInv, CodesTypeOK, Codes
  <1>6. \A c \in Codes : uses'[c] <= 1 /\ (uses'[c] > 0 => c # storedCode' /\ c <= issued')
    BY <1>1, <1>2, <1>5 DEF CodesInv
  <1>7. CodeStep
    BY <1>1, <1>5 DEF CodeStep
  <1> QED
    BY <1>1, <1>2, <1>4, <1>6, <1>7 DEF CodesInv

LEMMA ConsumeCodeKeeps ==
  ASSUME CodesInv, NEW v \in Verifiers, ConsumeCode(v)
  PROVE  CodesInv' /\ CodeStep
  <1>1. /\ attempts' = attempts /\ lockout' = lockout /\ deadCodes' = deadCodes
        /\ holds' = holds /\ input' = input
        /\ service' = service /\ issuing' = issuing /\ cooldown' = cooldown /\ issued' = issued
        /\ \E p \in {"idle", "clear"} : verifying' = [verifying EXCEPT ![v] = p]
    BY DEF ConsumeCode, issueVars, Turn
  <1>2. CASE storedCode # holds[v]
    <2>1. uses' = uses /\ storedCode' = storedCode
      BY <1>2 DEF ConsumeCode, Consumes
    <2>2. CodesTypeOK'
      BY <1>1, <2>1 DEF CodesInv, CodesTypeOK
    <2> QED
      BY <1>1, <2>1, <2>2, NoCodeAccepted DEF CodesInv
  <1>3. CASE storedCode = holds[v]
    <2>1. PICK u : u = storedCode
      OBVIOUS
    <2>2. /\ storedCode' = 0 /\ uses' = [uses EXCEPT ![u] = uses[u] + 1]
          /\ u \in 0 .. MaxCodes /\ u <= issued /\ (u # 0 => u > deadCodes)
          /\ uses \in [Codes -> Nat]
      BY <1>3, <2>1 DEF ConsumeCode, Consumes, CodesInv, CodesTypeOK
    <2>3. \A c \in Codes : /\ c \in Nat /\ c # 0 /\ uses[c] \in Nat
                           /\ uses'[c] = IF c = u THEN uses[c] + 1 ELSE uses[c]
      BY <2>2, CodesAssumption DEF Codes
    <2>4. uses' \in [Codes -> Nat]
      <3>1. uses' = [c \in Codes |-> uses'[c]]
        BY <2>2
      <3>2. \A c \in Codes : uses'[c] \in Nat
        BY <2>3
      <3> QED
        BY <3>1, <3>2
    <2>5. CodesTypeOK'
      <3>1. storedCode' \in 0 .. MaxCodes
        BY <2>2, CodesAssumption
      <3> QED
        BY <1>1, <2>4, <3>1 DEF CodesInv, CodesTypeOK
    <2>6. \A c \in Codes : uses'[c] <= 1 /\ (uses'[c] > 0 => c # storedCode' /\ c <= issued')
      BY <1>1, <2>1, <2>2, <2>3 DEF CodesInv
    <2>7. CodeStep
      BY <2>1, <2>2, <2>3 DEF CodeStep
    <2>8. storedCode' <= issued' /\ deadCodes' <= issued' /\ (issuing' => issued' < MaxCodes)
      BY <1>1, <2>2, CodesAssumption DEF CodesInv, CodesTypeOK
    <2> QED
      BY <2>2, <2>5, <2>6, <2>7, <2>8 DEF CodesInv
  <1> QED
    BY <1>2, <1>3

LEMMA CodesStepInv ==
  ASSUME CodesInv, [CodesNext]_codesVars
  PROVE  CodesInv' /\ CodeStep
  <1>1. CASE UNCHANGED codesVars
    <2>1. CodesTypeOK'
      BY <1>1 DEF codesVars, CodesInv, CodesTypeOK
    <2> QED
      BY <1>1, <2>1, NoCodeAccepted DEF codesVars, CodesInv
  <1>2. CASE BeginIssue
    <2>1. CodesTypeOK'
      BY <1>2 DEF BeginIssue, verifyVars, CodesInv, CodesTypeOK
    <2> QED
      BY <1>2, <2>1, NoCodeAccepted DEF BeginIssue, verifyVars
  <1>3. CASE CodeKeysExpire
    <2>1. CodesTypeOK'
      <3>1. storedCode' \in 0 .. MaxCodes
        BY <1>3, CodesAssumption DEF CodeKeysExpire, CodesInv, CodesTypeOK
      <3>2. attempts' \in Nat
        BY <1>3 DEF CodeKeysExpire, CodesInv, CodesTypeOK
      <3>3. lockout' \in BOOLEAN /\ cooldown' \in BOOLEAN
        BY <1>3 DEF CodeKeysExpire, CodesInv, CodesTypeOK
      <3>4. /\ service' = service /\ issuing' = issuing /\ issued' = issued /\ deadCodes' = deadCodes
            /\ verifying' = verifying /\ holds' = holds /\ input' = input /\ uses' = uses
        BY <1>3 DEF CodeKeysExpire, verifyVars
      <3> QED
        BY <3>1, <3>2, <3>3, <3>4 DEF CodesInv, CodesTypeOK
    <2>2. /\ uses' = uses /\ storedCode' \in {0, storedCode} /\ issued' = issued
          /\ deadCodes' = deadCodes /\ issuing' = issuing
      BY <1>3 DEF CodeKeysExpire, verifyVars
    <2> QED
      BY <2>1, <2>2, NoCodeAccepted DEF CodesInv
  <1> QED
    BY <1>1, <1>2, <1>3, BeginPhoneKeeps, VerifyKeeps, LockOutKeeps, StoreCodeKeeps,
       ConsumeCodeKeeps DEF CodesNext

\* Sign-in: what a refresh token may still become.  A request that is to delete its
\* token stands for it, even if the token has expired since; one that is to store a
\* token stands for that; and each of them goes back to a sign-in of its own.
Awaiting == {r \in Requests : request[r].at \in {"issuing", "storing"}}
Deleting == {t \in Seconds : \E r \in Requests : request[r].at = "deleting" /\ request[r].token = t}
Sessions == refreshKeys \cup Deleting
SignedIn == {n \in 1 .. MaxNonces : accepted[n] > 0}
Uses(r, t) == request[r].at \in {"reading", "deleting"} /\ request[r].token = t

RequestType == [at : {"idle", "consuming", "checking", "issuing", "reading", "deleting", "storing"},
                nonce : 0 .. MaxNonces, valid : BOOLEAN, token : {0} \cup Seconds]

\* A nonce that is being checked has been consumed, by nobody else, and not yet accepted.
NonceStands ==
  /\ nonceKey <= nonces
  /\ \A n \in 1 .. MaxNonces :
       accepted[n] <= 1 /\ (accepted[n] > 0 => n # nonceKey /\ n <= nonces)
  /\ \A r \in Requests :
       /\ request[r].at \in {"consuming", "checking"} => request[r].nonce \in 1 .. nonces
       /\ request[r].at = "checking" =>
            request[r].nonce # nonceKey /\ accepted[request[r].nonce] = 0
  /\ \A r, s \in Requests :
       request[r].at = "checking" /\ request[s].at = "checking"
         /\ request[r].nonce = request[s].nonce => r = s

HasToken(x) == x.at \in {"reading", "deleting", "issuing", "storing"} => x.token \in Seconds

TokensStand ==
  ~overlapped =>
    /\ \A r, s \in Requests, t \in Seconds : Uses(r, t) /\ Uses(s, t) => r = s
    /\ Cardinality(Sessions) + Cardinality(Awaiting) <= Cardinality(SignedIn)

SignInInv ==
  /\ SignInTypeOK /\ NonceStands
  /\ \A r \in Requests : HasToken(request[r])
  /\ TokensStand

\* The three ways in which the count goes on.
LEMMA CountGoesOn ==
  ASSUME NEW A, NEW A2, NEW P, NEW P2, NEW N, NEW N2, NEW x,
         IsFiniteSet(A), IsFiniteSet(P), IsFiniteSet(N),
         Cardinality(A) + Cardinality(P) <= Cardinality(N),
         \/ A2 \subseteq A /\ P2 \subseteq P /\ N2 = N
         \/ \E n : A2 \subseteq A /\ P2 \subseteq P \cup {x} /\ n \notin N /\ N2 = N \cup {n}
         \/ \E t \in A : A2 \subseteq A \ {t} /\ P2 \subseteq P \cup {x} /\ N2 = N
         \/ \E t : A2 \subseteq A \cup {t} /\ x \in P /\ P2 \subseteq P \ {x} /\ N2 = N
  PROVE  Cardinality(A2) + Cardinality(P2) <= Cardinality(N2)
  <1>1. /\ Cardinality(A) \in Nat /\ Cardinality(P) \in Nat /\ Cardinality(N) \in Nat
    BY FS_CardinalityType
  <1>2. \A S, T : IsFiniteSet(T) /\ S \subseteq T =>
          IsFiniteSet(S) /\ Cardinality(S) \in Nat /\ Cardinality(S) <= Cardinality(T)
    BY FS_Subset, FS_CardinalityType
  <1>3. \A S, y : IsFiniteSet(S) =>
          IsFiniteSet(S \cup {y}) /\ Cardinality(S \cup {y}) \in Nat
            /\ Cardinality(S \cup {y}) <= Cardinality(S) + 1
            /\ (y \notin S => Cardinality(S \cup {y}) = Cardinality(S) + 1)
    <2> SUFFICES ASSUME NEW S, NEW y, IsFiniteSet(S)
                 PROVE  /\ IsFiniteSet(S \cup {y}) /\ Cardinality(S \cup {y}) \in Nat
                        /\ Cardinality(S \cup {y}) <= Cardinality(S) + 1
                        /\ (y \notin S => Cardinality(S \cup {y}) = Cardinality(S) + 1)
      OBVIOUS
    <2>1. /\ IsFiniteSet(S \cup {y})
          /\ Cardinality(S \cup {y}) = IF y \in S THEN Cardinality(S) ELSE Cardinality(S) + 1
      BY FS_AddElement
    <2>2. Cardinality(S) \in Nat
      BY FS_CardinalityType
    <2> QED
      BY <2>1, <2>2
  <1>4. \A S, y : IsFiniteSet(S) /\ y \in S =>
          IsFiniteSet(S \ {y}) /\ Cardinality(S \ {y}) \in Nat
            /\ Cardinality(S \ {y}) = Cardinality(S) - 1
    BY FS_RemoveElement, FS_CardinalityType
  <1>5. CASE A2 \subseteq A /\ P2 \subseteq P /\ N2 = N
    <2>1. /\ Cardinality(A2) \in Nat /\ Cardinality(A2) <= Cardinality(A)
          /\ Cardinality(P2) \in Nat /\ Cardinality(P2) <= Cardinality(P)
      BY <1>2, <1>5
    <2> QED
      BY <1>1, <1>5, <2>1
  <1>6. ASSUME NEW n, A2 \subseteq A, P2 \subseteq P \cup {x}, n \notin N, N2 = N \cup {n}
        PROVE  Cardinality(A2) + Cardinality(P2) <= Cardinality(N2)
    <2>1. Cardinality(A2) \in Nat /\ Cardinality(A2) <= Cardinality(A)
      BY <1>2, <1>6
    <2>2. /\ Cardinality(P2) \in Nat /\ Cardinality(P2) <= Cardinality(P \cup {x})
          /\ Cardinality(P \cup {x}) \in Nat /\ Cardinality(P \cup {x}) <= Cardinality(P) + 1
      BY <1>2, <1>3, <1>6
    <2>3. Cardinality(N2) = Cardinality(N) + 1
      BY <1>3, <1>6
    <2> QED
      BY <1>1, <2>1, <2>2, <2>3
  <1>7. ASSUME NEW t \in A, A2 \subseteq A \ {t}, P2 \subseteq P \cup {x}, N2 = N
        PROVE  Cardinality(A2) + Cardinality(P2) <= Cardinality(N2)
    <2>1. /\ Cardinality(A2) \in Nat /\ Cardinality(A2) <= Cardinality(A \ {t})
          /\ Cardinality(A \ {t}) = Cardinality(A) - 1
      BY <1>2, <1>4, <1>7
    <2>2. /\ Cardinality(P2) \in Nat /\ Cardinality(P2) <= Cardinality(P \cup {x})
          /\ Cardinality(P \cup {x}) \in Nat /\ Cardinality(P \cup {x}) <= Cardinality(P) + 1
      BY <1>2, <1>3, <1>7
    <2> QED
      BY <1>1, <1>7, <2>1, <2>2
  <1>8. ASSUME NEW t, A2 \subseteq A \cup {t}, x \in P, P2 \subseteq P \ {x}, N2 = N
        PROVE  Cardinality(A2) + Cardinality(P2) <= Cardinality(N2)
    <2>1. /\ Cardinality(A2) \in Nat /\ Cardinality(A2) <= Cardinality(A \cup {t})
          /\ Cardinality(A \cup {t}) \in Nat /\ Cardinality(A \cup {t}) <= Cardinality(A) + 1
      BY <1>2, <1>3, <1>8
    <2>2. /\ Cardinality(P2) \in Nat /\ Cardinality(P2) <= Cardinality(P \ {x})
          /\ Cardinality(P \ {x}) = Cardinality(P) - 1
      BY <1>2, <1>4, <1>8
    <2> QED
      BY <1>1, <1>8, <2>1, <2>2
  <1> QED
    BY <1>5, <1>6, <1>7, <1>8

LEMMA SessionsAreFinite ==
  ASSUME SignInTypeOK
  PROVE  /\ IsFiniteSet(Sessions) /\ IsFiniteSet(Awaiting) /\ IsFiniteSet(SignedIn)
         /\ Sessions \subseteq Seconds
  <1>1. Sessions \subseteq 1 .. MaxSeconds /\ IsFiniteSet(1 .. MaxSeconds)
    <2>1. Sessions \subseteq 1 .. MaxSeconds
      BY DEF SignInTypeOK, Sessions, Deleting, Seconds
    <2> QED
      BY <2>1, SignInAssumption, FS_Interval
  <1>2. SignedIn \subseteq 1 .. MaxNonces /\ IsFiniteSet(1 .. MaxNonces)
    BY SignInAssumption, FS_Interval DEF SignedIn
  <1>3. Awaiting \subseteq Requests /\ IsFiniteSet(Requests)
    BY SignInAssumption DEF Awaiting
  <1> QED
    BY <1>1, <1>2, <1>3, FS_Subset DEF Seconds

LEMMA AfterMove ==
  ASSUME SignInTypeOK, NEW r \in Requests, NEW z, request' = [request EXCEPT ![r] = z]
  PROVE  /\ \A s \in Requests : request'[s] = IF s = r THEN z ELSE request[s]
         /\ Awaiting' \subseteq Awaiting \cup {r}
         /\ z.at \notin {"issuing", "storing"} => Awaiting' \subseteq Awaiting \ {r}
         /\ \A t \in Deleting' : t \in Deleting \/ (z.at = "deleting" /\ t = z.token)
  <1>1. \A s \in Requests : request'[s] = IF s = r THEN z ELSE request[s]
    BY DEF SignInTypeOK
  <1>2. Awaiting' \subseteq Awaiting \cup {r} /\ (z.at \notin {"issuing", "storing"} => Awaiting' \subseteq Awaiting \ {r})
    BY <1>1 DEF Awaiting
  <1>3. \A t \in Deleting' : t \in Deleting \/ (z.at = "deleting" /\ t = z.token)
    BY <1>1 DEF Deleting
  <1> QED
    BY <1>1, <1>2, <1>3

\* A request moves; what it moves to is right, and the count has been taken care of.
LEMMA RequestMoves ==
  ASSUME SignInInv, NEW r \in Requests, NEW z \in RequestType,
         request' = [request EXCEPT ![r] = z],
         nonceKey' \in {0, nonceKey}, nonces' = nonces, accepted' = accepted, second' = second,
         refreshKeys' \subseteq Seconds, handedOut' \subseteq Seconds,
         overlapped' \in BOOLEAN, overlapped => overlapped',
         z.at \in {"consuming", "checking"} => z.nonce \in 1 .. nonces,
         z.at = "checking" => z.nonce = nonceKey /\ nonceKey' = 0,
         HasToken(z),
         z.at \in {"reading", "deleting"} =>
           overlapped' \/ Uses(r, z.token) \/ \A s \in Requests : ~Uses(s, z.token),
         ~overlapped' => Cardinality(Sessions') + Cardinality(Awaiting') <= Cardinality(SignedIn')
  PROVE  SignInInv'
  <1>1. /\ SignInTypeOK /\ NonceStands /\ TokensStand
        /\ \A s \in Requests : request'[s] = IF s = r THEN z ELSE request[s]
    <2>1. SignInTypeOK /\ NonceStands /\ TokensStand
      BY DEF SignInInv
    <2>2. \A s \in Requests : request'[s] = IF s = r THEN z ELSE request[s]
      BY <2>1 DEF SignInTypeOK
    <2> QED
      BY <2>1, <2>2
  <1>2. /\ nonceKey \in 0 .. MaxNonces /\ nonces \in 0 .. MaxNonces /\ MaxNonces \in Nat
        /\ nonceKey' \in 0 .. MaxNonces /\ nonceKey' <= nonces /\ nonceKey <= nonces
        /\ request \in [Requests -> RequestType] /\ accepted \in [1 .. MaxNonces -> Nat]
    BY <1>1, SignInAssumption DEF SignInTypeOK, RequestType, NonceStands
  <1>3. SignInTypeOK'
    <2>1. request' \in [Requests -> RequestType]
      BY <1>2
    <2> QED
      BY <1>1, <1>2, <2>1 DEF SignInTypeOK, RequestType
  <1>4. NonceStands'
    <2>1. \A n \in 1 .. MaxNonces :
            n \in Nat /\ n > 0 /\ accepted'[n] <= 1 /\ (accepted'[n] > 0 => n # nonceKey' /\ n <= nonces')
      BY <1>1, <1>2 DEF NonceStands
    <2>2. ASSUME NEW s \in Requests
          PROVE  /\ request'[s].at \in {"consuming", "checking"} => request'[s].nonce \in 1 .. nonces
                 /\ request'[s].at = "checking" =>
                      request'[s].nonce # nonceKey' /\ accepted'[request'[s].nonce] = 0
      <3>1. CASE s # r
        <4>1. /\ request[s].at \in {"consuming", "checking"} => request[s].nonce \in 1 .. nonces
              /\ request[s].at = "checking" =>
                   request[s].nonce # nonceKey /\ accepted[request[s].nonce] = 0
          BY <1>1 DEF NonceStands
        <4> QED
          BY <1>1, <1>2, <3>1, <4>1
      <3>2. CASE s = r
        <4>1. z.at = "checking" => nonceKey \in 1 .. MaxNonces /\ accepted[nonceKey] \in Nat
          BY <1>2
        <4>2. z.at = "checking" => accepted[nonceKey] = 0
          BY <1>1, <4>1 DEF NonceStands
        <4> QED
          BY <1>1, <1>2, <3>2, <4>1, <4>2
      <3> QED
        BY <3>1, <3>2
    <2>3. ASSUME NEW s \in Requests, NEW q \in Requests,
                 request'[s].at = "checking", request'[q].at = "checking",
                 request'[s].nonce = request'[q].nonce
          PROVE  s = q
      <3>1. \A p \in Requests : request[p].at = "checking" => request[p].nonce # nonceKey
        BY <1>1 DEF NonceStands
      <3>2. s # r /\ q # r => s = q
        BY <1>1, <2>3 DEF NonceStands
      <3> QED
        BY <1>1, <2>3, <3>1, <3>2
    <2> QED
      BY <1>2, <2>1, <2>2, <2>3 DEF NonceStands
  <1>5. TokensStand'
    <2> SUFFICES ASSUME ~overlapped'
                 PROVE  \A s, q \in Requests, t \in Seconds : Uses(s, t)' /\ Uses(q, t)' => s = q
      BY DEF TokensStand
    <2> SUFFICES ASSUME NEW s \in Requests, NEW q \in Requests, NEW t \in Seconds,
                        Uses(s, t)', Uses(q, t)'
                 PROVE  s = q
      OBVIOUS
    <2>1. \A a, b \in Requests : Uses(a, t) /\ Uses(b, t) => a = b
      BY <1>1 DEF TokensStand
    <2>2. \A a \in Requests : Uses(a, t)' => \/ a # r /\ Uses(a, t)
                                             \/ a = r /\ z.at \in {"reading", "deleting"} /\ z.token = t
      BY <1>1 DEF Uses
    <2> QED
      BY <2>1, <2>2
  <1>6. \A s \in Requests : HasToken(request'[s])
    BY <1>1 DEF SignInInv
  <1> QED
    BY <1>3, <1>4, <1>5, <1>6 DEF SignInInv, HasToken

\* A request that ends, or goes on to where no token is used, and leaves the keys alone.
LEMMA CountStays ==
  ASSUME SignInInv, NEW r \in Requests, NEW z, request' = [request EXCEPT ![r] = z],
         refreshKeys' \subseteq refreshKeys, accepted' = accepted, ~overlapped,
         z.at \notin {"issuing", "storing"}, z.at = "deleting" => z.token \in refreshKeys
  PROVE  Cardinality(Sessions') + Cardinality(Awaiting') <= Cardinality(SignedIn')
  <1>1. SignInTypeOK /\ Cardinality(Sessions) + Cardinality(Awaiting) <= Cardinality(SignedIn)
    BY DEF SignInInv, TokensStand
  <1>2. Awaiting' \subseteq Awaiting /\ Sessions' \subseteq Sessions /\ SignedIn' = SignedIn
    <2>1. /\ Awaiting' \subseteq Awaiting
          /\ \A t \in Deleting' : t \in Deleting \/ (z.at = "deleting" /\ t = z.token)
      BY <1>1, AfterMove
    <2>2. Sessions' \subseteq Sessions
      BY <2>1 DEF Sessions
    <2>3. SignedIn' = SignedIn
      BY DEF SignedIn
    <2> QED
      BY <2>1, <2>2, <2>3
  <1> QED
    BY <1>1, <1>2, SessionsAreFinite, CountGoesOn

LEMMA IdleIsTyped ==
  IdleRequest \in RequestType /\ IdleRequest.at = "idle" /\ HasToken(IdleRequest)
  BY SignInAssumption DEF IdleRequest, RequestType, HasToken

\* The request is refused or fails.
LEMMA DeniedInv ==
  ASSUME SignInInv, NEW r \in Requests, Denied(r), nonceKey' \in {0, nonceKey}, nonces' = nonces,
         accepted' = accepted, second' = second, UNCHANGED signedIn
  PROVE  SignInInv'
  <1>1. PICK z : z = IdleRequest
    OBVIOUS
  <1>2. /\ request' = [request EXCEPT ![r] = z] /\ z \in RequestType /\ z.at = "idle" /\ HasToken(z)
        /\ refreshKeys' = refreshKeys /\ handedOut' = handedOut /\ overlapped' = overlapped
    BY <1>1, IdleIsTyped DEF Denied, signedIn
  <1>3. refreshKeys \subseteq Seconds /\ handedOut \subseteq Seconds /\ overlapped \in BOOLEAN
    BY DEF SignInInv, SignInTypeOK
  <1>4. ~overlapped' => Cardinality(Sessions') + Cardinality(Awaiting') <= Cardinality(SignedIn')
    BY <1>2, CountStays
  <1> QED
    BY <1>2, <1>3, <1>4, RequestMoves

\* The types of a request, as the proofs use them.
LEMMA RequestFields ==
  ASSUME SignInInv
  PROVE  /\ SignInTypeOK /\ request \in [Requests -> RequestType] /\ accepted \in [1 .. MaxNonces -> Nat]
         /\ \A r \in Requests : request[r] \in RequestType
         /\ nonces \in 0 .. MaxNonces /\ nonceKey \in 0 .. MaxNonces /\ MaxNonces \in Nat
         /\ second \in Seconds /\ refreshKeys \subseteq Seconds /\ handedOut \subseteq Seconds
         /\ overlapped \in BOOLEAN
  BY SignInAssumption DEF SignInInv, SignInTypeOK, RequestType

LEMMA BeginVerifyInv ==
  ASSUME SignInInv, NEW r \in Requests, BeginVerify(r)
  PROVE  SignInInv'
  <1>1. PICK n \in 1 .. nonces, valid \in BOOLEAN :
          request' = [request EXCEPT ![r] =
                        [IdleRequest EXCEPT !.at = "consuming", !.nonce = n, !.valid = valid]]
    BY DEF BeginVerify
  <1>2. PICK z : z = [IdleRequest EXCEPT !.at = "consuming", !.nonce = n, !.valid = valid]
    OBVIOUS
  <1>3. n \in 0 .. MaxNonces
    BY RequestFields
  <1>4. z \in RequestType /\ z.at = "consuming" /\ z.nonce = n /\ HasToken(z)
    BY <1>2, <1>3, IdleIsTyped DEF RequestType, HasToken
  <1>5. /\ nonceKey' = nonceKey /\ nonces' = nonces /\ accepted' = accepted /\ second' = second
        /\ refreshKeys' = refreshKeys /\ handedOut' = handedOut /\ overlapped' = overlapped
    BY DEF BeginVerify, signedIn
  <1>6. request' = [request EXCEPT ![r] = z]
    BY <1>1, <1>2
  <1>7. ~overlapped' => Cardinality(Sessions') + Cardinality(Awaiting') <= Cardinality(SignedIn')
    BY <1>4, <1>5, <1>6, CountStays
  <1> QED
    BY <1>4, <1>5, <1>6, <1>7, RequestMoves, RequestFields

LEMMA ConsumeNonceInv ==
  ASSUME SignInInv, NEW r \in Requests, ConsumeNonce(r)
  PROVE  SignInInv'
  <1>1. /\ nonceKey' = 0 /\ nonces' = nonces /\ accepted' = accepted /\ second' = second
        /\ UNCHANGED signedIn /\ request[r].at = "consuming"
    BY DEF ConsumeNonce, Consumed
  <1>2. CASE nonceKey # request[r].nonce
    BY <1>1, <1>2, DeniedInv DEF ConsumeNonce
  <1>3. CASE nonceKey = request[r].nonce
    <2>1. PICK z : z = [request[r] EXCEPT !.at = "checking"]
      OBVIOUS
    <2>2. z \in RequestType /\ z.at = "checking" /\ z.nonce = nonceKey /\ HasToken(z)
      BY <1>3, <2>1, RequestFields DEF RequestType, HasToken
    <2>3. request' = [request EXCEPT ![r] = z]
      BY <1>3, <2>1, RequestFields DEF ConsumeNonce, Goes
    <2>4. z.nonce \in 1 .. nonces
      BY <1>1, <1>3, <2>2 DEF SignInInv, NonceStands
    <2>5. refreshKeys' = refreshKeys /\ handedOut' = handedOut /\ overlapped' = overlapped
      BY <1>1 DEF signedIn
    <2>6. ~overlapped' => Cardinality(Sessions') + Cardinality(Awaiting') <= Cardinality(SignedIn')
      BY <1>1, <2>2, <2>3, <2>5, CountStays
    <2> QED
      BY <1>1, <2>2, <2>3, <2>4, <2>5, <2>6, RequestMoves, RequestFields
  <1> QED
    BY <1>2, <1>3

LEMMA BeginRefreshInv ==
  ASSUME SignInInv, NEW r \in Requests, BeginRefresh(r)
  PROVE  SignInInv'
  <1>1. PICK t \in handedOut :
          /\ request' = [request EXCEPT ![r] = [IdleRequest EXCEPT !.at = "reading", !.token = t]]
          /\ overlapped' = (overlapped \/ Using(t) # {})
    BY DEF BeginRefresh
  <1>2. PICK z : z = [IdleRequest EXCEPT !.at = "reading", !.token = t]
    OBVIOUS
  <1>3. z \in RequestType /\ z.at = "reading" /\ z.token = t /\ HasToken(z)
    BY <1>2, IdleIsTyped, RequestFields DEF RequestType, HasToken
  <1>4. /\ nonceKey' = nonceKey /\ nonces' = nonces /\ accepted' = accepted /\ second' = second
        /\ refreshKeys' = refreshKeys /\ handedOut' = handedOut
    BY DEF BeginRefresh
  <1>5. request' = [request EXCEPT ![r] = z]
    BY <1>1, <1>2
  <1>6. overlapped' \/ \A s \in Requests : ~Uses(s, z.token)
    BY <1>1, <1>3 DEF Using, Uses
  <1>7. ~overlapped' => Cardinality(Sessions') + Cardinality(Awaiting') <= Cardinality(SignedIn')
    BY <1>1, <1>3, <1>4, <1>5, CountStays
  <1>8. overlapped' \in BOOLEAN /\ (overlapped => overlapped')
    BY <1>1, RequestFields
  <1> QED
    BY <1>3, <1>4, <1>5, <1>6, <1>7, <1>8, RequestMoves, RequestFields

LEMMA ReadTokenInv ==
  ASSUME SignInInv, NEW r \in Requests, ReadToken(r)
  PROVE  SignInInv'
  <1>1. /\ nonceKey' = nonceKey /\ nonces' = nonces /\ accepted' = accepted /\ second' = second
        /\ UNCHANGED signedIn /\ request[r].at = "reading"
    BY DEF ReadToken
  <1>2. CASE request[r].token \notin refreshKeys
    BY <1>1, <1>2, DeniedInv DEF ReadToken
  <1>3. CASE request[r].token \in refreshKeys
    <2>1. PICK z : z = [request[r] EXCEPT !.at = "deleting"]
      OBVIOUS
    <2>2. z \in RequestType /\ z.at = "deleting" /\ z.token = request[r].token /\ HasToken(z)
      BY <1>1, <2>1, RequestFields DEF RequestType, HasToken, SignInInv
    <2>3. request' = [request EXCEPT ![r] = z]
      BY <1>3, <2>1, RequestFields DEF ReadToken, Goes
    <2>4. Uses(r, z.token)
      BY <1>1, <2>2 DEF Uses
    <2>5. refreshKeys' = refreshKeys /\ handedOut' = handedOut /\ overlapped' = overlapped
      BY <1>1 DEF signedIn
    <2>6. ~overlapped' => Cardinality(Sessions') + Cardinality(Awaiting') <= Cardinality(SignedIn')
      BY <1>1, <1>3, <2>2, <2>3, <2>5, CountStays
    <2> QED
      BY <1>1, <2>2, <2>3, <2>4, <2>5, <2>6, RequestMoves, RequestFields
  <1> QED
    BY <1>2, <1>3

LEMMA DeleteTokenInv ==
  ASSUME SignInInv, NEW r \in Requests, DeleteToken(r)
  PROVE  SignInInv'
  <1>1. PICK t : t = request[r].token
    OBVIOUS
  <1>2. PICK z : z = [request[r] EXCEPT !.at = "storing", !.token = second]
    OBVIOUS
  <1>3. /\ nonceKey' = nonceKey /\ nonces' = nonces /\ accepted' = accepted /\ second' = second
        /\ handedOut' = handedOut /\ overlapped' = overlapped /\ refreshKeys' = refreshKeys \ {t}
        /\ request[r].at = "deleting" /\ t \in Seconds
    BY <1>1 DEF DeleteToken, Invalidated, SignInInv, HasToken
  <1>4. z \in RequestType /\ z.at = "storing" /\ request' = [request EXCEPT ![r] = z] /\ HasToken(z)
    BY <1>2, RequestFields DEF RequestType, DeleteToken, HasToken
  <1>5. ASSUME ~overlapped
        PROVE  Cardinality(Sessions') + Cardinality(Awaiting') <= Cardinality(SignedIn')
    <2>1. SignInTypeOK /\ Cardinality(Sessions) + Cardinality(Awaiting) <= Cardinality(SignedIn)
      BY <1>5 DEF SignInInv, TokensStand
    <2>2. \A s \in Requests : request[s].at = "deleting" /\ request[s].token = t => s = r
      BY <1>1, <1>3, <1>5 DEF SignInInv, TokensStand, Uses
    <2>3. Deleting' \subseteq Deleting \ {t}
      <3>1. \A s \in Requests : request'[s] = IF s = r THEN z ELSE request[s]
        BY <1>4, <2>1, AfterMove
      <3> QED
        BY <1>4, <2>2, <3>1 DEF Deleting
    <2>4. t \in Sessions
      BY <1>1, <1>3 DEF Sessions, Deleting
    <2>5. Sessions' \subseteq Sessions \ {t}
      BY <1>3, <2>3 DEF Sessions
    <2>6. Awaiting' \subseteq Awaiting \cup {r} /\ SignedIn' = SignedIn
      BY <1>3, <1>4, <2>1, AfterMove DEF SignedIn
    <2> QED
      BY <2>1, <2>4, <2>5, <2>6, SessionsAreFinite, CountGoesOn
  <1> QED
    BY <1>3, <1>4, <1>5, RequestMoves, RequestFields

LEMMA StoreTokenInv ==
  ASSUME SignInInv, NEW r \in Requests, StoreToken(r)
  PROVE  SignInInv'
  <1>1. PICK t : t = request[r].token
    OBVIOUS
  <1>2. PICK z : z = IdleRequest
    OBVIOUS
  <1>3. /\ nonceKey' = nonceKey /\ nonces' = nonces /\ accepted' = accepted /\ second' = second
        /\ overlapped' = overlapped /\ refreshKeys' = refreshKeys \cup {t}
        /\ handedOut' = handedOut \cup {t} /\ request[r].at \in {"issuing", "storing"} /\ t \in Seconds
    BY <1>1 DEF StoreToken, SignInInv, HasToken
  <1>4. z \in RequestType /\ z.at = "idle" /\ HasToken(z) /\ request' = [request EXCEPT ![r] = z]
    BY <1>2, IdleIsTyped DEF StoreToken, Denied
  <1>5. ASSUME ~overlapped
        PROVE  Cardinality(Sessions') + Cardinality(Awaiting') <= Cardinality(SignedIn')
    <2>1. SignInTypeOK /\ Cardinality(Sessions) + Cardinality(Awaiting) <= Cardinality(SignedIn)
      BY <1>5 DEF SignInInv, TokensStand
    <2>2. Sessions' \subseteq Sessions \cup {t}
      <3>1. Deleting' \subseteq Deleting
        BY <1>4, <2>1, AfterMove
      <3> QED
        BY <1>3, <3>1 DEF Sessions
    <2>3. Awaiting' \subseteq Awaiting \ {r} /\ r \in Awaiting /\ SignedIn' = SignedIn
      BY <1>3, <1>4, <2>1, AfterMove DEF Awaiting, SignedIn
    <2> QED
      BY <2>1, <2>2, <2>3, SessionsAreFinite, CountGoesOn
  <1> QED
    BY <1>3, <1>4, <1>5, RequestMoves, RequestFields

\* The step that accepts a nonce: a session may begin.
LEMMA CheckSignatureInv ==
  ASSUME SignInInv, NEW r \in Requests, CheckSignature(r)
  PROVE  SignInInv'
  <1>1. /\ nonceKey' = nonceKey /\ nonces' = nonces /\ second' = second
        /\ UNCHANGED signedIn /\ request[r].at = "checking"
    BY DEF CheckSignature
  <1>2. CASE ~request[r].valid
    BY <1>1, <1>2, DeniedInv DEF CheckSignature
  <1>3. CASE request[r].valid
    <2>1. PICK n : n = request[r].nonce
      OBVIOUS
    <2>2. PICK z : z = [request[r] EXCEPT !.at = "issuing", !.token = second]
      OBVIOUS
    <2>3. /\ SignInTypeOK /\ NonceStands /\ TokensStand
          /\ n \in 1 .. nonces /\ n # nonceKey /\ accepted[n] = 0
          /\ nonces \in 0 .. MaxNonces /\ nonceKey \in 0 .. MaxNonces /\ MaxNonces \in Nat
          /\ accepted \in [1 .. MaxNonces -> Nat] /\ request \in [Requests -> RequestType]
      BY <1>1, <2>1, RequestFields DEF SignInInv, NonceStands
    <2>4. n \in 1 .. MaxNonces
      BY <2>3
    <2>5. z \in RequestType /\ z.at = "issuing" /\ HasToken(z)
      BY <2>2, RequestFields DEF RequestType, HasToken
    <2>6. request' = [request EXCEPT ![r] = z] /\ accepted' = [accepted EXCEPT ![n] = 1]
      <3>1. request' = [request EXCEPT ![r].at = "issuing", ![r].token = second]
        BY <1>3 DEF CheckSignature
      <3>2. accepted' = [accepted EXCEPT ![n] = accepted[n] + 1]
        BY <1>3, <2>1 DEF CheckSignature
      <3>3. request' = [request EXCEPT ![r] = z]
        BY <2>2, <2>3, <3>1 DEF RequestType
      <3> QED
        BY <2>3, <3>2, <3>3
    <2>7. \A s \in Requests : request'[s] = IF s = r THEN z ELSE request[s]
      BY <2>3, <2>6
    <2>8. \A m \in 1 .. MaxNonces : accepted'[m] = IF m = n THEN 1 ELSE accepted[m]
      BY <2>3, <2>6
    <2>9. refreshKeys' = refreshKeys /\ handedOut' = handedOut /\ overlapped' = overlapped
      BY <1>1 DEF signedIn
    <2>10. SignInTypeOK'
      <3>1. request' \in [Requests -> RequestType] /\ accepted' \in [1 .. MaxNonces -> Nat]
        BY <2>3, <2>5, <2>6
      <3> QED
        BY <1>1, <2>3, <2>9, <3>1 DEF SignInTypeOK, RequestType
    <2>11. NonceStands'
      <3>1. \A m \in 1 .. MaxNonces :
              accepted'[m] <= 1 /\ (accepted'[m] > 0 => m # nonceKey /\ m <= nonces)
        BY <2>3, <2>8 DEF NonceStands
      <3>2. ASSUME NEW s \in Requests
            PROVE  /\ request'[s].at \in {"consuming", "checking"} => request'[s].nonce \in 1 .. nonces
                   /\ request'[s].at = "checking" =>
                        request'[s].nonce # nonceKey /\ accepted'[request'[s].nonce] = 0
        <4>1. CASE s = r
          BY <2>5, <2>7, <4>1
        <4>2. CASE s # r
          <5>1. /\ request[s].at \in {"consuming", "checking"} => request[s].nonce \in 1 .. nonces
                /\ request[s].at = "checking" =>
                     /\ request[s].nonce # nonceKey /\ accepted[request[s].nonce] = 0
                     /\ request[s].nonce # n
            BY <1>1, <2>1, <2>3, <4>2 DEF NonceStands
          <5>2. request[s].nonce \in 1 .. nonces => request[s].nonce \in 1 .. MaxNonces
            BY <2>3
          <5> QED
            BY <2>7, <2>8, <4>2, <5>1, <5>2
        <4> QED
          BY <4>1, <4>2
      <3>3. \A s, q \in Requests :
              request'[s].at = "checking" /\ request'[q].at = "checking"
                /\ request'[s].nonce = request'[q].nonce => s = q
        BY <2>3, <2>5, <2>7 DEF NonceStands
      <3>4. nonceKey' <= nonces'
        BY <1>1, <2>3 DEF NonceStands
      <3> QED
        BY <1>1, <3>1, <3>2, <3>3, <3>4 DEF NonceStands
    <2>12. \A s \in Requests : HasToken(request'[s])
      BY <2>5, <2>7 DEF SignInInv
    <2>13. ASSUME ~overlapped
           PROVE  /\ \A s, q \in Requests, t \in Seconds : Uses(s, t)' /\ Uses(q, t)' => s = q
                  /\ Cardinality(Sessions') + Cardinality(Awaiting') <= Cardinality(SignedIn')
      <3>1. /\ \A s, q \in Requests, t \in Seconds : Uses(s, t) /\ Uses(q, t) => s = q
            /\ Cardinality(Sessions) + Cardinality(Awaiting) <= Cardinality(SignedIn)
        BY <2>3, <2>13 DEF TokensStand
      <3>2. \A s \in Requests, t \in Seconds : Uses(s, t)' => Uses(s, t)
        BY <2>5, <2>7 DEF Uses
      <3>3. \A s, q \in Requests, t \in Seconds : Uses(s, t)' /\ Uses(q, t)' => s = q
        BY <3>1, <3>2
      <3>4. Sessions' \subseteq Sessions
        <4>1. Deleting' \subseteq Deleting
          BY <2>5, <2>7 DEF Deleting
        <4> QED
          BY <2>9, <4>1 DEF Sessions
      <3>5. Awaiting' \subseteq Awaiting \cup {r}
        BY <2>7 DEF Awaiting
      <3>6. n \notin SignedIn /\ SignedIn' = SignedIn \cup {n}
        BY <2>3, <2>4, <2>8 DEF SignedIn
      <3>7. Cardinality(Sessions') + Cardinality(Awaiting') <= Cardinality(SignedIn')
        BY <2>3, <3>1, <3>4, <3>5, <3>6, SessionsAreFinite, CountGoesOn
      <3> QED
        BY <3>3, <3>7
    <2> QED
      BY <2>9, <2>10, <2>11, <2>12, <2>13 DEF SignInInv, TokensStand, HasToken
  <1> QED
    BY <1>2, <1>3

\* A step of nobody's request: a challenge, the clock, keys that expire.
LEMMA NoRequestMoves ==
  ASSUME SignInInv, request' = request, accepted' = accepted, overlapped' = overlapped,
         handedOut' = handedOut, refreshKeys' \subseteq refreshKeys, second' \in Seconds,
         nonces' \in nonces .. MaxNonces,
         nonceKey' \in 0 .. MaxNonces, nonceKey' \in {0, nonceKey} \/ (nonceKey' = nonces + 1 /\ nonces' = nonces + 1)
  PROVE  SignInInv'
  <1>1. /\ nonces \in 0 .. MaxNonces /\ nonceKey \in 0 .. MaxNonces /\ MaxNonces \in Nat
        /\ nonces' \in 0 .. MaxNonces /\ nonces <= nonces' /\ nonces' \in Nat /\ nonces \in Nat
        /\ accepted \in [1 .. MaxNonces -> Nat]
    BY RequestFields
  <1>2. SignInTypeOK'
    BY <1>1 DEF SignInInv, SignInTypeOK
  <1>3. NonceStands'
    <2>1. nonceKey' <= nonces'
      BY <1>1 DEF SignInInv, NonceStands
    <2>2. \A n \in 1 .. MaxNonces :
            accepted[n] <= 1 /\ (accepted[n] > 0 => n # nonceKey' /\ n <= nonces')
      <3> SUFFICES ASSUME NEW n \in 1 .. MaxNonces
                   PROVE  accepted[n] <= 1 /\ (accepted[n] > 0 => n # nonceKey' /\ n <= nonces')
        OBVIOUS
      <3>1. accepted[n] <= 1 /\ (accepted[n] > 0 => n # nonceKey /\ n <= nonces)
        BY DEF SignInInv, NonceStands
      <3> QED
        BY <1>1, <3>1
    <2>3. ASSUME NEW r \in Requests
          PROVE  /\ request[r].at \in {"consuming", "checking"} => request[r].nonce \in 1 .. nonces'
                 /\ request[r].at = "checking" =>
                      request[r].nonce # nonceKey' /\ accepted[request[r].nonce] = 0
      <3>1. /\ request[r].at \in {"consuming", "checking"} => request[r].nonce \in 1 .. nonces
            /\ request[r].at = "checking" =>
                 request[r].nonce # nonceKey /\ accepted[request[r].nonce] = 0
        BY DEF SignInInv, NonceStands
      <3> QED
        BY <1>1, <3>1
    <2>4. \A r, s \in Requests :
            request[r].at = "checking" /\ request[s].at = "checking"
              /\ request[r].nonce = request[s].nonce => r = s
      BY DEF SignInInv, NonceStands
    <2> QED
      BY <2>1, <2>2, <2>3, <2>4 DEF NonceStands
  <1>4. TokensStand'
    <2> SUFFICES ASSUME ~overlapped
                 PROVE  /\ \A s, q \in Requests, t \in Seconds : Uses(s, t)' /\ Uses(q, t)' => s = q
                        /\ Cardinality(Sessions') + Cardinality(Awaiting') <= Cardinality(SignedIn')
      BY DEF TokensStand
    <2>1. /\ \A s, q \in Requests, t \in Seconds : Uses(s, t) /\ Uses(q, t) => s = q
          /\ Cardinality(Sessions) + Cardinality(Awaiting) <= Cardinality(SignedIn) /\ SignInTypeOK
      BY DEF SignInInv, TokensStand
    <2>2. Sessions' \subseteq Sessions /\ Awaiting' = Awaiting /\ SignedIn' = SignedIn
      BY DEF Sessions, Deleting, Awaiting, SignedIn
    <2>3. Cardinality(Sessions') + Cardinality(Awaiting') <= Cardinality(SignedIn')
      BY <2>1, <2>2, SessionsAreFinite, CountGoesOn
    <2> QED
      BY <2>1, <2>3 DEF Uses
  <1> QED
    BY <1>2, <1>3, <1>4 DEF SignInInv, HasToken

LEMMA SignInStepInv ==
  ASSUME SignInInv, [SignInNext]_signInVars
  PROVE  SignInInv'
  <1>1. CASE UNCHANGED signInVars
    BY <1>1, NoRequestMoves, RequestFields DEF signInVars
  <1>2. CASE IssueChallenge
    <2>1. /\ request' = request /\ accepted' = accepted /\ overlapped' = overlapped
          /\ handedOut' = handedOut /\ refreshKeys' = refreshKeys /\ second' = second
          /\ nonces < MaxNonces /\ nonces' = nonces + 1 /\ nonceKey' = nonces + 1
      BY <1>2 DEF IssueChallenge, signedIn
    <2>2. nonces' \in nonces .. MaxNonces /\ nonceKey' \in 0 .. MaxNonces /\ second' \in Seconds
      BY <2>1, RequestFields
    <2> QED
      BY <2>1, <2>2, NoRequestMoves
  <1>3. CASE NonceExpires \/ SecondPasses \/ TokenExpires
    <2>1. /\ request' = request /\ accepted' = accepted /\ overlapped' = overlapped
          /\ handedOut' = handedOut /\ refreshKeys' \subseteq refreshKeys
          /\ nonces' = nonces /\ nonceKey' \in {0, nonceKey}
      BY <1>3 DEF NonceExpires, SecondPasses, TokenExpires, signedIn
    <2>2. second' \in Seconds
      BY <1>3, RequestFields, SignInAssumption DEF NonceExpires, SecondPasses, TokenExpires, Seconds
    <2>3. nonces' \in nonces .. MaxNonces /\ nonceKey' \in 0 .. MaxNonces
      BY <2>1, RequestFields
    <2> QED
      BY <2>1, <2>2, <2>3, NoRequestMoves
  <1>4. ASSUME NEW r \in Requests, RequestFails(r)
        PROVE  SignInInv'
    BY <1>4, DeniedInv DEF RequestFails
  <1> QED
    BY <1>1, <1>2, <1>3, <1>4, BeginVerifyInv, ConsumeNonceInv, CheckSignatureInv, BeginRefreshInv,
       ReadTokenInv, DeleteTokenInv, StoreTokenInv DEF SignInNext

LEMMA SignInInitInv == SignInInit => SignInInv
  <1> SUFFICES ASSUME SignInInit PROVE SignInInv
    OBVIOUS
  <1>1. /\ \A r \in Requests : request[r] = IdleRequest /\ request[r].at = "idle"
        /\ MaxNonces \in Nat /\ 1 \in Seconds /\ 0 \in 0 .. MaxNonces
    BY SignInAssumption DEF SignInInit, IdleRequest, Seconds
  <1>2. SignInTypeOK
    BY <1>1, IdleIsTyped DEF SignInInit, SignInTypeOK, RequestType
  <1>3. NonceStands
    BY <1>1 DEF SignInInit, NonceStands
  <1>4. Sessions = {} /\ Awaiting = {}
    BY <1>1 DEF SignInInit, Sessions, Deleting, Awaiting
  <1>5. Cardinality(Sessions) + Cardinality(Awaiting) <= Cardinality(SignedIn)
    BY <1>2, <1>4, FS_EmptySet, FS_CardinalityType, SessionsAreFinite
  <1>6. \A r \in Requests : HasToken(request[r])
    BY <1>1 DEF HasToken
  <1>7. \A r \in Requests, t \in Seconds : ~Uses(r, t)
    BY <1>1 DEF Uses
  <1> QED
    BY <1>2, <1>3, <1>5, <1>6, <1>7 DEF SignInInv, TokensStand

(***************************************************************************)
(* Codes, nonces and refresh tokens are good for one use, for any number of *)
(* verifications and requests in any order.                                 *)
(***************************************************************************)
THEOREM CredentialsSingleUse == CodesSpec /\ SignInSpec => CredentialsOnce
  <1>1. CodesInv => CodesTypeOK /\ UsedOnce
    BY DEF CodesInv, UsedOnce
  <1>2. CodesInv /\ [CodesNext]_codesVars =>
          CodesInv' /\ [\A c \in Codes : uses'[c] > uses[c] => c > deadCodes]_codesVars
    BY CodesStepInv DEF CodeStep
  <1>3. SignInInv => SignInTypeOK /\ NonceOnce /\ SessionsAreSignIns
    <2> SUFFICES ASSUME SignInInv PROVE SignInTypeOK /\ NonceOnce /\ SessionsAreSignIns
      OBVIOUS
    <2>1. SignInTypeOK /\ NonceOnce
      BY DEF SignInInv, NonceStands, NonceOnce
    <2>2. ASSUME ~overlapped
          PROVE  Cardinality(refreshKeys)
                   + Cardinality({r \in Requests : request[r].at \in {"issuing", "storing"}}) <= SignIns
      <3>1. Cardinality(Sessions) + Cardinality(Awaiting) <= Cardinality(SignedIn)
        BY <2>2 DEF SignInInv, TokensStand
      <3>2. refreshKeys \subseteq Sessions
        BY DEF Sessions
      <3> QED
        BY <2>1, <3>1, <3>2, SessionsAreFinite, CountGoesOn DEF SignIns, Awaiting, SignedIn
    <2> QED
      BY <2>1, <2>2 DEF SessionsAreSignIns
  <1> QED
    BY <1>1, <1>2, <1>3, CodesInitInv, SignInInitInv, SignInStepInv,
       PTL DEF CodesSpec, SignInSpec, CredentialsOnce, LockedCodesAreDead

-----------------------------------------------------------------------------
(***************************************************************************)
(* The yield-check job (yieldCheckJob.ts), whose runs do not overlap.  What *)
(* this process has signed and not seen settled is what it keeps the hash   *)
(* of.                                                                      *)
(***************************************************************************)

Fates == {"unbuilt", "signed", "air", "success", "failed", "dropped"}

SubmissionStands(c) ==
  /\ submission[c] = "building" => pendingHash = 0
  /\ submission[c] \in {"sending", "polling"} => txHash[c] \in 1 .. txCount
  /\ submission[c] = "sending" => pendingHash = txHash[c] /\ txs[txHash[c]].fate = "signed"
  /\ submission[c] = "polling" => pendingHash \in {0, txHash[c]}

YieldInv ==
  /\ YieldTypeOK /\ TriggeredHasLanded
  /\ \A t \in Hashes : txs[t].fate \in {"signed", "air"} /\ t \notin forgotten => t = pendingHash
  /\ \A t \in Hashes : t > txCount => txs[t].fate = "unbuilt"
  /\ forgotten \subseteq 1 .. txCount
  /\ \A c \in Checks : SubmissionStands(c)

LEMMA YieldInitInv == Protocols # {} /\ YieldInit => YieldInv
  <1> SUFFICES ASSUME Protocols # {}, YieldInit PROVE YieldInv
    OBVIOUS
  <1>1. 0 \in 0 .. MaxTxs /\ 0 \in 0 .. MaxRestarts
    BY YieldAssumption
  <1>2. Unbuilt \in [to : Protocols, fate : Fates] /\ Unbuilt.fate = "unbuilt"
    BY DEF Unbuilt, Fates
  <1>3. txs = [t \in Hashes |-> Unbuilt] /\ txs \in [Hashes -> [to : Protocols, fate : Fates]]
    BY <1>2 DEF YieldInit
  <1>4. target \in [Checks -> Protocols]
    BY <1>2 DEF YieldInit
  <1>5. YieldTypeOK
    BY <1>1, <1>3, <1>4 DEF YieldInit, YieldTypeOK, Fates
  <1>6. \A t \in Hashes : txs[t].fate = "unbuilt"
    BY <1>2, <1>3
  <1>7. \A c \in Checks : SubmissionStands(c)
    BY DEF YieldInit, SubmissionStands
  <1> QED
    BY <1>5, <1>6, <1>7 DEF YieldInit, YieldInv, TriggeredHasLanded

LEMMA YieldTypes ==
  ASSUME YieldInv
  PROVE  /\ txs \in [Hashes -> [to : Protocols, fate : Fates]]
         /\ check \in [Checks -> {"idle", "reading", "submitting", "reconciling"}]
         /\ submission \in [Checks -> {"none", "resolving", "building", "sending", "polling"}]
         /\ txHash \in [Checks -> 0 .. MaxTxs] /\ pendingHash \in 0 .. MaxTxs
         /\ txCount \in 0 .. MaxTxs /\ MaxTxs \in Nat /\ Hashes = 1 .. MaxTxs
         /\ target \in [Checks -> Protocols] /\ reports \subseteq Protocols \X Hashes
         /\ deployed \in Protocols /\ yieldRestarts \in 0 .. MaxRestarts
  BY YieldAssumption DEF YieldInv, YieldTypeOK, Fates, Hashes

\* A step that leaves the transactions alone may forget the hash of one that has settled.
LEMMA NothingSigned ==
  ASSUME YieldInv, UNCHANGED <<deployed, txHash, txs, txCount>>,
         check' \in [Checks -> {"idle", "reading", "submitting", "reconciling"}],
         submission' \in [Checks -> {"none", "resolving", "building", "sending", "polling"}],
         target' \in [Checks -> Protocols], pendingHash' \in 0 .. MaxTxs,
         UNCHANGED forgotten, UNCHANGED yieldRestarts,
         \/ pendingHash' = pendingHash
         \/ pendingHash' = 0 /\ (pendingHash # 0 => txs[pendingHash].fate \notin {"signed", "air"}),
         \A r \in reports' : r \in reports \/ (r \in Protocols \X Hashes /\ txs[r[2]].fate = "success"),
         \A c \in Checks : \/ submission'[c] = submission[c] 
                           \/ submission'[c] = "building" /\ pendingHash' = 0
                           \/ submission'[c] \in {"none", "resolving"}
  PROVE  YieldInv'
  <1>1. YieldTypeOK'
    <2>1. reports' \subseteq Protocols \X Hashes
      BY YieldTypes
    <2> QED
      BY <2>1 DEF YieldInv, YieldTypeOK
  <1>2. TriggeredHasLanded'
    BY DEF YieldInv, TriggeredHasLanded
  <1>3. \A t \in Hashes : txs'[t].fate \in {"signed", "air"} /\ t \notin forgotten' => t = pendingHash'
    BY YieldTypes DEF YieldInv
  <1>4. ASSUME NEW c \in Checks PROVE SubmissionStands(c)'
    <2>1. SubmissionStands(c)
      BY DEF YieldInv
    <2>2. txHash[c] \in 1 .. txCount => txHash[c] # 0 
      BY YieldTypes
    <2> QED
      BY <2>1, <2>2, YieldTypes DEF SubmissionStands
  <1> QED
    BY <1>1, <1>2, <1>3, <1>4 DEF YieldInv

\* A transaction changes its fate, which nothing had recorded yet.
LEMMA FateChanges ==
  ASSUME YieldInv, NEW t \in Hashes, NEW fate \in Fates \ {"signed", "unbuilt"},
         txs[t].fate \in {"signed", "air"},
         fate = "air" => txs[t].fate = "signed",
         txs' = [txs EXCEPT ![t].fate = fate],
         UNCHANGED <<txHash, txCount, target, forgotten, yieldRestarts>>,
         deployed' \in Protocols,
         check' \in [Checks -> {"idle", "reading", "submitting", "reconciling"}],
         submission' \in [Checks -> {"none", "resolving", "building", "sending", "polling"}],
         \/ pendingHash' = pendingHash
         \/ pendingHash' = 0 /\ pendingHash = t /\ fate # "air",
         reports' = reports,
         \A c \in Checks :
           \/ submission'[c] = "none"
           \/ submission'[c] = submission[c] /\ (submission[c] = "sending" => txHash[c] # t)
           \/ submission'[c] = "polling" /\ txHash[c] = t /\ t \in 1 .. txCount /\ pendingHash' = t
  PROVE  YieldInv'
  <1>1. txs' \in [Hashes -> [to : Protocols, fate : Fates]]
        /\ \A u \in Hashes : txs'[u].fate = IF u = t THEN fate ELSE txs[u].fate
    <2>1. txs \in [Hashes -> [to : Protocols, fate : Fates]]
      BY YieldTypes
    <2> QED
      BY <2>1
  <1>2. pendingHash' \in 0 .. MaxTxs
    BY YieldTypes
  <1>3. YieldTypeOK'
    BY <1>1, <1>2 DEF YieldInv, YieldTypeOK, Fates
  <1>4. TriggeredHasLanded'
    <2>1. \A r \in reports : r[2] \in Hashes
      BY YieldTypes
    <2> QED
      BY <1>1, <2>1 DEF YieldInv, TriggeredHasLanded
  <1>5. \A u \in Hashes : txs'[u].fate \in {"signed", "air"} /\ u \notin forgotten' => u = pendingHash'
    BY <1>1, YieldTypes DEF YieldInv
  <1>6. \A u \in Hashes : u > txCount' => txs'[u].fate = "unbuilt"
    BY <1>1 DEF YieldInv
  <1>7. ASSUME NEW c \in Checks PROVE SubmissionStands(c)'
    <2>1. SubmissionStands(c) /\ txCount \in 0 .. MaxTxs
      BY YieldTypes DEF YieldInv
    <2>2. txHash[c] \in 1 .. txCount => txHash[c] \in Hashes /\ txHash[c] # 0
      BY YieldTypes
    <2>3. CASE submission'[c] = "none"
      BY <2>3 DEF SubmissionStands
    <2>4. CASE submission'[c] = submission[c] /\ (submission[c] = "sending" => txHash[c] # t)
      BY <1>1, <2>1, <2>2, <2>4 DEF SubmissionStands
    <2>5. CASE submission'[c] = "polling" /\ txHash[c] = t /\ t \in 1 .. txCount /\ pendingHash' = t
      BY <2>5 DEF SubmissionStands
    <2> QED
      BY <2>3, <2>4, <2>5
  <1> QED
    BY <1>3, <1>4, <1>5, <1>6, <1>7 DEF YieldInv

LEMMA ThrowsTypes ==
  ASSUME YieldInv, NEW c \in Checks, NEW uncertain \in BOOLEAN, Throws(c, uncertain)
  PROVE  /\ check' \in [Checks -> {"idle", "reading", "submitting", "reconciling"}]
         /\ submission' \in [Checks -> {"none", "resolving", "building", "sending", "polling"}]
         /\ reports' = reports
         /\ \A d \in Checks : submission'[d] = IF d = c THEN "none" ELSE submission[d]
  BY YieldTypes DEF Throws, Ends

LEMMA ReturnsTypes ==
  ASSUME YieldInv, NEW c \in Checks, NEW hash, Returns(c, hash)
  PROVE  /\ check' \in [Checks -> {"idle", "reading", "submitting", "reconciling"}]
         /\ submission' \in [Checks -> {"none", "resolving", "building", "sending", "polling"}]
         /\ \A r \in reports' : r \in reports \/ r = <<target[c], hash>>
         /\ \A d \in Checks : submission'[d] = IF d = c THEN "none" ELSE submission[d]
  BY YieldTypes DEF Returns, Ends, Stored

LEMMA BuildInv ==
  ASSUME YieldInv, NEW c \in Checks, Build(c), \A d \in Checks : d = c
  PROVE  YieldInv'
  <1>1. PICK n : n = txCount + 1
    OBVIOUS
  <1>2. /\ n \in Hashes /\ n \in 1 .. n /\ txCount' = n /\ n \in 0 .. MaxTxs /\ n # 0
        /\ n > txCount
    BY <1>1, YieldTypes DEF Build
  <1>3. PICK z : z = [to |-> target[c], fate |-> "signed"]
    OBVIOUS
  <1>4. z \in [to : Protocols, fate : Fates]
    BY <1>3, YieldTypes DEF Fates
  <1>5. /\ txs' = [txs EXCEPT ![n] = z] /\ pendingHash' = n /\ pendingHash = 0
        /\ txHash' = [txHash EXCEPT ![c] = n]
        /\ submission' = [submission EXCEPT ![c] = "sending"]
        /\ check' = check /\ deployed' = deployed /\ target' = target
        /\ reports' = reports /\ forgotten' = forgotten /\ yieldRestarts' = yieldRestarts
    BY <1>1, <1>3 DEF Build, YieldInv, SubmissionStands
  <1>6. /\ txs' \in [Hashes -> [to : Protocols, fate : Fates]]
        /\ \A u \in Hashes : txs'[u] = IF u = n THEN z ELSE txs[u]
        /\ txHash' \in [Checks -> 0 .. MaxTxs] /\ txHash'[c] = n
        /\ submission' \in [Checks -> {"none", "resolving", "building", "sending", "polling"}]
        /\ submission'[c] = "sending"
    BY <1>2, <1>4, <1>5, YieldTypes
  <1>7. YieldTypeOK'
    BY <1>2, <1>5, <1>6 DEF YieldInv, YieldTypeOK, Fates
  <1>8. TriggeredHasLanded'
    <2>1. \A r \in reports : r[2] \in Hashes /\ r[2] # n
      <3>1. txs[n].fate = "unbuilt"
        BY <1>2 DEF YieldInv
      <3> QED
        BY <3>1, YieldTypes DEF YieldInv, TriggeredHasLanded
    <2> QED
      BY <1>5, <1>6, <2>1 DEF YieldInv, TriggeredHasLanded
  <1>9. \A t \in Hashes : txs'[t].fate \in {"signed", "air"} /\ t \notin forgotten' => t = pendingHash'
    <2>1. ASSUME NEW t \in Hashes, t # n, txs'[t].fate \in {"signed", "air"}, t \notin forgotten
          PROVE  FALSE
      <3>1. t = pendingHash
        BY <1>6, <2>1 DEF YieldInv
      <3> QED
        BY <1>5, <3>1, YieldTypes
    <2> QED
      BY <1>5, <2>1
  <1>10. \A t \in Hashes : t > txCount' => txs'[t].fate = "unbuilt"
    BY <1>1, <1>2, <1>6, YieldTypes DEF YieldInv
  <1>11. forgotten' \subseteq 1 .. txCount'
    BY <1>1, <1>2, <1>5, YieldTypes DEF YieldInv
  <1>12. \A d \in Checks : SubmissionStands(d)'
    BY <1>2, <1>3, <1>5, <1>6 DEF SubmissionStands
  <1> QED
    BY <1>7, <1>8, <1>9, <1>10, <1>11, <1>12 DEF YieldInv

LEMMA YieldStepInv ==
  ASSUME YieldInv, [YieldNext]_yieldVars, \A c, d \in Checks : c = d
  PROVE  YieldInv'
  <1>1. CASE UNCHANGED yieldVars
    BY <1>1 DEF yieldVars, YieldInv, YieldTypeOK, TriggeredHasLanded, SubmissionStands, Hashes
  <1>2. CASE RestartJob
    <2>1. yieldRestarts' \in 0 .. MaxRestarts /\ 0 \in 0 .. MaxTxs
      BY <1>2, YieldAssumption, YieldTypes DEF RestartJob
    <2>2. YieldTypeOK'
      <3>1. forgotten' \subseteq Hashes
        BY <1>2, YieldTypes DEF RestartJob
      <3> QED
        BY <1>2, <2>1, <3>1 DEF RestartJob, vault, YieldInv, YieldTypeOK
    <2>3. \A t \in Hashes : txs'[t].fate \in {"signed", "air"} /\ t \notin forgotten' => t = pendingHash'
      <3>1. \A t \in Hashes : t \notin 1 .. txCount => txs[t].fate = "unbuilt"
        BY YieldTypes DEF YieldInv
      <3> QED
        BY <1>2, <3>1 DEF RestartJob, vault
    <2>4. \A c \in Checks : SubmissionStands(c)'
      BY <1>2 DEF RestartJob, SubmissionStands
    <2> QED
      BY <1>2, <2>2, <2>3, <2>4 DEF RestartJob, vault, YieldInv, TriggeredHasLanded
  <1>3. ASSUME NEW t \in Hashes, NEW fate \in {"success", "failed", "dropped"}, Settles(t, fate)
        PROVE  YieldInv'
    <2>1. \A c \in Checks : submission[c] = "sending" => txHash[c] # t
      BY <1>3 DEF Settles, YieldInv, SubmissionStands
    <2>2. deployed' \in Protocols
      BY <1>3, YieldTypes DEF Settles
    <2> QED
      BY <1>3, <2>1, <2>2, FateChanges, YieldTypes DEF Settles, Fates
  <1>4. ASSUME NEW c \in Checks,
               \/ RunOnce(c) \/ SkipRebalance(c) \/ LimitPasses(c)
        PROVE  YieldInv'
    BY <1>4, NothingSigned, YieldTypes DEF RunOnce, SkipRebalance, LimitPasses, world
  <1>5. ASSUME NEW c \in Checks, NEW p \in Protocols, DecideRebalance(c, p)
        PROVE  YieldInv'
    <2>1. \A d \in Checks : submission'[d] = IF d = c THEN "resolving" ELSE submission[d]
      BY <1>5, YieldTypes DEF DecideRebalance
    <2> QED
      BY <1>5, <2>1, NothingSigned, YieldTypes DEF DecideRebalance, world
  <1>6. ASSUME NEW c \in Checks, Resolves(c) PROVE YieldInv'
    <2>1. \A d \in Checks : submission'[d] = IF d = c THEN "building" ELSE submission[d]
      BY <1>6, YieldTypes DEF Resolves
    <2>2. /\ pendingHash # 0 => txs[pendingHash].fate \notin {"signed", "air"}
          /\ 0 \in 0 .. MaxTxs
      BY <1>6, YieldTypes DEF Resolves, MayBuild, Pending
    <2> QED
      BY <1>6, <2>1, <2>2, NothingSigned, YieldTypes DEF Resolves, world
  <1>7. ASSUME NEW c \in Checks, PriorSucceeded(c) PROVE YieldInv'
    <2>1. pendingHash \in Hashes /\ txs[pendingHash].fate = "success" /\ 0 \in 0 .. MaxTxs
      BY <1>7, YieldTypes DEF PriorSucceeded, Pending
    <2>2. Returns(c, pendingHash) /\ pendingHash' = 0 /\ UNCHANGED target /\ UNCHANGED world
      BY <1>7 DEF PriorSucceeded
    <2>3. \A r \in reports' : r \in reports \/ (r \in Protocols \X Hashes /\ txs[r[2]].fate = "success")
      BY <2>1, <2>2, ReturnsTypes, YieldTypes
    <2> QED
      BY <2>1, <2>2, <2>3, ReturnsTypes, NothingSigned, YieldTypes DEF world
  <1>8. ASSUME NEW c \in Checks, PriorUncertain(c) \/ BuildFails(c) \/ PollsRunOut(c) PROVE YieldInv'
    <2>1. PICK u \in BOOLEAN : Throws(c, u)
      BY <1>8 DEF PriorUncertain, BuildFails, PollsRunOut
    <2>2. pendingHash' = pendingHash /\ target' = target /\ UNCHANGED world
      BY <1>8 DEF PriorUncertain, BuildFails, PollsRunOut
    <2> QED
      BY <2>1, <2>2, ThrowsTypes, NothingSigned, YieldTypes DEF world
  <1>9. ASSUME NEW c \in Checks, Build(c) PROVE YieldInv'
    BY <1>9, BuildInv
  <1>10. ASSUME NEW c \in Checks, SendAccepted(c) \/ SendRejected(c) \/ SendLost(c) PROVE YieldInv'
    <2> DEFINE n == txHash[c]
    <2>1. submission[c] = "sending"
      BY <1>10 DEF SendAccepted, SendRejected, SendLost, Sends
    <2>2. n \in Hashes
      BY <2>1, YieldTypes DEF YieldInv, SubmissionStands
    <2>3. PICK t \in Hashes : t = n
      BY <2>2
    <2>4. /\ txs[t].fate = "signed" /\ t = pendingHash /\ t \in 1 .. txCount
          /\ submission[c] = "sending"
      BY <1>10, <2>3 DEF SendAccepted, SendRejected, SendLost, Sends, YieldInv, SubmissionStands
    <2>5. \A d \in Checks : d = c
      OBVIOUS
    <2>6. CASE SendAccepted(c)
      <3>1. /\ txs' = [txs EXCEPT ![t].fate = "air"] /\ pendingHash' = t
            /\ submission' = [submission EXCEPT ![c] = "polling"]
            /\ UNCHANGED <<deployed, txCount, target, txHash, forgotten, yieldRestarts, check, reports>>
        BY <2>3, <2>6 DEF SendAccepted, Sends
      <3> QED
        BY <2>3, <2>4, <2>5, <3>1, FateChanges, YieldTypes DEF Fates
    <2>7. CASE SendRejected(c)
      <3>1. /\ txs' = [txs EXCEPT ![t].fate = "failed"] /\ pendingHash' = 0 /\ Throws(c, FALSE)
            /\ UNCHANGED <<deployed, txCount, target, txHash, forgotten, yieldRestarts>>
        BY <2>3, <2>7 DEF SendRejected, Sends
      <3>2. /\ check' \in [Checks -> {"idle", "reading", "submitting", "reconciling"}]
            /\ submission' \in [Checks -> {"none", "resolving", "building", "sending", "polling"}]
            /\ reports' = reports /\ \A d \in Checks : submission'[d] = "none"
        BY <2>5, <3>1, ThrowsTypes
      <3> QED
        BY <2>3, <2>4, <3>1, <3>2, FateChanges, YieldTypes DEF Fates
    <2>8. CASE SendLost(c)
      <3>1. PICK fate \in {"air", "dropped"} : Sends(c, fate)
        BY <2>8 DEF SendLost
      <3>2. /\ txs' = [txs EXCEPT ![t].fate = fate] /\ pendingHash' = pendingHash /\ Throws(c, TRUE)
            /\ UNCHANGED <<deployed, txCount, target, txHash, forgotten, yieldRestarts>>
        BY <2>3, <2>8, <3>1 DEF SendLost, Sends, AfterLostSend
      <3>3. /\ check' \in [Checks -> {"idle", "reading", "submitting", "reconciling"}]
            /\ submission' \in [Checks -> {"none", "resolving", "building", "sending", "polling"}]
            /\ reports' = reports /\ \A d \in Checks : submission'[d] = "none"
        BY <2>5, <3>2, ThrowsTypes
      <3> QED
        BY <2>3, <2>4, <3>2, <3>3, FateChanges, YieldTypes DEF Fates
    <2> QED
      BY <1>10, <2>6, <2>7, <2>8
  <1>11. ASSUME NEW c \in Checks, PollSucceeds(c) \/ PollFails(c) PROVE YieldInv'
    <2>1. /\ submission[c] = "polling" /\ txs[txHash[c]].fate \in {"success", "failed"}
          /\ pendingHash' = 0 /\ target' = target /\ UNCHANGED world
      BY <1>11 DEF PollSucceeds, PollFails
    <2>2. txHash[c] \in 1 .. txCount /\ pendingHash \in {0, txHash[c]}
      BY <2>1 DEF YieldInv, SubmissionStands
    <2>3. /\ txHash[c] \in Hashes /\ pendingHash \in {0, txHash[c]} /\ 0 \in 0 .. MaxTxs
          /\ txs[txHash[c]].fate \in {"success", "failed"}
          /\ pendingHash' = 0 /\ target' = target /\ UNCHANGED world
      BY <2>1, <2>2, YieldTypes
    <2>4. CASE PollSucceeds(c)
      <3>1. Returns(c, txHash[c]) /\ txs[txHash[c]].fate = "success"
        BY <2>4 DEF PollSucceeds
      <3>2. \A r \in reports' : r \in reports \/ (r \in Protocols \X Hashes /\ txs[r[2]].fate = "success")
        BY <2>3, <3>1, ReturnsTypes, YieldTypes
      <3> QED
        BY <2>3, <3>1, <3>2, ReturnsTypes, NothingSigned, YieldTypes DEF world
    <2>5. CASE PollFails(c)
      <3>1. Throws(c, FALSE)
        BY <2>5 DEF PollFails
      <3> QED
        BY <2>3, <3>1, ThrowsTypes, NothingSigned, YieldTypes DEF world
    <2> QED
      BY <1>11, <2>4, <2>5
  <1>12. ASSUME NEW c \in Checks, ReconcileRebalance(c) PROVE YieldInv'
    <2>1. /\ check' \in [Checks -> {"idle", "reading", "submitting", "reconciling"}]
          /\ target' = target /\ submission' = submission /\ UNCHANGED world
          /\ 0 \in 0 .. MaxTxs
      BY <1>12, YieldTypes DEF ReconcileRebalance
    <2>2. \/ pendingHash' = pendingHash
          \/ pendingHash' = 0 /\ (pendingHash # 0 => txs[pendingHash].fate \notin {"signed", "air"})
      BY <1>12 DEF ReconcileRebalance, Confirmed, MayBuild, Pending
    <2>3. \A r \in reports' : r \in reports \/ (r \in Protocols \X Hashes /\ txs[r[2]].fate = "success")
      <3>1. CASE Confirmed
        <4>1. pendingHash \in Hashes /\ txs[pendingHash].fate = "success"
          BY <3>1, YieldTypes DEF Confirmed, Pending
        <4> QED
          BY <1>12, <3>1, <4>1, YieldTypes DEF ReconcileRebalance, Stored
      <3>2. CASE ~Confirmed
        BY <1>12, <3>2 DEF ReconcileRebalance
      <3> QED
        BY <3>1, <3>2
    <2> QED
      BY <2>1, <2>2, <2>3, NothingSigned, YieldTypes DEF world
  <1> QED
    BY <1>1, <1>2, <1>3, <1>4, <1>5, <1>6, <1>7, <1>8, <1>9, <1>10, <1>11, <1>12 DEF YieldNext

LEMMA OneIsInTheAir == YieldInv => OneInTheAir
  <1> SUFFICES ASSUME YieldInv PROVE OneInTheAir
    OBVIOUS
  <1>1. InTheAir \ forgotten \subseteq {pendingHash}
    BY DEF YieldInv, InTheAir
  <1>2. IsFiniteSet({pendingHash}) /\ Cardinality({pendingHash}) = 1
    BY FS_Singleton
  <1>3. Cardinality(InTheAir \ forgotten) <= Cardinality({pendingHash})
    BY <1>1, <1>2, FS_Subset
  <1> QED
    BY <1>2, <1>3 DEF OneInTheAir

-----------------------------------------------------------------------------
(***************************************************************************)
(* The mix of strategies (strategyAggregator.ts).                           *)
(***************************************************************************)

LEMMA Quotient ==
  ASSUME NEW x \in Nat, NEW y \in Nat, y > 0
  PROVE  x \div y \in Nat /\ y * (x \div y) <= x /\ x < y * (x \div y) + y
  OBVIOUS

LEMMA Cancelled ==
  ASSUME NEW n \in Nat, n > 0, NEW u \in Int, NEW v \in Int, n * u <= n * v
  PROVE  u <= v
  <1> SUFFICES ASSUME u >= v + 1 PROVE FALSE
    OBVIOUS
  <1>1. n * u >= n * (v + 1)
    OBVIOUS
  <1>2. n * (v + 1) = n * v + n
    OBVIOUS
  <1> QED
    BY <1>1, <1>2

\* Two shares of a whole of 10000 n, each rounded by itself, differ from it by
\* one at most, and never fall short.
LEMMA RoundedShares ==
  ASSUME NEW n \in Nat, n > 0, NEW a \in Nat, NEW b \in Nat, a + b = 10000 * n
  PROVE  Rounded(a, n) + Rounded(b, n) \in {10000, 10001}
  <1> DEFINE p == Rounded(a, n)
             q == Rounded(b, n)
             m == 2 * n
  <1>1. /\ p \in Nat /\ m * p <= 2 * a + n /\ 2 * a + n < m * p + m
        /\ q \in Nat /\ m * q <= 2 * b + n /\ 2 * b + n < m * q + m
        /\ m \in Nat /\ m > 0
    BY Quotient DEF Rounded
  <1> HIDE DEF p, q, m
  <1>2. m = 2 * n
    BY DEF m
  <1>3. 2 * a + n + (2 * b + n) = m * 10001
    BY <1>2
  <1>4. m * (p + q) = m * p + m * q
    BY <1>1
  <1>5. m * (p + q) <= m * 10001
    BY <1>1, <1>3, <1>4
  <1>6. p + q <= 10001
    BY <1>1, <1>5, Cancelled
  <1>7. 10000 <= p + q
    <2> SUFFICES ASSUME p + q + 1 <= 10000 PROVE FALSE
      BY <1>1
    <2>1. m * (p + q + 2) > m * 10001
      BY <1>1, <1>3, <1>4
    <2>2. m * (p + q + 2) <= m * 10001
      BY <1>1
    <2> QED
      BY <1>1, <2>1, <2>2
  <1> QED
    BY <1>1, <1>6, <1>7 DEF p, q

LEMMA AggregateIsWhole ==
  ASSUME NEW cs \in [Strategies -> Nat]
  PROVE  Aggregate(cs).blend + Aggregate(cs).dex \in {10000, 10001}
  <1>1. PICK c, b, g \in Nat : c = cs["conservative"] /\ b = cs["balanced"] /\ g = cs["growth"]
    BY DEF Strategies
  <1>2. /\ Total(cs) = c + b + g
        /\ Weighted(cs, BlendWeight) = c * 10000 + b * 6000 + g * 2000
        /\ Weighted(cs, DexWeight) = c * 0 + b * 4000 + g * 8000
    BY <1>1 DEF Total, Weighted, BlendWeight, DexWeight
  <1>3. CASE Total(cs) = 0
    BY <1>3 DEF Aggregate, BlendWeight, DexWeight
  <1>4. CASE Total(cs) # 0
    <2>1. PICK n, s, t \in Nat : /\ n = c + b + g /\ s = c * 10000 + b * 6000 + g * 2000
                                 /\ t = c * 0 + b * 4000 + g * 8000
      BY <1>1
    <2>2. s + t = 10000 * n /\ n > 0
      BY <1>2, <1>4, <2>1
    <2>3. Rounded(s, n) + Rounded(t, n) \in {10000, 10001}
      BY <2>2, RoundedShares
    <2>4. Aggregate(cs) = [blend |-> Rounded(s, n), dex |-> Rounded(t, n)]
      BY <1>2, <1>4, <2>1 DEF Aggregate
    <2> QED
      BY <2>3, <2>4
  <1> QED
    BY <1>3, <1>4

LEMMA MixIsAlwaysWhole ==
  ASSUME MixTypeOK
  PROVE  MixIsWhole
  BY AggregateIsWhole DEF MixTypeOK, MixIsWhole

LEMMA MixInitType == MixInit => MixTypeOK
  BY DEF MixInit, MixTypeOK, NoCounts

LEMMA MixStepType ==
  ASSUME MixTypeOK, [MixNext]_mixVars
  PROVE  MixTypeOK'
  <1>1. CASE UNCHANGED mixVars
    BY <1>1 DEF mixVars, MixTypeOK
  <1>2. CASE SetLatestDistribution
    BY <1>2 DEF SetLatestDistribution, MixTypeOK, NoCounts
  <1>4. CASE CycleFails
    BY <1>4 DEF CycleFails, MixTypeOK
  <1>3. CASE CountBatch
    <2>1. BatchSize \in Int
      <3>1. depositors \in Nat /\ depositorBatch \in Nat
        BY MixAssumption DEF MixTypeOK
      <3>2. Total(counts) \in Nat
        BY DEF MixTypeOK, Total, Strategies
      <3> QED
        BY <3>1, <3>2 DEF BatchSize, Left
    <2>2. PICK size \in Int : size = BatchSize
      BY <2>1
    <2>3. PICK conservative, growth \in 0 .. size :
            /\ conservative + growth <= size
            /\ counts' = [conservative |-> counts["conservative"] + conservative,
                          growth       |-> counts["growth"] + growth,
                          balanced     |-> counts["balanced"] + size - (conservative + growth)]
      BY <1>3, <2>2 DEF CountBatch
    <2>4. PICK c, b, g \in Nat : c = counts["conservative"] /\ b = counts["balanced"] /\ g = counts["growth"]
      BY DEF MixTypeOK, Strategies
    <2>5. /\ c + conservative \in Nat /\ g + growth \in Nat
          /\ b + size - (conservative + growth) \in Nat
      BY <2>3
    <2>6. counts' \in [Strategies -> Nat]
      BY <2>3, <2>4, <2>5 DEF Strategies
    <2> QED
      BY <1>3, <2>6 DEF CountBatch, MixTypeOK
  <1> QED
    BY <1>1, <1>2, <1>3, <1>4 DEF MixNext

-----------------------------------------------------------------------------
(***************************************************************************)
(* The APY samples (blendApyFetcher.ts).  A rate that a call has got was    *)
(* the pool's at a moment since its request went out.                       *)
(***************************************************************************)

ReaderSteps == {"idle", "reading", "fetching", "answered", "storing", "fallback", "threw"}

\* The pool had the rate of sample s between its request and moment n.
OfThePool(s, n) == \E t \in s.asked .. n : rates[t] = s.rate

\* A sample that may be returned.
Genuine(s) == s \in Samples /\ s.observedAt <= Now /\ OfThePool(s, s.observedAt)

\* What a call at a step may have found.
FindingStands(step, f) ==
  /\ step \in {"fetching", "answered"} => f \in Samples /\ f.asked <= Now
  /\ step = "answered" => OfThePool(f, Now)
  /\ step = "storing" => Genuine(f)

ApyInv ==
  /\ rates \in Seq(Rates) /\ Now \in 1 .. MaxTicks
  /\ reader \in [Readers -> ReaderSteps] /\ finding \in [Readers -> {<<>>} \cup Samples]
  /\ \A r \in Readers : FindingStands(reader[r], finding[r])
  /\ \A s \in served : Genuine(s)
  /\ sample = <<>> \/ Genuine(sample)
  /\ life \in 0 .. SampleLife /\ everStored \in BOOLEAN /\ begun \in 0 .. MaxSamples

LEMMA ApyInitInv == ApyInit => ApyInv
  <1> SUFFICES ASSUME ApyInit PROVE ApyInv
    OBVIOUS
  <1>1. PICK rate \in Rates : rates = <<rate>>
    BY DEF ApyInit
  <1>2. rates \in Seq(Rates) /\ Len(rates) = 1
    BY <1>1
  <1>3. Now \in 1 .. MaxTicks /\ 0 \in 0 .. SampleLife /\ 0 \in 0 .. MaxSamples
    BY <1>2, ApyAssumption DEF Now
  <1>4. \A r \in Readers : FindingStands(reader[r], finding[r])
    BY DEF ApyInit, FindingStands
  <1> QED
    BY <1>2, <1>3, <1>4 DEF ApyInit, ApyInv, ReaderSteps

\* A call moves on.
LEMMA ReaderMoves ==
  ASSUME ApyInv, NEW r \in Readers, NEW to \in ReaderSteps, NEW f \in {<<>>} \cup Samples,
         reader' = [reader EXCEPT ![r] = to], finding' = [finding EXCEPT ![r] = f],
         FindingStands(to, f), rates' = rates,
         \A s \in served' : s \in served \/ Genuine(s),
         sample' = <<>> \/ sample' = sample \/ Genuine(sample'),
         life' \in 0 .. SampleLife, everStored' \in BOOLEAN, begun' \in 0 .. MaxSamples
  PROVE  ApyInv'
  <1>1. /\ reader' \in [Readers -> ReaderSteps] /\ finding' \in [Readers -> {<<>>} \cup Samples]
        /\ \A q \in Readers : /\ reader'[q] = IF q = r THEN to ELSE reader[q]
                              /\ finding'[q] = IF q = r THEN f ELSE finding[q]
    BY DEF ApyInv
  <1>2. Now' = Now
    BY DEF Now
  <1>3. \A s : Genuine(s) => Genuine(s)'
    BY <1>2 DEF Genuine, OfThePool
  <1>4. \A step, g : FindingStands(step, g) => FindingStands(step, g)'
    BY <1>2, <1>3 DEF FindingStands, OfThePool
  <1>5. \A q \in Readers : FindingStands(reader'[q], finding'[q])
    BY <1>1 DEF ApyInv
  <1>6. PICK kept : kept = sample'
    OBVIOUS
  <1>7. kept = <<>> \/ Genuine(kept)
    BY <1>6 DEF ApyInv
  <1>8. (sample = <<>> \/ Genuine(sample))'
    BY <1>3, <1>6, <1>7
  <1>9. \A s \in served' : Genuine(s)'
    BY <1>3 DEF ApyInv
  <1>10. (\A q \in Readers : FindingStands(reader[q], finding[q]))'
    <2> SUFFICES ASSUME NEW q \in Readers PROVE FindingStands(reader[q], finding[q])'
      OBVIOUS
    <2>1. PICK step, g : step = reader'[q] /\ g = finding'[q]
      OBVIOUS
    <2>2. FindingStands(step, g)'
      BY <1>4, <1>5, <2>1
    <2> QED
      BY <2>1, <2>2
  <1> QED
    BY <1>1, <1>2, <1>8, <1>9, <1>10 DEF ApyInv

\* The pool's rate moves.
LEMMA ApyTickInv ==
  ASSUME ApyInv, ApyTick
  PROVE  ApyInv'
  <1>1. PICK rate \in Rates : rates' = Append(rates, rate)
    BY DEF ApyTick
  <1>2. /\ rates' \in Seq(Rates) /\ Now' = Now + 1 /\ Now' \in 1 .. MaxTicks
        /\ \A t \in 1 .. Now : rates'[t] = rates[t]
        /\ Now \in Nat
    BY <1>1, ApyAssumption DEF ApyTick, ApyInv, Now
  <1>3. \A s \in Samples, n \in 1 .. Now : OfThePool(s, n) => OfThePool(s, n)'
    BY <1>2 DEF OfThePool, Samples
  <1>4. ASSUME NEW s, Genuine(s) PROVE Genuine(s)'
    <2>1. s \in Samples /\ s.observedAt \in 1 .. Now /\ OfThePool(s, s.observedAt)
      BY <1>2, <1>4 DEF Genuine, Samples
    <2> QED
      BY <1>2, <1>3, <2>1 DEF Genuine
  <1>5. ASSUME NEW s \in Samples, s.asked <= Now, OfThePool(s, Now) PROVE OfThePool(s, Now)'
    <2>1. PICK t \in s.asked .. Now : rates[t] = s.rate
      BY <1>5 DEF OfThePool
    <2>2. t \in s.asked .. Now + 1 /\ t \in 1 .. Now
      BY <1>2, <2>1 DEF Samples
    <2> QED
      BY <1>2, <2>1, <2>2 DEF OfThePool
  <1>6. ASSUME NEW r \in Readers PROVE FindingStands(reader[r], finding[r])'
    <2>1. reader' = reader /\ finding' = finding /\ FindingStands(reader[r], finding[r])
      BY DEF ApyTick, ApyInv
    <2>2. PICK step, f : step = reader[r] /\ f = finding[r]
      OBVIOUS
    <2>3. step \in {"fetching", "answered"} => f \in Samples /\ f.asked <= Now'
      BY <1>2, <2>1, <2>2 DEF FindingStands, Samples
    <2>4. step = "answered" => OfThePool(f, Now)'
      BY <1>5, <2>1, <2>2 DEF FindingStands
    <2>5. step = "storing" => Genuine(f)'
      BY <1>4, <2>1, <2>2 DEF FindingStands
    <2>6. FindingStands(step, f)'
      BY <2>3, <2>4, <2>5 DEF FindingStands
    <2> QED
      BY <2>1, <2>2, <2>6
  <1>7. (sample = <<>> \/ Genuine(sample))'
    <2>1. sample' = <<>> \/ (sample' = sample /\ Genuine(sample))
      BY DEF ApyTick, ApyInv
    <2>2. PICK kept : kept = sample
      OBVIOUS
    <2>3. Genuine(kept) => Genuine(kept)'
      BY <1>4
    <2> QED
      BY <2>1, <2>2, <2>3
  <1>8. life' \in 0 .. SampleLife
    BY ApyAssumption DEF ApyTick, ApyInv
  <1>9. \A s \in served' : Genuine(s)'
    BY <1>4 DEF ApyTick, ApyInv
  <1> QED
    BY <1>2, <1>6, <1>7, <1>8, <1>9 DEF ApyTick, ApyInv

LEMMA ApyStepInv ==
  ASSUME ApyInv, [ApyNext]_apyVars
  PROVE  ApyInv'
  <1>1. CASE UNCHANGED apyVars
    BY <1>1 DEF apyVars, ApyInv, FindingStands, Genuine, OfThePool, Now
  <1>2. CASE ApyTick
    BY <1>2, ApyTickInv
  <1>3. ASSUME NEW r \in Readers,
               \/ GetBlendApySample(r) \/ CacheMiss(r) \/ PoolReads(r) \/ Stamps(r)
               \/ StoresSample(r) \/ PoolFails(r) \/ SampleThrows(r)
               \/ \E at \in {"reading", "fallback"} : CacheHit(r, at)
        PROVE  ApyInv'
    <2>1. /\ reader[r] \in ReaderSteps /\ finding[r] \in {<<>>} \cup Samples
          /\ FindingStands(reader[r], finding[r])
          /\ Now \in 1 .. MaxTicks /\ MaxTicks \in Nat /\ MaxSamples \in Nat /\ SampleLife \in Nat
          /\ rates \in Seq(Rates) /\ rates[Now] \in Rates /\ begun \in 0 .. MaxSamples
          /\ life \in 0 .. SampleLife /\ everStored \in BOOLEAN
          /\ finding = [finding EXCEPT ![r] = finding[r]]
      BY <1>3, ApyAssumption DEF ApyInv, Now
    <2>2. CASE GetBlendApySample(r)
      <3>1. begun' \in 0 .. MaxSamples
        BY <2>1, <2>2 DEF GetBlendApySample
      <3>2. FindingStands("reading", finding[r])
        BY DEF FindingStands
      <3> QED
        BY <2>1, <2>2, <3>1, <3>2, ReaderMoves DEF GetBlendApySample, cache, ReaderSteps
    <2>3. CASE CacheMiss(r)
      <3>1. PICK rate \in Rates : finding' = [finding EXCEPT ![r] = Found(rate, Now, Now)]
        BY <2>3 DEF CacheMiss
      <3>2. PICK f : f = Found(rate, Now, Now)
        OBVIOUS
      <3>3. f \in Samples /\ f.asked = Now
        BY <2>1, <3>1, <3>2 DEF Found, Samples
      <3>4. FindingStands("fetching", f)
        BY <2>1, <3>3 DEF FindingStands
      <3> QED
        BY <2>1, <2>3, <3>1, <3>2, <3>3, <3>4, ReaderMoves DEF CacheMiss, Steps, cache, ReaderSteps
    <2>4. CASE PoolReads(r)
      <3>1. finding[r] \in Samples /\ finding[r].asked <= Now
        BY <2>1, <2>4 DEF PoolReads, Steps, FindingStands
      <3>2. PICK f : f = [finding[r] EXCEPT !.rate = rates[Now]]
        OBVIOUS
      <3>3. f \in Samples /\ f.asked = finding[r].asked /\ f.rate = rates[Now]
        BY <2>1, <3>1, <3>2 DEF Samples
      <3>4. FindingStands("answered", f)
        <4>1. Now \in f.asked .. Now
          BY <2>1, <3>1, <3>3 DEF Samples
        <4> QED
          BY <3>1, <3>3, <4>1 DEF FindingStands, OfThePool
      <3>5. finding' = [finding EXCEPT ![r] = f]
        BY <2>4, <3>2 DEF PoolReads
      <3> QED
        BY <2>1, <2>4, <3>3, <3>4, <3>5, ReaderMoves DEF PoolReads, Steps, cache, ReaderSteps
    <2>5. CASE Stamps(r)
      <3>1. finding[r] \in Samples /\ OfThePool(finding[r], Now)
        BY <2>1, <2>5 DEF Stamps, Steps, FindingStands
      <3>2. PICK f : f = [finding[r] EXCEPT !.observedAt = Now]
        OBVIOUS
      <3>3. /\ f \in Samples /\ f.asked = finding[r].asked /\ f.rate = finding[r].rate
            /\ f.observedAt = Now
        BY <2>1, <3>1, <3>2 DEF Samples
      <3>4. FindingStands("storing", f)
        BY <2>1, <3>1, <3>3 DEF FindingStands, Genuine, OfThePool
      <3>5. finding' = [finding EXCEPT ![r] = f]
        BY <2>5, <3>2 DEF Stamps, Stamp
      <3> QED
        BY <2>1, <2>5, <3>3, <3>4, <3>5, ReaderMoves DEF Stamps, Steps, cache, ReaderSteps
    <2>6. CASE StoresSample(r)
      <3>1. Genuine(finding[r])
        BY <2>1, <2>6 DEF StoresSample, Steps, FindingStands
      <3>2. \A s \in served' : s \in served \/ Genuine(s)
        BY <2>6, <3>1 DEF StoresSample, Answered
      <3>3. FindingStands("idle", <<>>)
        BY DEF FindingStands
      <3>4. /\ sample' = sample \/ sample' = finding[r]
            /\ life' \in 0 .. SampleLife /\ everStored' \in BOOLEAN
        <4>1. CASE UNCHANGED cache
          BY <2>1, <4>1 DEF cache
        <4>2. CASE sample' = finding[r] /\ life' = SampleLife /\ everStored' = TRUE
          <5>1. SampleLife \in 0 .. SampleLife
            BY <2>1
          <5>2. everStored' \in BOOLEAN
            BY <4>2, Zenon
          <5> QED
            BY <4>2, <5>1, <5>2
        <4> QED
          BY <2>6, <4>1, <4>2 DEF StoresSample
      <3>5. sample' = sample \/ Genuine(sample')
        BY <3>1, <3>4
      <3> QED
        BY <2>1, <2>6, <3>2, <3>3, <3>4, <3>5, ReaderMoves DEF StoresSample, Steps, Answered, ReaderSteps
    <2>7. CASE PoolFails(r)
      <3>1. FindingStands("fallback", <<>>)
        BY DEF FindingStands
      <3> QED
        BY <2>1, <2>7, <3>1, ReaderMoves DEF PoolFails, cache, ReaderSteps
    <2>8. CASE SampleThrows(r)
      <3>1. FindingStands("threw", finding[r])
        BY DEF FindingStands
      <3> QED
        BY <2>1, <2>8, <3>1, ReaderMoves DEF SampleThrows, Steps, cache, ReaderSteps
    <2>9. ASSUME NEW at \in {"reading", "fallback"}, CacheHit(r, at) PROVE ApyInv'
      <3>1. FindingStands("idle", <<>>)
        BY DEF FindingStands
      <3>2. \A s \in served' : s \in served \/ Genuine(s)
        BY <2>9 DEF CacheHit, Answered, ApyInv
      <3> QED
        BY <2>1, <2>9, <3>1, <3>2, ReaderMoves DEF CacheHit, Steps, Answered, cache, ReaderSteps
    <2> QED
      BY <1>3, <2>2, <2>3, <2>4, <2>5, <2>6, <2>7, <2>8, <2>9
  <1> QED
    BY <1>1, <1>2, <1>3 DEF ApyNext

-----------------------------------------------------------------------------
(* The adapters of further venues.                                         *)

VenueWorks == {"none", "out", "executed", "refused"}
VenueVerdicts == VenueErrors \cup {"open", "none"}

\* A call with the question a, whose request stands at w, has moved m and answered e and s.
CallStands(a, w, m, e, s, log) ==
  /\ a \in VenueAsks /\ a.at <= Len(log)
  /\ w \in VenueWorks /\ m \in Nat /\ e \in VenueVerdicts /\ s \in Nat
  /\ w # "executed" => m = 0
  /\ e = "none" => w = "executed" /\ s = m
  /\ e = "refusal" => w = "refused"
  /\ e = "invalid" <=> w = "none" /\ e # "open"
  /\ w = "executed" /\ a.operation = "balance" => \E t \in a.at .. Len(log) : log[t] = m

CallOf(c) == CallStands(venueAsked[c], venueWork[c], venueMoved[c], venueError[c], venueSaid[c],
                        venueLog)

VenueInv ==
  /\ venueLog \in Seq(Nat) /\ Moments >= 1
  /\ DOMAIN venueAsked = VenueCalls /\ DOMAIN venueWork = VenueCalls
  /\ DOMAIN venueMoved = VenueCalls /\ DOMAIN venueError = VenueCalls
  /\ DOMAIN venueSaid = VenueCalls
  /\ venueAsked = [c \in VenueCalls |-> venueAsked[c]]
  /\ venueWork = [c \in VenueCalls |-> venueWork[c]]
  /\ venueMoved = [c \in VenueCalls |-> venueMoved[c]]
  /\ venueError = [c \in VenueCalls |-> venueError[c]]
  /\ venueSaid = [c \in VenueCalls |-> venueSaid[c]]
  /\ \A c \in VenueCalls : CallOf(c)

LEMMA VenueInitInv == VenueInit => VenueInv
  <1> SUFFICES ASSUME VenueInit PROVE VenueInv
    OBVIOUS
  <1>1. PICK held \in VenueAmounts : venueLog = <<held>>
    BY DEF VenueInit
  <1>2. venueLog \in Seq(Nat) /\ Moments = 1
    BY <1>1, VenueAssumption DEF Moments
  <1>3. NotAsked \in VenueAsks /\ NotAsked.at = 1
    BY DEF NotAsked, VenueAsks, VenueOperations
  <1>4. CallStands(NotAsked, "none", 0, "open", 0, venueLog)
    BY <1>2, <1>3 DEF CallStands, VenueWorks, VenueVerdicts, Moments
  <1> QED
    BY <1>2, <1>4 DEF VenueInit, VenueInv, CallOf

\* What is true of a call stays true when the venue's log grows.
LEMMA LogGrows ==
  ASSUME NEW log \in Seq(Nat), NEW n \in Nat, NEW a, NEW w, NEW m, NEW e, NEW s,
         CallStands(a, w, m, e, s, log)
  PROVE  CallStands(a, w, m, e, s, Append(log, n))
  <1>1. /\ Len(Append(log, n)) = Len(log) + 1 /\ Len(log) \in Nat
        /\ \A t \in 1 .. Len(log) : Append(log, n)[t] = log[t]
    OBVIOUS
  <1>2. a \in VenueAsks /\ a.at \in Nat /\ a.at >= 1
    BY DEF CallStands, VenueAsks
  <1>3. ASSUME NEW t \in a.at .. Len(log) PROVE t \in a.at .. Len(log) + 1 /\ t \in 1 .. Len(log)
    BY <1>1, <1>2
  <1> QED
    BY <1>1, <1>2, <1>3 DEF CallStands

\* Only what is known of call c has changed.
OnlyOf(c) ==
  /\ venueAsked' = [venueAsked EXCEPT ![c] = venueAsked'[c]]
  /\ venueWork' = [venueWork EXCEPT ![c] = venueWork'[c]]
  /\ venueMoved' = [venueMoved EXCEPT ![c] = venueMoved'[c]]
  /\ venueError' = [venueError EXCEPT ![c] = venueError'[c]]
  /\ venueSaid' = [venueSaid EXCEPT ![c] = venueSaid'[c]]

\* A step of one call keeps the invariant when it is right for this call.
LEMMA VenueCallMoves ==
  ASSUME VenueInv, NEW c \in VenueCalls, OnlyOf(c), CallOf(c)',
         venueLog' = venueLog \/ \E n \in Nat : venueLog' = Append(venueLog, n)
  PROVE  VenueInv'
  <1>1. venueLog' \in Seq(Nat) /\ Len(venueLog') >= 1
    <2>1. venueLog \in Seq(Nat) /\ Len(venueLog) >= 1
      BY DEF VenueInv, Moments
    <2> QED
      BY <2>1
  <1>2. ASSUME NEW d \in VenueCalls PROVE CallOf(d)'
    <2>1. CASE d # c
      <3>1. /\ venueAsked'[d] = venueAsked[d] /\ venueWork'[d] = venueWork[d]
            /\ venueMoved'[d] = venueMoved[d] /\ venueError'[d] = venueError[d]
            /\ venueSaid'[d] = venueSaid[d]
        BY <2>1 DEF VenueInv, OnlyOf
      <3>2. CallStands(venueAsked[d], venueWork[d], venueMoved[d], venueError[d], venueSaid[d],
                       venueLog')
        BY LogGrows DEF VenueInv, CallOf
      <3> QED
        BY <3>1, <3>2 DEF CallOf
    <2> QED
      BY <2>1
  <1> QED
    BY <1>1, <1>2 DEF VenueInv, OnlyOf, Moments

LEMMA VenueStepInv ==
  ASSUME VenueInv, [VenueNext]_venueVars
  PROVE  VenueInv'
  <1>1. CASE UNCHANGED venueVars
    BY <1>1 DEF venueVars, VenueInv, CallOf, Moments
  <1>2. ASSUME NEW c \in VenueCalls,
               \/ \E op \in VenueOperations, n \in VenueAmounts \cup {0} : CallsVenue(c, op, n)
               \/ VenueExecutes(c) \/ VenueRefuses(c) \/ GatewayReplies(c) \/ AdapterGivesUp(c)
        PROVE  VenueInv'
    <2> DEFINE a == venueAsked[c]  w == venueWork[c]  m == venueMoved[c]
               e == venueError[c]  s == venueSaid[c]
    <2>1. /\ CallStands(a, w, m, e, s, venueLog) /\ venueLog \in Seq(Nat) /\ Len(venueLog) >= 1
      BY DEF VenueInv, CallOf, Moments
    <2>2. ASSUME NEW op \in VenueOperations, NEW n \in VenueAmounts \cup {0}, CallsVenue(c, op, n)
          PROVE  VenueInv'
      <3> DEFINE b == [operation |-> op, amount |-> n, at |-> Len(venueLog)]
      <3>1. b \in VenueAsks /\ b.at = Len(venueLog) /\ Len(venueLog) \in Nat
        BY <2>1, VenueAssumption DEF VenueAsks
      <3>2. w = "none" /\ e = "open" /\ m = 0 /\ s \in Nat
        BY <2>1, <2>2 DEF CallsVenue, CallStands
      <3>3. CallStands(b, "none", m, "invalid", s, venueLog)
        BY <3>1, <3>2 DEF CallStands, VenueWorks, VenueVerdicts, VenueErrors
      <3>4. CallStands(b, "out", m, e, s, venueLog)
        BY <3>1, <3>2 DEF CallStands, VenueWorks, VenueVerdicts
      <3>5. CASE InvalidAmount(op, n)
        <4>1. /\ venueLog' = venueLog /\ venueAsked' = [venueAsked EXCEPT ![c] = b]
              /\ venueWork' = venueWork /\ venueMoved' = venueMoved /\ venueSaid' = venueSaid
              /\ venueError' = [venueError EXCEPT ![c] = "invalid"]
          BY <2>2, <3>5 DEF CallsVenue, AdapterFails, Moments
        <4>2. OnlyOf(c)
          BY <4>1 DEF OnlyOf, VenueInv
        <4>3. CallOf(c)'
          BY <2>1, <4>1, <3>2, <3>3 DEF CallOf, VenueInv
        <4> QED
          BY <4>1, <4>2, <4>3, VenueCallMoves
      <3>6. CASE ~InvalidAmount(op, n)
        <4>1. /\ venueLog' = venueLog /\ venueAsked' = [venueAsked EXCEPT ![c] = b]
              /\ venueWork' = [venueWork EXCEPT ![c] = "out"] /\ venueMoved' = venueMoved
              /\ venueSaid' = venueSaid /\ venueError' = venueError
          BY <2>2, <3>6 DEF CallsVenue, Moments
        <4>2. OnlyOf(c)
          BY <4>1 DEF OnlyOf, VenueInv
        <4>3. CallOf(c)'
          BY <2>1, <4>1, <3>2, <3>4 DEF CallOf, VenueInv
        <4> QED
          BY <4>1, <4>2, <4>3, VenueCallMoves
      <3> QED
        BY <3>5, <3>6
    <2>3. ASSUME NEW held \in Nat, NEW moved \in Nat, w = "out", VenueDoes(c, held, moved),
                 a.operation = "balance" => held = InVenue /\ moved = InVenue
          PROVE  VenueInv'
      <3>1. /\ a \in VenueAsks /\ a.at \in Nat /\ a.at <= Len(venueLog) /\ Len(venueLog) \in Nat
            /\ e \in VenueVerdicts /\ e \notin {"none", "refusal", "invalid"} /\ s \in Nat
        BY <2>1, <2>3 DEF CallStands, VenueAsks
      <3>2. a.operation = "balance" => \E t \in a.at .. Len(venueLog) : venueLog[t] = moved
        BY <2>3, <3>1 DEF InVenue, Moments
      <3>3. CallStands(a, "executed", moved, e, s, venueLog)
        BY <3>1, <3>2 DEF CallStands, VenueWorks
      <3>4. CallStands(a, "executed", moved, e, s, Append(venueLog, held))
        BY <2>1, <3>3, LogGrows
      <3>5. /\ venueLog' = venueLog \/ venueLog' = Append(venueLog, held)
            /\ venueAsked' = venueAsked /\ venueError' = venueError /\ venueSaid' = venueSaid
            /\ venueWork' = [venueWork EXCEPT ![c] = "executed"]
            /\ venueMoved' = [venueMoved EXCEPT ![c] = moved]
        BY <2>3 DEF VenueDoes
      <3>6. CallStands(a, "executed", moved, e, s, venueLog')
        BY <3>3, <3>4, <3>5
      <3>7. OnlyOf(c)
        BY <3>5 DEF OnlyOf, VenueInv
      <3>8. CallOf(c)'
        BY <3>5, <3>6 DEF CallOf, VenueInv
      <3> QED
        BY <3>5, <3>7, <3>8, VenueCallMoves
    <2>4. CASE VenueExecutes(c)
      <3>1. InVenue \in Nat
        BY <2>1 DEF InVenue, Moments
      <3>2. a \in VenueAsks /\ a.amount \in Nat
        BY <2>1 DEF CallStands, VenueAsks
      <3>3. CASE a.operation = "supply" /\ \E n \in 0 .. a.amount : VenueDoes(c, InVenue + n, n)
        <4>1. PICK n \in 0 .. a.amount : VenueDoes(c, InVenue + n, n)
          BY <3>3
        <4>2. InVenue + n \in Nat /\ n \in Nat
          BY <3>1, <3>2
        <4> QED
          BY <2>3, <2>4, <3>3, <4>1, <4>2 DEF VenueExecutes
      <3>4. CASE a.operation = "withdraw" /\ \E n \in 0 .. Wanted(a) : VenueDoes(c, InVenue - n, n)
        <4>1. PICK n \in 0 .. Wanted(a) : VenueDoes(c, InVenue - n, n)
          BY <3>4
        <4>2. InVenue - n \in Nat /\ n \in Nat
          BY <3>1, <3>2 DEF Wanted
        <4> QED
          BY <2>3, <2>4, <3>4, <4>1, <4>2 DEF VenueExecutes
      <3>5. CASE a.operation = "balance" /\ VenueDoes(c, InVenue, InVenue)
        BY <2>3, <2>4, <3>1, <3>5 DEF VenueExecutes
      <3> QED
        BY <2>4, <3>3, <3>4, <3>5 DEF VenueExecutes
    <2>5. CASE VenueRefuses(c)
      <3>1. CallStands(a, "refused", m, e, s, venueLog)
        BY <2>1, <2>5 DEF VenueRefuses, CallStands, VenueWorks
      <3>2. /\ venueLog' = venueLog /\ venueAsked' = venueAsked /\ venueMoved' = venueMoved
            /\ venueError' = venueError /\ venueSaid' = venueSaid
            /\ venueWork' = [venueWork EXCEPT ![c] = "refused"]
        BY <2>5 DEF VenueRefuses
      <3>3. CallStands(a, "refused", m, e, s, venueLog')
        BY <3>1, <3>2
      <3>4. OnlyOf(c)
        BY <3>2 DEF OnlyOf, VenueInv
      <3>5. CallOf(c)'
        BY <3>2, <3>3 DEF CallOf, VenueInv
      <3> QED
        BY <3>2, <3>4, <3>5, VenueCallMoves
    <2>6. CASE GatewayReplies(c)
      <3>1. w \in {"executed", "refused"} /\ e = "open"
        BY <2>6 DEF GatewayReplies
      <3>2. CASE w = "refused" /\ AdapterFails(c, "refusal")
        <4>1. CallStands(a, w, m, "refusal", s, venueLog)
          BY <2>1, <3>1, <3>2 DEF CallStands, VenueVerdicts, VenueErrors
        <4>2. /\ venueLog' = venueLog /\ venueAsked' = venueAsked
              /\ venueWork' = venueWork /\ venueMoved' = venueMoved /\ venueSaid' = venueSaid
              /\ venueError' = [venueError EXCEPT ![c] = "refusal"]
          BY <2>6, <3>2 DEF GatewayReplies, AdapterFails
        <4>3. OnlyOf(c)
          BY <4>2 DEF OnlyOf, VenueInv
        <4>4. CallOf(c)'
          BY <2>1, <4>2, <4>1 DEF CallOf, VenueInv
        <4> QED
          BY <4>2, <4>3, <4>4, VenueCallMoves
      <3>3. CASE AdapterFails(c, "unreadable")
        <4>1. CallStands(a, w, m, "unreadable", s, venueLog)
          BY <2>1, <3>1 DEF CallStands, VenueVerdicts, VenueErrors
        <4>2. /\ venueLog' = venueLog /\ venueAsked' = venueAsked
              /\ venueWork' = venueWork /\ venueMoved' = venueMoved /\ venueSaid' = venueSaid
              /\ venueError' = [venueError EXCEPT ![c] = "unreadable"]
          BY <2>6, <3>3 DEF GatewayReplies, AdapterFails
        <4>3. OnlyOf(c)
          BY <4>2 DEF OnlyOf, VenueInv
        <4>4. CallOf(c)'
          BY <2>1, <4>2, <4>1 DEF CallOf, VenueInv
        <4> QED
          BY <4>2, <4>3, <4>4, VenueCallMoves
      <3>4. CASE w = "executed" /\ venueError' = [venueError EXCEPT ![c] = "none"]
                 /\ venueSaid' = [venueSaid EXCEPT ![c] = m]
        <4>1. CallStands(a, w, m, "none", m, venueLog)
          BY <2>1, <3>1, <3>4 DEF CallStands, VenueVerdicts
        <4>2. /\ venueLog' = venueLog /\ venueAsked' = venueAsked
              /\ venueWork' = venueWork /\ venueMoved' = venueMoved
              /\ venueError' = [venueError EXCEPT ![c] = "none"]
              /\ venueSaid' = [venueSaid EXCEPT ![c] = m]
          BY <2>6, <3>4 DEF GatewayReplies
        <4>3. OnlyOf(c)
          BY <4>2 DEF OnlyOf, VenueInv
        <4>4. CallOf(c)'
          BY <2>1, <4>2, <4>1 DEF CallOf, VenueInv
        <4> QED
          BY <4>2, <4>3, <4>4, VenueCallMoves
      <3> QED
        BY <2>6, <3>1, <3>2, <3>3, <3>4 DEF GatewayReplies
    <2>7. CASE AdapterGivesUp(c)
      <3>1. PICK error \in {"timeout", "transport"} : AdapterFails(c, error)
        BY <2>7 DEF AdapterGivesUp
      <3>2. CallStands(a, w, m, error, s, venueLog)
        BY <2>1, <2>7 DEF AdapterGivesUp, CallStands, VenueVerdicts, VenueErrors
      <3>3. /\ venueLog' = venueLog /\ venueAsked' = venueAsked
            /\ venueWork' = venueWork /\ venueMoved' = venueMoved /\ venueSaid' = venueSaid
            /\ venueError' = [venueError EXCEPT ![c] = error]
        BY <2>7, <3>1 DEF AdapterGivesUp, AdapterFails
      <3>4. OnlyOf(c)
        BY <3>3 DEF OnlyOf, VenueInv
      <3>5. CallOf(c)'
        BY <2>1, <3>3, <3>2 DEF CallOf, VenueInv
      <3> QED
        BY <3>3, <3>4, <3>5, VenueCallMoves
    <2> QED
      BY <1>2, <2>2, <2>4, <2>5, <2>6, <2>7
  <1> QED
    BY <1>1, <1>2 DEF VenueNext

LEMMA VenueTells == VenueInv => VenueTypeOK /\ AnswersStand
  <1> SUFFICES ASSUME VenueInv PROVE VenueTypeOK /\ AnswersStand
    OBVIOUS
  <1>1. ASSUME NEW c \in VenueCalls
        PROVE  /\ venueAsked[c] \in VenueAsks /\ venueAsked[c].at <= Moments
               /\ venueWork[c] \in VenueWorks /\ venueMoved[c] \in Nat /\ venueSaid[c] \in Nat
               /\ venueError[c] \in VenueVerdicts
    BY DEF VenueInv, CallOf, CallStands, Moments
  <1>2. VenueTypeOK
    BY <1>1 DEF VenueTypeOK, VenueInv, VenueWorks, VenueVerdicts
  <1>3. ASSUME NEW c \in VenueCalls, venueError[c] # "open", ~InDoubt(c)
        PROVE  /\ venueWork[c] # "out"
               /\ venueMoved[c] = IF venueError[c] = "none" THEN venueSaid[c] ELSE 0
               /\ venueError[c] = "none" /\ venueAsked[c].operation = "balance" =>
                    \E t \in venueAsked[c].at .. Moments : venueLog[t] = venueSaid[c]
    <2>1. venueError[c] \in {"none", "refusal", "invalid"}
      BY <1>1, <1>3 DEF InDoubt, VenueVerdicts, VenueErrors
    <2>2. CallOf(c)
      BY DEF VenueInv
    <2> QED
      BY <2>1, <2>2 DEF CallOf, CallStands, Moments
  <1> QED
    BY <1>2, <1>3 DEF AnswersStand

(***************************************************************************)
(* What a check decides and records of a rebalance is true, for any number  *)
(* of protocols, transactions, depositors, readers and rates, as long as    *)
(* the runs of the job do not overlap: the theorem about yieldCheckJob.ts,  *)
(* strategyAggregator.ts and blendApyFetcher.ts.                            *)
(***************************************************************************)
THEOREM YieldSafe ==
  ASSUME Protocols # {}, \A c, d \in Checks : c = d
  PROVE  YieldSpec /\ MixSpec /\ ApySpec /\ VenueSpec => []YieldSafety
  <1>1. YieldInv /\ MixTypeOK /\ ApyInv /\ VenueInv => YieldSafety
    <2> SUFFICES ASSUME YieldInv, MixTypeOK, ApyInv, VenueInv PROVE YieldSafety
      OBVIOUS
    <2>1. ApyTypeOK
      BY DEF ApyInv, ApyTypeOK, ReaderSteps, Genuine
    <2>2. SampleIsOfThePool
      BY DEF ApyInv, SampleIsOfThePool, Genuine, OfThePool
    <2> QED
      BY <2>1, <2>2, OneIsInTheAir, MixIsAlwaysWhole, VenueTells DEF YieldSafety, YieldInv
  <1>2. YieldSpec => []YieldInv
    BY YieldInitInv, YieldStepInv, PTL DEF YieldSpec
  <1>3. MixSpec => []MixTypeOK
    BY MixInitType, MixStepType, PTL DEF MixSpec
  <1>4. ApySpec => []ApyInv
    BY ApyInitInv, ApyStepInv, PTL DEF ApySpec
  <1>5. VenueSpec => []VenueInv
    BY VenueInitInv, VenueStepInv, PTL DEF VenueSpec
  <1> QED
    BY <1>1, <1>2, <1>3, <1>4, <1>5, PTL
==============================================================================

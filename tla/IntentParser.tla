----------------------------- MODULE IntentParser ------------------------------
(***************************************************************************)
(* Understanding what a user writes: the providers behind their breakers and*)
(* the confirmation of an intent (agent/src/intentParser.ts), and the ring of*)
(* API keys (openAiKeyManager.ts).  Three state machines without common state.*)
(***************************************************************************)
EXTENDS Naturals, FiniteSets

(***************************************************************************)
(* Parsing a message with a language model (parseIntent in                  *)
(* agent/src/intentParser.ts): the providers are tried in order behind a    *)
(* circuit breaker each, and a regular expression answers when none does.   *)
(* Several messages are parsed at once, so a breaker hears of calls that    *)
(* began before it opened.  What is parsed, and the history a call is sent  *)
(* with, are left out.                                                      *)
(***************************************************************************)

CONSTANTS
  Providers,     \* how many; anthropic is 1 and openai 2
  Parses,        \* messages that may be parsed at a time
  FailureThreshold, SuccessThreshold,  \* FAILURE_THRESHOLD, HALF_OPEN_SUCCESS_THRESHOLD
  RecoveryTimeout,                     \* RECOVERY_TIMEOUT_MS, in ticks
  MaxFailures    \* bound of the runs: failures counted by a breaker

ASSUME BreakerAssumption ==
  /\ Providers \in Nat /\ RecoveryTimeout \in Nat
  /\ FailureThreshold \in Nat \ {0} /\ SuccessThreshold \in Nat \ {0}
  /\ MaxFailures \in Nat

VARIABLES
  llm,      \* breakers: state, failures, successCount, ticks since lastFailureTime
  parse     \* the provider each parse is at, and whether it has been called

llmVars == <<llm, parse>>

NoParse == [at |-> 0, calling |-> FALSE, by |-> "none"]
Breaker == [state : {"CLOSED", "OPEN", "HALF_OPEN"}, failures : 0 .. MaxFailures,
            successCount : 0 .. SuccessThreshold, since : 0 .. RecoveryTimeout]

LlmTypeOK ==
  /\ llm \in [1 .. Providers -> Breaker]
  /\ parse \in [Parses -> [at : 0 .. Providers + 1, calling : BOOLEAN,
                           by : {"none", "model", "regex"}]]

LlmInit ==
  /\ llm = [p \in 1 .. Providers |-> [state |-> "CLOSED", failures |-> 0, successCount |-> 0,
                                      since |-> RecoveryTimeout]]
  /\ parse = [m \in Parses |-> NoParse]

\* isAvailable
Recovers(b) == b.state = "OPEN" /\ b.since >= RecoveryTimeout
IsAvailable(b) == b.state # "OPEN" \/ Recovers(b)

\* Mutant of Closes: the failures of before are kept.
ClosesOnly(b) == [b EXCEPT !.state = "CLOSED", !.successCount = @ + 1]
Closes(b) == [b EXCEPT !.state = "CLOSED", !.successCount = @ + 1, !.failures = 0]

\* recordSuccess
Succeeded(b) ==
  IF b.state # "HALF_OPEN" THEN [b EXCEPT !.failures = 0]
  ELSE IF b.successCount + 1 >= SuccessThreshold THEN Closes(b)
  ELSE [b EXCEPT !.successCount = @ + 1]

\* recordFailure
Failed(b) ==
  LET n == b.failures + 1 IN
  [b EXCEPT !.failures = n, !.since = 0,
            !.state = IF n >= FailureThreshold \/ @ = "HALF_OPEN" THEN "OPEN" ELSE @]

-----------------------------------------------------------------------------
(* parseIntent. *)

BeginParse(m) ==
  /\ parse[m].at = 0
  /\ parse' = [parse EXCEPT ![m] = [NoParse EXCEPT !.at = 1]]
  /\ UNCHANGED llm

\* isAvailable opens the breaker half, and the call goes out.
CallProvider(m) ==
  LET p == parse[m].at IN
  /\ p \in 1 .. Providers /\ ~parse[m].calling
  /\ IF IsAvailable(llm[p])
       THEN /\ llm' = IF Recovers(llm[p])
                        THEN [llm EXCEPT ![p].state = "HALF_OPEN", ![p].successCount = 0]
                        ELSE llm
            /\ parse' = [parse EXCEPT ![m].calling = TRUE]
       ELSE UNCHANGED llm /\ parse' = [parse EXCEPT ![m].at = p + 1]

Answers(m) ==
  LET p == parse[m].at IN
  /\ parse[m].calling
  /\ llm' = [llm EXCEPT ![p] = Succeeded(@)]
  /\ parse' = [parse EXCEPT ![m] = [NoParse EXCEPT !.by = "model"]]

\* The call throws, or what it returned is not an intent.
CallFails(m) ==
  LET p == parse[m].at IN
  /\ parse[m].calling /\ llm[p].failures < MaxFailures
  /\ llm' = [llm EXCEPT ![p] = Failed(@)]
  /\ parse' = [parse EXCEPT ![m].at = p + 1, ![m].calling = FALSE]

FallsBack(m) ==
  /\ parse[m].at = Providers + 1
  /\ parse' = [parse EXCEPT ![m] = [NoParse EXCEPT !.by = "regex"]]
  /\ UNCHANGED llm

LlmTick ==
  /\ llm' = [p \in 1 .. Providers |->
               [llm[p] EXCEPT !.since = IF @ < RecoveryTimeout THEN @ + 1 ELSE @]]
  /\ UNCHANGED parse

LlmNext ==
  \/ LlmTick
  \/ \E m \in Parses :
       BeginParse(m) \/ CallProvider(m) \/ Answers(m) \/ CallFails(m) \/ FallsBack(m)

LlmSpec == LlmInit /\ [][LlmNext]_llmVars

-----------------------------------------------------------------------------
(* Properties. *)

(***************************************************************************)
(* A closed breaker has had fewer failures since its last success than the  *)
(* threshold, also when answers arrive out of order around its opening:     *)
(* otherwise one failure of a provider that has recovered opens it again.   *)
(***************************************************************************)
ClosedHasFewFailures ==
  \A p \in 1 .. Providers : llm[p].state = "CLOSED" => llm[p].failures < FailureThreshold

-----------------------------------------------------------------------------
(***************************************************************************)
(* Confirming what a user asked for (buildConfirmation, verifyConfirmation  *)
(* in agent/src/intentParser.ts): a confirmation shows one operation, is    *)
(* bound to it by a fingerprint and expires; another message may change the *)
(* intent at any time.  A confirmation may be used again while it is valid. *)
(***************************************************************************)

CONSTANTS
  Details,       \* asset, destination and network of an operation, together
  NoDetails,     \* one of the three is missing
  Amounts,       \* finite numbers a message may name; "withdraw 0" names 0
  NonFinite,     \* NaN, of "withdraw ,", and Infinity, of too many digits
  NoAmount,      \* the intent has no amount: null in a fingerprint
  TTL,           \* CONFIRMATION_TTL_MS, in ticks
  MaxTime, MaxConfirmations  \* bounds of the runs

ASSUME ConfirmationAssumption ==
  /\ {TTL, MaxTime, MaxConfirmations} \subseteq Nat /\ Amounts \subseteq Nat
  /\ NoAmount \notin Nat /\ NoDetails \notin Details
  /\ NonFinite \cap (Nat \cup {NoAmount}) = {}

VARIABLES
  intent,         \* what the user asks for now
  details,        \* and where, as far as it is known
  confirmations,  \* confirmations the user has been shown
  executed,       \* operations executed since the last change, with the moment
  time

confirmVars == <<intent, details, confirmations, executed, time>>

\* get_apy stands for the actions that move nothing.
Actions == {"deposit", "withdraw", "withdraw_all", "get_apy"}
Intents ==
  [action : Actions, amount : Amounts \cup NonFinite \cup {NoAmount}, withdrawAll : BOOLEAN]
IsFinancialAction(a) == a \in {"deposit", "withdraw", "withdraw_all"}

\* An answer of a model is an intent whose amount, if it has one, is positive; the
\* schema may let Infinity through, and is taken to let all of NonFinite.
SchemaIntents == {i \in Intents : i.amount # 0}

\* parseIntentWithRegex: "all" has no amount, a withdrawal or deposit always has, which
\* parseFloat may have made NaN: commas alone match too.
RegexIntents ==
  {i \in Intents : /\ i.withdrawAll <=> i.action = "withdraw_all"
                   /\ i.amount = NoAmount <=> i.action \notin {"deposit", "withdraw"}}

\* intent.amount ?? null, as JSON.stringify writes it
JsonAmount(a) == IF a \in NonFinite THEN NoAmount ELSE a

FingerprintIntent(i, d) ==
  [action |-> i.action, amount |-> JsonAmount(i.amount), withdrawAll |-> i.withdrawAll,
   details |-> d]
Fingerprints ==
  [action : Actions, amount : Amounts \cup {NoAmount}, withdrawAll : BOOLEAN, details : Details]

Operation(i, d) ==
  [action |-> i.action, amount |-> i.amount, withdrawAll |-> i.withdrawAll, details |-> d]
Operations == [action : Actions, amount : Amounts \cup NonFinite \cup {NoAmount},
               withdrawAll : BOOLEAN, details : Details]

ConfirmTypeOK ==
  /\ intent \in Intents /\ details \in Details \cup {NoDetails}
  /\ confirmations \subseteq [action : Actions, amount : Amounts \cup NonFinite \cup {0},
                              details : Details, intentFingerprint : Fingerprints,
                              expiresAt : 0 .. MaxTime + TTL]
  /\ executed \subseteq [operation : Operations, at : 0 .. MaxTime]
  /\ time \in 0 .. MaxTime

ConfirmInit ==
  /\ intent \in SchemaIntents \cup RegexIntents /\ details \in Details \cup {NoDetails}
  /\ confirmations = {} /\ executed = {} /\ time = 0

\* Another message, or another asset, destination or network.
EditIntent ==
  /\ \/ intent' \in SchemaIntents \cup RegexIntents /\ UNCHANGED details
     \/ details' \in Details \cup {NoDetails} /\ UNCHANGED intent
  /\ executed' = {}
  /\ UNCHANGED <<confirmations, time>>

\* intent.amount ?? 0: NaN is a number, and is shown
AmountShown(i) == IF i.amount = NoAmount THEN 0 ELSE i.amount

BuildConfirmation ==
  /\ Cardinality(confirmations) < MaxConfirmations
  /\ IsFinancialAction(intent.action)
  /\ intent.action # "withdraw_all" => intent.amount # NoAmount
  /\ details # NoDetails
  /\ confirmations' = confirmations \cup
       {[action |-> intent.action, amount |-> AmountShown(intent), details |-> details,
         intentFingerprint |-> FingerprintIntent(intent, details), expiresAt |-> time + TTL]}
  /\ UNCHANGED <<intent, details, executed, time>>

Expired(c) == time > c.expiresAt

\* verifyConfirmation
Verifies(c) ==
  /\ ~Expired(c)
  /\ c.action = intent.action
  /\ c.intentFingerprint = FingerprintIntent(intent, details)

\* The caller executes what a confirmation verifies for.
ExecuteIntent ==
  /\ details # NoDetails /\ \E c \in confirmations : Verifies(c)
  /\ executed' = executed \cup {[operation |-> Operation(intent, details), at |-> time]}
  /\ UNCHANGED <<intent, details, confirmations, time>>

ConfirmTick ==
  /\ time < MaxTime /\ time' = time + 1
  /\ UNCHANGED <<intent, details, confirmations, executed>>

ConfirmNext == EditIntent \/ BuildConfirmation \/ ExecuteIntent \/ ConfirmTick

ConfirmSpec == ConfirmInit /\ [][ConfirmNext]_confirmVars

-----------------------------------------------------------------------------
(* Properties. *)

(***************************************************************************)
(* Whatever changes came in between, money moves only under a confirmation  *)
(* built at most the time to live before: the same action, to the same      *)
(* place, all or not all as then, and, if the amount is finite, the one     *)
(* that was shown.  Where no finite amount is named, none was shown either: *)
(* 0 of "withdraw all", otherwise NaN or Infinity.  More does not hold: a   *)
(* fingerprint writes those two and no amount alike, so one of them may be  *)
(* confirmed and another executed; and whether all is withdrawn is bound    *)
(* but stands in no field the user is shown.                                *)
(***************************************************************************)
ShowsAmount(c, op) ==
  IF op.amount \in Amounts THEN c.amount = op.amount
  ELSE c.amount \in NonFinite \/ (c.amount = 0 /\ op.action = "withdraw_all")

Shows(c, op) ==
  /\ c.action = op.action /\ c.details = op.details
  /\ c.intentFingerprint.withdrawAll = op.withdrawAll
  /\ ShowsAmount(c, op)

ExecutedAsShown ==
  \A e \in executed :
    /\ IsFinancialAction(e.operation.action)
    /\ \E c \in confirmations :
         Shows(c, e.operation) /\ e.at \in c.expiresAt - TTL .. c.expiresAt

-----------------------------------------------------------------------------
(***************************************************************************)
(* Rotation of API keys (agent/src/openAiKeyManager.ts): an execution calls *)
(* its operation with the next key that is healthy, as many times as there  *)
(* are keys; a failing key may have to cool down, and when all do the one   *)
(* that failed longest ago is used.  Executions share keys and position.    *)
(***************************************************************************)

CONSTANTS
  KeyCount,
  Executions,    \* calls of executeWithRotation that may be under way
  CoolDown,      \* defaultCooldownMs, in ticks
  MaxMoment      \* bound of the runs

ASSUME RotationAssumption ==
  KeyCount \in Nat \ {0} /\ CoolDown \in Nat \ {0} /\ MaxMoment \in Nat \ {0}

VARIABLES
  keyState,      \* isHealthy and lastFailedAt of each key
  currentIndex,
  execution,
  moment

rotationVars == <<keyState, currentIndex, execution, moment>>

KeyIndexes == 0 .. KeyCount - 1
\* `due': the keys that were not cooling down when the execution began.
NoExecution == [at |-> "idle", key |-> 0, attempts |-> 0, tried |-> {}, due |-> {}, alone |-> FALSE]

RotationTypeOK ==
  /\ keyState \in [KeyIndexes -> [isHealthy : BOOLEAN, lastFailedAt : 0 .. MaxMoment]]
  /\ currentIndex \in KeyIndexes
  /\ execution \in [Executions ->
       [at : {"idle", "choosing", "calling", "threw"}, key : KeyIndexes,
        attempts : 0 .. KeyCount, tried : SUBSET KeyIndexes, due : SUBSET KeyIndexes,
        alone : BOOLEAN]]
  /\ moment \in 1 .. MaxMoment

RotationInit ==
  /\ keyState = [k \in KeyIndexes |-> [isHealthy |-> TRUE, lastFailedAt |-> 0]]
  /\ currentIndex = 0 /\ execution = [e \in Executions |-> NoExecution] /\ moment = 1

CoolsDown(k) == ~keyState[k].isHealthy /\ moment - keyState[k].lastFailedAt < CoolDown

Running == {e \in Executions : execution[e].at \in {"choosing", "calling"}}

BeginExecution(e) ==
  /\ e \notin Running
  /\ execution' = [x \in Executions |->
       IF x = e THEN [NoExecution EXCEPT !.at = "choosing", !.alone = Running = {},
                        !.due = {k \in KeyIndexes : ~CoolsDown(k)}]
       ELSE [execution[x] EXCEPT !.alone = FALSE]]
  /\ UNCHANGED <<keyState, currentIndex, moment>>

\* How far a key is ahead of the position.
Ahead(k) == (k + KeyCount - currentIndex) % KeyCount

NextIndex(k) == (k + 1) % KeyCount

\* getNextAvailableKeyIndex: the first key that is healthy, or has cooled down;
\* keys that are passed over go on cooling down.
ChooseKey(e) ==
  /\ execution[e].at = "choosing"
  /\ \E k \in KeyIndexes :
       /\ ~CoolsDown(k) /\ \A j \in KeyIndexes : Ahead(j) < Ahead(k) => CoolsDown(j)
       /\ keyState' = [keyState EXCEPT ![k].isHealthy = TRUE]
       /\ currentIndex' = NextIndex(k)
       /\ execution' = [execution EXCEPT ![e].at = "calling", ![e].key = k, ![e].tried = @ \cup {k}]
  /\ UNCHANGED moment

\* All are cooling down: the one that failed longest ago, the first of several.
ChooseFallback(e) ==
  /\ execution[e].at = "choosing" /\ \A k \in KeyIndexes : CoolsDown(k)
  /\ \E k \in KeyIndexes :
       /\ \A j \in KeyIndexes : \/ keyState[j].lastFailedAt > keyState[k].lastFailedAt
                                \/ keyState[j].lastFailedAt = keyState[k].lastFailedAt /\ j >= k
       /\ execution' = [execution EXCEPT ![e].at = "calling", ![e].key = k, ![e].tried = @ \cup {k}]
  /\ UNCHANGED <<keyState, currentIndex, moment>>

CallSucceeds(e) ==
  /\ execution[e].at = "calling"
  /\ keyState' = [keyState EXCEPT ![execution[e].key].isHealthy = TRUE]
  /\ execution' = [execution EXCEPT ![e] = NoExecution]
  /\ UNCHANGED <<currentIndex, moment>>

\* 401, 429, 5xx make the key unhealthy; any other error does not.
CallThrows(e) ==
  LET k == execution[e].key IN
  /\ execution[e].at = "calling"
  /\ \E unhealthy \in BOOLEAN :
       keyState' = [keyState EXCEPT ![k].isHealthy = @ /\ ~unhealthy, ![k].lastFailedAt = moment]
  /\ execution' = [execution EXCEPT ![e].attempts = @ + 1,
       ![e].at = IF execution[e].attempts + 1 = KeyCount THEN "threw" ELSE "choosing"]
  /\ UNCHANGED <<currentIndex, moment>>

MomentPasses ==
  /\ moment < MaxMoment /\ moment' = moment + 1
  /\ UNCHANGED <<keyState, currentIndex, execution>>

RotationNext ==
  \/ MomentPasses
  \/ \E e \in Executions :
       \/ BeginExecution(e) \/ ChooseKey(e) \/ ChooseFallback(e)
       \/ CallSucceeds(e) \/ CallThrows(e)

RotationSpec == RotationInit /\ [][RotationNext]_rotationVars

-----------------------------------------------------------------------------
(* Properties. *)

(***************************************************************************)
(* "All OpenAI API keys failed": an execution no other overlapped has, when *)
(* it throws, tried every key that was not cooling down when it began.      *)
(***************************************************************************)
ThrowsAfterEveryKey ==
  \A e \in Executions :
    execution[e].at = "threw" /\ execution[e].alone => execution[e].due \subseteq execution[e].tried

(***************************************************************************)
(* Counters, confirmations and key positions shared by concurrent calls     *)
(* stay in step with what they count and confirm.                           *)
(***************************************************************************)
IntentSafety ==
  /\ LlmTypeOK /\ ClosedHasFewFailures
  /\ ConfirmTypeOK /\ ExecutedAsShown
  /\ RotationTypeOK /\ ThrowsAfterEveryKey
================================================================================

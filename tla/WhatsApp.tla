------------------------------- MODULE WhatsApp -------------------------------
(***************************************************************************)
(* The conversation of one WhatsApp user (whatsapp/src/webhook.ts with     *)
(* stateManager.ts, otpService.ts and walletService.ts): verification by a *)
(* code, consent, and intents run by a Bull queue with one worker.  Twilio *)
(* delivers a message again when it sees no answer.  Sessions, codes and   *)
(* wallets live in the process, jobs in Redis.                             *)
(***************************************************************************)
EXTENDS Naturals, FiniteSets, Sequences

CONSTANTS
  Messages,       \* MessageSids
  TextOf,         \* what each message says
  MaxRepeats,     \* messages Twilio delivers twice
  MaxWallets,     \* wallets created in a behaviour
  MaxStalls       \* restarts of the process and stalls of the worker

ASSUME WhatsAppAssumption ==
  /\ MaxRepeats \in Nat /\ MaxWallets \in Nat /\ MaxStalls \in Nat
  /\ TextOf \in [Messages -> {"hi", "code", "wrong code", "agree", "decline", "intent"}]

VARIABLES
  session,     \* session.state
  inactive,    \* have SESSION_TIMEOUT_MS passed since lastMessageTime?
  otp,         \* the stored code: is there one, has it expired, its attempts
  wallet,      \* the user's wallet, 0 for none
  deliveries,  \* how often each message has been delivered
  handling,    \* deliveries that await the database: message and next step
  job,         \* the job of each message
  executed,    \* how often the intent of each message was executed
  stalls,      \* how often the job of each message was taken for stalled
  acked,       \* messages answered with "Processing your request"
  lostAcks,    \* of these, the ones whose handler failed or died at queueing the job
  made, failures

whatsappVars == <<session, inactive, otp, wallet, deliveries, handling, job, executed,
                  stalls, acked, lostAcks, made, failures>>

MAX_ATTEMPTS == 3
States == {"UNVERIFIED", "AWAITING_OTP", "AWAITING_CUSTODIAL_CONSENT", "VERIFIED"}
OTPRecord == [there : BOOLEAN, expired : BOOLEAN, attempts : 0..MAX_ATTEMPTS]
NoOTP == [there |-> FALSE, expired |-> FALSE, attempts |-> 0]

WhatsAppTypeOK ==
  /\ session \in States /\ inactive \in BOOLEAN /\ otp \in OTPRecord
  /\ wallet \in 0..MaxWallets /\ made \in 0..MaxWallets
  /\ deliveries \in [Messages -> 0..2]
  /\ handling \subseteq Messages \X {"dispatch", "enqueue"}
  /\ job \in [Messages -> {"none", "waiting", "active", "done"}]
  /\ executed \in [Messages -> Nat] /\ stalls \in [Messages -> Nat]
  /\ acked \subseteq Messages /\ lostAcks \subseteq Messages
  /\ failures \in 0..MaxStalls

WhatsAppInit ==
  /\ session = "UNVERIFIED" /\ inactive = FALSE /\ otp = NoOTP
  /\ wallet = 0 /\ made = 0 /\ failures = 0
  /\ deliveries = [m \in Messages |-> 0]
  /\ handling = {} /\ acked = {} /\ lostAcks = {}
  /\ job = [m \in Messages |-> "none"]
  /\ executed = [m \in Messages |-> 0] /\ stalls = [m \in Messages |-> 0]

-----------------------------------------------------------------------------
(* handleWhatsAppWebhook *)

\* A message without a sender or an id, or beyond the rate, is answered at once; any
\* other one is logged, with an await.  Nothing in the service mounts
\* twilioSignatureMiddleware.
Admitted(m) == {handling, handling \cup {<<m, "dispatch">>}}

Deliver(m) ==
  /\ \/ deliveries[m] = 0
     \/ deliveries[m] = 1 /\ Cardinality({n \in Messages : deliveries[n] = 2}) < MaxRepeats
  /\ deliveries' = [deliveries EXCEPT ![m] = @ + 1]
  /\ handling' \in Admitted(m)
  /\ UNCHANGED <<session, inactive, otp, wallet, job, executed, stalls, acked, lostAcks,
                 made, failures>>

\* getSession: a session left alone for a quarter of an hour starts over.
Session == IF inactive THEN "UNVERIFIED" ELSE session

Dispatched(m, s) ==
  /\ session' = s /\ inactive' = FALSE
  /\ handling' = handling \ {<<m, "dispatch">>}
  /\ UNCHANGED <<deliveries, job, executed, stalls, lostAcks, failures>>

GenerateOTP == [NoOTP EXCEPT !.there = TRUE]

Greeted(m) ==
  /\ <<m, "dispatch">> \in handling /\ Session = "UNVERIFIED"
  /\ IF TextOf[m] = "hi"
       THEN /\ otp' = GenerateOTP
            /\ Dispatched(m, "AWAITING_OTP")
       ELSE UNCHANGED otp /\ Dispatched(m, "UNVERIFIED")
  /\ UNCHANGED <<wallet, acked, made>>

Spent(record) == record.attempts >= MAX_ATTEMPTS

AfterCode == "AWAITING_CUSTODIAL_CONSENT"

Verifies(text) == text = "code" /\ otp.there /\ ~otp.expired /\ ~Spent(otp)

\* verifyOTP: only a wrong code leaves a record.
VerifyOTP(text) ==
  IF text = "wrong code" /\ otp.there /\ ~otp.expired /\ ~Spent(otp)
    THEN [otp EXCEPT !.attempts = @ + 1] ELSE NoOTP

OtpAnswered(m) ==
  /\ <<m, "dispatch">> \in handling /\ Session = "AWAITING_OTP"
  /\ IF TextOf[m] \in {"code", "wrong code"}
       THEN /\ otp' = VerifyOTP(TextOf[m])
            /\ Dispatched(m, IF Verifies(TextOf[m]) THEN AfterCode ELSE "AWAITING_OTP")
       ELSE UNCHANGED otp /\ Dispatched(m, "AWAITING_OTP")
  /\ UNCHANGED <<wallet, acked, made>>

\* A new key pair is stored whether there is one or not.
CreateCustodialWallet == made < MaxWallets /\ made' = made + 1 /\ wallet' = made + 1
HasWallet == wallet # 0

ConsentAnswered(m) ==
  /\ <<m, "dispatch">> \in handling /\ Session = "AWAITING_CUSTODIAL_CONSENT"
  /\ CASE TextOf[m] = "agree" ->
            CreateCustodialWallet /\ Dispatched(m, "VERIFIED")
       [] TextOf[m] = "decline" -> UNCHANGED <<made, wallet>> /\ Dispatched(m, "UNVERIFIED")
       [] OTHER -> UNCHANGED <<made, wallet>> /\ Dispatched(m, "AWAITING_CUSTODIAL_CONSENT")
  /\ UNCHANGED <<otp, acked>>

\* The user is told that the request is processed; the answer is awaited before
\* the job is added.
IntentAcknowledged(m) ==
  /\ <<m, "dispatch">> \in handling /\ Session = "VERIFIED"
  /\ IF ~HasWallet
       THEN Dispatched(m, "UNVERIFIED") /\ UNCHANGED acked
       ELSE /\ acked' = acked \cup {m}
            /\ session' = "VERIFIED" /\ inactive' = FALSE
            /\ handling' = (handling \ {<<m, "dispatch">>}) \cup {<<m, "enqueue">>}
            /\ UNCHANGED <<deliveries, job, executed, stalls, lostAcks, failures>>
  /\ UNCHANGED <<otp, wallet, made>>

\* Mutant of AddIntentJob: the job's id is not the message's.
AddJobAgain(m) == [job EXCEPT ![m] = IF @ = "active" THEN @ ELSE "waiting"]
\* Bull ignores a job whose id it has, finished or not.
AddIntentJob(m) == [job EXCEPT ![m] = IF @ = "none" THEN "waiting" ELSE @]

IntentQueued(m) ==
  /\ <<m, "enqueue">> \in handling
  /\ job' = AddIntentJob(m)
  /\ handling' = handling \ {<<m, "enqueue">>}
  /\ UNCHANGED <<session, inactive, otp, wallet, deliveries, executed, stalls, acked,
                 lostAcks, made, failures>>

\* The queue rejects, before or after Redis has the job.  The answer is out: the
\* request ends with the process alive, the user knows nothing, and Twilio, which
\* has its answer, sends nothing again.
QueueRejects(m) ==
  /\ <<m, "enqueue">> \in handling
  /\ failures < MaxStalls /\ failures' = failures + 1
  /\ job' \in {job, AddIntentJob(m)}
  /\ lostAcks' = lostAcks \cup {m}
  /\ handling' = handling \ {<<m, "enqueue">>}
  /\ UNCHANGED <<session, inactive, otp, wallet, deliveries, executed, stalls, acked, made>>

-----------------------------------------------------------------------------
(* The worker (INTENT_WORKER_CONCURRENCY = 1). *)

CanExecuteIntent == Session = "VERIFIED" /\ HasWallet

\* A deposit, a withdrawal or a look at the portfolio.
ProcessVerifiedIntent(m) == [executed EXCEPT ![m] = @ + 1]

\* canExecuteIntent looks at the session, and by that keeps it alive.
StartIntent(m) ==
  /\ job[m] = "waiting" /\ \A n \in Messages : job[n] # "active"
  /\ job' = [job EXCEPT ![m] = "active"]
  /\ session' = Session /\ inactive' = FALSE
  /\ executed' = IF CanExecuteIntent THEN ProcessVerifiedIntent(m) ELSE executed
  /\ UNCHANGED <<otp, wallet, deliveries, handling, stalls, acked, lostAcks, made,
                 failures>>

\* The reply is sent; a failing reply ends the job too (attempts: 1).
EndIntent(m) ==
  /\ job[m] = "active"
  /\ job' = [job EXCEPT ![m] = "done"]
  /\ UNCHANGED <<session, inactive, otp, wallet, deliveries, handling, executed, stalls,
                 acked, lostAcks, made, failures>>

-----------------------------------------------------------------------------
(* Time and faults. *)

TimePasses ==
  /\ \/ inactive' = TRUE /\ otp' = [otp EXCEPT !.expired = otp.there]  \* 15 min > 5 min
     \/ UNCHANGED inactive /\ otp.there /\ otp' = [otp EXCEPT !.expired = TRUE]
  /\ UNCHANGED <<session, wallet, deliveries, handling, job, executed, stalls, acked,
                 lostAcks, made, failures>>

\* The process restarts: its maps are empty, handlers under way are gone, and
\* Bull gives a job it was running to the worker again.
WebhookRestarts ==
  /\ failures < MaxStalls
  /\ failures' = failures + 1
  /\ session' = "UNVERIFIED" /\ inactive' = FALSE /\ otp' = NoOTP /\ wallet' = 0
  /\ lostAcks' = lostAcks \cup {m \in Messages : <<m, "enqueue">> \in handling}
  /\ handling' = {}
  /\ job' = [m \in Messages |-> IF job[m] = "active" THEN "waiting" ELSE job[m]]
  /\ stalls' = [m \in Messages |-> IF job[m] = "active" THEN stalls[m] + 1 ELSE stalls[m]]
  /\ UNCHANGED <<deliveries, executed, acked, made>>

WorkerStep(m) == IntentQueued(m) \/ StartIntent(m) \/ EndIntent(m)

WhatsAppNext ==
  \/ \E m \in Messages :
       \/ Deliver(m) \/ Greeted(m) \/ OtpAnswered(m) \/ ConsentAnswered(m)
       \/ IntentAcknowledged(m) \/ WorkerStep(m)
       \/ QueueRejects(m)
  \/ TimePasses \/ WebhookRestarts

WhatsAppFairness == \A m \in Messages : WF_whatsappVars(WorkerStep(m))

WhatsAppSpec == WhatsAppInit /\ [][WhatsAppNext]_whatsappVars /\ WhatsAppFairness

-----------------------------------------------------------------------------
(* Properties. *)

\* A verified session has a wallet, through timeouts, declines and restarts.
VerifiedHasWallet == session = "VERIFIED" => wallet # 0

\* "Inbound message IDs are deduplicated so duplicate deliveries execute once":
\* an intent runs again only when Bull took its job for stalled.
IntentRunsOnce == \A m \in Messages : executed[m] <= 1 + stalls[m]

\* Time and again every acknowledged intent is worked off, or its handler failed after
\* the answer, in or before the call that queues it: then it may be lost, and nobody
\* is told.
AcknowledgedIsWorkedOff ==
  []<>(\A m \in acked : job[m] = "done" \/ m \in lostAcks)

-----------------------------------------------------------------------------
(***************************************************************************)
(* The notifications of the vault's interface (vault-ui/src/notifications): *)
(* events of one type that arrive within a window are handed over as one    *)
(* batch, shown by the browser or, if it will not, mailed.                  *)
(***************************************************************************)

CONSTANTS
  NoticeTypes,     \* NotificationEventType
  BatchWindows,    \* values of batchWindowMs
  MaxNotices       \* bound of the runs: events, and preferences saved

ASSUME NoticeAssumption == MaxNotices \in Nat

VARIABLES
  noticePrefs,   \* the stored preferences
  serviceWindow, \* windowMs of the service's batcher
  buckets,       \* events of each type that wait, oldest first
  timers,        \* types with a timer
  flushed,       \* batches whose delivery is under way
  handedOver,    \* how often each event was in a batch, up to 2
  notices,       \* events so far
  saves          \* preferences saved so far

noticeVars == <<noticePrefs, serviceWindow, buckets, timers, flushed, handedOver, notices, saves>>

Ids == 1 .. MaxNotices
Preferences == [types : SUBSET NoticeTypes, batchWindow : BatchWindows, fallback : BOOLEAN]

NoticeTypeOK ==
  /\ noticePrefs \in Preferences /\ serviceWindow \in BatchWindows
  /\ buckets \in [NoticeTypes -> Seq(Ids)] /\ timers \subseteq NoticeTypes
  /\ flushed \subseteq [type : NoticeTypes, events : Seq(Ids), at : {"showing", "mailing"}]
  /\ handedOver \in [Ids -> 0 .. 2] /\ notices \in 0 .. MaxNotices /\ saves \in 0 .. MaxNotices

\* DEFAULT_PREFERENCES: every type, no mail.
NoticeInit ==
  /\ noticePrefs \in {p \in Preferences : p.types = NoticeTypes /\ ~p.fallback}
  /\ serviceWindow = noticePrefs.batchWindow
  /\ buckets = [t \in NoticeTypes |-> <<>>] /\ timers = {} /\ flushed = {}
  /\ handedOver = [i \in Ids |-> 0] /\ notices = 0 /\ saves = 0

\* savePreferences; a service that runs reads them with the next event.
SavePreferences ==
  /\ saves < MaxNotices /\ saves' = saves + 1
  /\ noticePrefs' \in Preferences
  /\ UNCHANGED <<serviceWindow, buckets, timers, flushed, handedOver, notices>>

AfterFlush(bs, S) == [t \in NoticeTypes |-> IF t \in S THEN <<>> ELSE bs[t]]

\* flush of the types S: every batch that is not empty goes to deliver.
Flushes(S) ==
  /\ flushed' = flushed \cup
       {[type |-> t, events |-> buckets[t], at |-> "showing"] : t \in {u \in S : buckets[u] # <<>>}}
  /\ handedOver' = [i \in Ids |->
       IF handedOver[i] < 2 /\ \E t \in S : \E k \in DOMAIN buckets[t] : buckets[t][k] = i
       THEN handedOver[i] + 1 ELSE handedOver[i]]

NewTimer(t) == {t}

\* notify.  A type without a timer gets one, security alerts with no delay.
Notify(t) ==
  /\ notices < MaxNotices /\ notices' = notices + 1
  /\ t \in noticePrefs.types
  /\ serviceWindow' = noticePrefs.batchWindow
  /\ LET S == IF noticePrefs.batchWindow # serviceWindow THEN NoticeTypes ELSE {} IN
     /\ Flushes(S)
     /\ buckets' = [AfterFlush(buckets, S) EXCEPT ![t] = Append(@, notices + 1)]
     /\ timers' = (timers \ S) \cup NewTimer(t)
  /\ UNCHANGED <<noticePrefs, saves>>

\* A type that is switched off.
Ignores(t) ==
  /\ notices < MaxNotices /\ notices' = notices + 1
  /\ t \notin noticePrefs.types
  /\ UNCHANGED <<noticePrefs, serviceWindow, buckets, timers, flushed, handedOver, saves>>

FlushTypes(S) ==
  /\ Flushes(S)
  /\ buckets' = AfterFlush(buckets, S) /\ timers' = timers \ S
  /\ UNCHANGED <<noticePrefs, serviceWindow, notices, saves>>

TimerFlushes(t) == t \in timers /\ FlushTypes({t})
FlushAll == FlushTypes(NoticeTypes)

\* deliver: the browser shows the batch, throws, or declines.
Delivered(b) ==
  /\ flushed' = flushed \ {b}
  /\ UNCHANGED <<noticePrefs, serviceWindow, buckets, timers, handedOver, notices, saves>>
Declined(b) ==
  /\ b.at = "showing" /\ noticePrefs.fallback
  /\ flushed' = (flushed \ {b}) \cup {[b EXCEPT !.at = "mailing"]}
  /\ UNCHANGED <<noticePrefs, serviceWindow, buckets, timers, handedOver, notices, saves>>

NoticeNext ==
  \/ SavePreferences \/ FlushAll
  \/ \E t \in NoticeTypes : Notify(t) \/ Ignores(t) \/ TimerFlushes(t)
  \/ \E b \in flushed : Delivered(b) \/ Declined(b)

\* Timers fire.
NoticeFairness == \A t \in NoticeTypes : WF_noticeVars(TimerFlushes(t))

NoticeSpec == NoticeInit /\ [][NoticeNext]_noticeVars /\ NoticeFairness

-----------------------------------------------------------------------------
(* Properties. *)

(***************************************************************************)
(* An event is handed over once, whether its timer, a flush or a change of  *)
(* the window comes first.                                                  *)
(***************************************************************************)
HandedOverOnce == \A i \in Ids : handedOver[i] <= 1

(***************************************************************************)
(* No event stays in its bucket.                                            *)
(***************************************************************************)
BucketsAreEmptied == \A t \in NoticeTypes : [](buckets[t] # <<>> => <>(buckets[t] = <<>>))

(***************************************************************************)
(* What is delivered or asked for once is done once: intents of the chat,   *)
(* for users with a wallet, and batches of notices.                         *)
(***************************************************************************)
WorkIsDoneOnce ==
  /\ WhatsAppTypeOK /\ VerifiedHasWallet /\ IntentRunsOnce
  /\ NoticeTypeOK /\ HandedOverOnce
================================================================================

---------------------------- MODULE Authentication -----------------------------
(***************************************************************************)
(* What proves who a user is: one-time codes (otpService.ts, authService.ts)*)
(* and sign-in with Stellar (authService.ts, authRouter.ts).  Two state    *)
(* machines without common state.                                          *)
(***************************************************************************)
EXTENDS Integers, FiniteSets

(***************************************************************************)
(* One-time codes in Redis: those sent to phones (otpService.ts) and those  *)
(* of the sign-in service (authService.ts).  Issues and verifications run   *)
(* in several instances and interleave between their Redis commands.        *)
(***************************************************************************)

CONSTANTS
  Verifiers,    \* verifications that may be under way at once
  MaxCodes      \* codes in a behaviour

ASSUME CodesAssumption == MaxCodes \in Nat

VARIABLES
  service,      \* the service looked at: otpService or authService
  storedCode,   \* the code in Redis, numbered by its issue; 0: none
  issuing,      \* an issue that has the cooldown and not yet stored its code
  cooldown,     \* is the resend cooldown set?
  issued,       \* how many codes have been stored
  attempts,     \* the attempt counter
  lockout,      \* is the phone locked out?
  deadCodes,    \* codes stored before the last lockout
  verifying,    \* where each verification stands
  holds,        \* the code each has read
  input,        \* the code each was given; 0: a wrong one
  uses          \* how often each code has been accepted

codesVars == <<service, storedCode, issuing, cooldown, issued, attempts, lockout, deadCodes,
               verifying, holds, input, uses>>

Codes == 1 .. MaxCodes

CodesTypeOK ==
  /\ service \in {"phone", "address"}
  /\ storedCode \in 0 .. MaxCodes /\ issued \in 0 .. MaxCodes
  /\ issuing \in BOOLEAN /\ cooldown \in BOOLEAN
  /\ attempts \in Nat
  /\ lockout \in BOOLEAN /\ deadCodes \in 0 .. MaxCodes
  /\ verifying \in [Verifiers -> {"idle", "fetch", "compare", "locking", "clear"}]
  /\ holds \in [Verifiers -> 0 .. MaxCodes] /\ input \in [Verifiers -> 0 .. MaxCodes]
  /\ uses \in [Codes -> Nat]

CodesInit ==
  /\ service \in {"phone", "address"}
  /\ storedCode = 0 /\ issued = 0 /\ issuing = FALSE /\ cooldown = FALSE /\ attempts = 0
  /\ lockout = FALSE /\ deadCodes = 0
  /\ verifying = [v \in Verifiers |-> "idle"]
  /\ holds = [v \in Verifiers |-> 0] /\ input = [v \in Verifiers |-> 0]
  /\ uses = [c \in Codes |-> 0]

\* MAX_ATTEMPTS, OTP_MAX_ATTEMPTS
AttemptLimit == IF service = "phone" THEN 3 ELSE 5

issueVars == <<service, issuing, cooldown, issued>>
verifyVars == <<verifying, holds, input, uses>>

\* SET NX of the cooldown; the phone service looks at the lockout first.
BeginIssue ==
  /\ service = "phone" => ~lockout
  /\ ~cooldown /\ ~issuing /\ issued < MaxCodes
  /\ cooldown' = TRUE
  /\ issuing' = TRUE
  /\ UNCHANGED <<service, storedCode, issued, attempts, lockout, deadCodes>>
  /\ UNCHANGED verifyVars

StoreCode ==
  /\ issuing /\ issuing' = FALSE
  /\ issued' = issued + 1
  /\ storedCode' = issued'
  /\ attempts' = 0
  /\ UNCHANGED <<service, cooldown, lockout, deadCodes>> /\ UNCHANGED verifyVars

Turn(v, p) == verifying' = [verifying EXCEPT ![v] = p]

BeginPhone(v, c) ==
  /\ service = "phone" /\ verifying[v] = "idle" /\ ~lockout
  /\ input' = [input EXCEPT ![v] = c] /\ Turn(v, "fetch")
  /\ UNCHANGED <<storedCode, attempts, lockout, deadCodes, holds, uses>>
  /\ UNCHANGED issueVars

\* The sign-in service counts the attempt before it reads the code.
BeginAddress(v, c) ==
  /\ service = "address" /\ verifying[v] = "idle"
  /\ attempts <= AttemptLimit
  /\ attempts' = attempts + 1
  /\ input' = [input EXCEPT ![v] = c]
  /\ Turn(v, IF attempts' > AttemptLimit THEN "idle" ELSE "fetch")
  /\ UNCHANGED <<storedCode, lockout, deadCodes, holds, uses>> /\ UNCHANGED issueVars

FetchCode(v) ==
  /\ verifying[v] = "fetch"
  /\ holds' = [holds EXCEPT ![v] = storedCode]
  /\ Turn(v, IF holds'[v] = 0 THEN "idle" ELSE "compare")
  /\ UNCHANGED <<storedCode, attempts, lockout, deadCodes, input, uses>>
  /\ UNCHANGED issueVars

Mismatch(v) ==
  /\ verifying[v] = "compare" /\ input[v] # holds[v]
  /\ IF service = "phone"
     THEN /\ attempts' = attempts + 1
          /\ Turn(v, IF attempts' >= AttemptLimit THEN "locking" ELSE "idle")
     ELSE Turn(v, "idle") /\ UNCHANGED attempts
  /\ UNCHANGED <<storedCode, lockout, deadCodes, holds, input, uses>>
  /\ UNCHANGED issueVars

CodeAfterLock == 0

LockOut(v) ==
  /\ verifying[v] = "locking" /\ Turn(v, "idle")
  /\ storedCode' = CodeAfterLock
  /\ attempts' = 0
  /\ lockout' = TRUE /\ deadCodes' = issued
  /\ UNCHANGED <<holds, input, uses>> /\ UNCHANGED issueVars

\* Mutant of Consumes: the code is deleted without a comparison.
ConsumesAnyway(v) == TRUE
Consumes(v) == storedCode = holds[v]

\* consumeOTP: GET, comparison and DEL in one script.
ConsumeCode(v) ==
  /\ verifying[v] = "compare" /\ input[v] = holds[v]
  /\ IF Consumes(v)
     THEN /\ storedCode' = 0
          /\ uses' = [uses EXCEPT ![holds[v]] = @ + 1]
          /\ Turn(v, "clear")
     ELSE Turn(v, "idle") /\ UNCHANGED <<storedCode, uses>>
  /\ UNCHANGED <<attempts, lockout, deadCodes, holds, input>> /\ UNCHANGED issueVars

ClearAttempts(v) ==
  /\ verifying[v] = "clear" /\ Turn(v, "idle")
  /\ attempts' = 0
  /\ UNCHANGED <<storedCode, lockout, deadCodes, holds, input, uses>>
  /\ UNCHANGED issueVars

\* Times to live.
CodeKeysExpire ==
  /\ \/ /\ storedCode # 0 /\ storedCode' = 0
        /\ UNCHANGED <<cooldown, attempts, lockout>>
     \/ /\ cooldown /\ cooldown' = FALSE
        /\ UNCHANGED <<storedCode, attempts, lockout>>
     \/ /\ attempts > 0 /\ attempts' = 0
        /\ UNCHANGED <<storedCode, cooldown, lockout>>
     \/ /\ lockout /\ lockout' = FALSE
        /\ UNCHANGED <<storedCode, cooldown, attempts>>
  /\ UNCHANGED <<service, issuing, issued, deadCodes>> /\ UNCHANGED verifyVars

CodesNext ==
  \/ BeginIssue \/ StoreCode \/ CodeKeysExpire
  \/ \E v \in Verifiers :
       \/ \E c \in 0 .. issued : BeginPhone(v, c) \/ BeginAddress(v, c)
       \/ FetchCode(v) \/ Mismatch(v) \/ LockOut(v) \/ ConsumeCode(v) \/ ClearAttempts(v)

CodesSpec == CodesInit /\ [][CodesNext]_codesVars

(***************************************************************************)
(* A code is accepted once, by however many instances it is being verified, *)
(* and although it is reissued, locked out or expires in between.           *)
(***************************************************************************)
UsedOnce == \A c \in Codes : uses[c] <= 1

(***************************************************************************)
(* A lockout kills the codes sent before it, for the verifications that had *)
(* read one already as for those after.                                     *)
(***************************************************************************)
LockedCodesAreDead ==
  [][\A c \in Codes : uses'[c] > uses[c] => c > deadCodes]_codesVars

-----------------------------------------------------------------------------
(***************************************************************************)
(* Signing in with Stellar (agent/src/authService.ts, authRouter.ts), for   *)
(* one address: keys of other addresses are others.  A challenge stores a   *)
(* nonce; a verification consumes it and stores the refresh token it issues;*)
(* a refresh reads, deletes and replaces a refresh token in three steps.  A *)
(* token is known by the second it was issued in, as two tokens of one      *)
(* second are the same string.  Access tokens and roles are left out.       *)
(***************************************************************************)

CONSTANTS
  Requests,              \* requests that may be under way
  MaxNonces, MaxSeconds  \* bounds of the runs

ASSUME SignInAssumption ==
  MaxNonces \in Nat /\ MaxSeconds \in Nat \ {0} /\ IsFiniteSet(Requests)

VARIABLES
  nonceKey,     \* Redis: the nonce of the address, 0 for none
  nonces,       \* challenges issued
  request,
  refreshKeys,  \* Redis: refresh tokens that may be used
  handedOut,    \* tokens a client has been sent
  second,
  accepted,     \* verifications each nonce has been accepted for
  overlapped    \* whether two requests have used one refresh token at once

signInVars == <<nonceKey, nonces, request, refreshKeys, handedOut, second, accepted, overlapped>>
signedIn == <<refreshKeys, handedOut, overlapped>>

Seconds == 1 .. MaxSeconds
IdleRequest == [at |-> "idle", nonce |-> 0, valid |-> FALSE, token |-> 0]

SignInTypeOK ==
  /\ nonceKey \in 0 .. MaxNonces /\ nonces \in 0 .. MaxNonces
  /\ request \in [Requests -> [at : {"idle", "consuming", "checking", "issuing", "reading",
                                     "deleting", "storing"},
                               nonce : 0 .. MaxNonces, valid : BOOLEAN,
                               token : {0} \cup Seconds]]
  /\ refreshKeys \subseteq Seconds /\ handedOut \subseteq Seconds
  /\ second \in Seconds
  /\ accepted \in [1 .. MaxNonces -> Nat]
  /\ overlapped \in BOOLEAN

SignInInit ==
  /\ nonceKey = 0 /\ nonces = 0 /\ second = 1
  /\ request = [r \in Requests |-> IdleRequest]
  /\ refreshKeys = {} /\ handedOut = {}
  /\ accepted = [n \in 1 .. MaxNonces |-> 0] /\ overlapped = FALSE

Goes(r, to) == request' = [request EXCEPT ![r].at = to]
\* 401, or 503 when Redis fails
Denied(r) == request' = [request EXCEPT ![r] = IdleRequest]

-----------------------------------------------------------------------------
(* GET /api/auth/challenge and POST /api/auth/verify. *)

\* issueNonce takes the place of the nonce that was there.
IssueChallenge ==
  /\ nonces < MaxNonces /\ nonces' = nonces + 1 /\ nonceKey' = nonces'
  /\ UNCHANGED <<request, second, accepted>> /\ UNCHANGED signedIn

NonceExpires ==
  /\ nonceKey # 0 /\ nonceKey' = 0
  /\ UNCHANGED <<nonces, request, second, accepted>> /\ UNCHANGED signedIn

BeginVerify(r) ==
  /\ request[r].at = "idle"
  /\ \E n \in 1 .. nonces, valid \in BOOLEAN :
       request' = [request EXCEPT ![r] =
                     [IdleRequest EXCEPT !.at = "consuming", !.nonce = n, !.valid = valid]]
  /\ UNCHANGED <<nonceKey, nonces, second, accepted>> /\ UNCHANGED signedIn

\* consumeNonce: one script reads and deletes, whether or not the nonce matches.
Consumed(r) == nonceKey' = 0

ConsumeNonce(r) ==
  /\ request[r].at = "consuming"
  /\ IF nonceKey = request[r].nonce THEN Goes(r, "checking") ELSE Denied(r)
  /\ Consumed(r)
  /\ UNCHANGED <<nonces, second, accepted>> /\ UNCHANGED signedIn

\* verifyStellarSignature, issueTokenPair
CheckSignature(r) ==
  /\ request[r].at = "checking"
  /\ IF request[r].valid
       THEN /\ request' = [request EXCEPT ![r].at = "issuing", ![r].token = second]
            /\ accepted' = [accepted EXCEPT ![request[r].nonce] = @ + 1]
       ELSE Denied(r) /\ UNCHANGED accepted
  /\ UNCHANGED <<nonceKey, nonces, second>> /\ UNCHANGED signedIn

-----------------------------------------------------------------------------
(* POST /api/auth/refresh: rotateRefreshToken. *)

Using(t) == {r \in Requests : request[r].at \in {"reading", "deleting"} /\ request[r].token = t}

BeginRefresh(r) ==
  /\ request[r].at = "idle"
  /\ \E t \in handedOut :
       /\ request' = [request EXCEPT ![r] = [IdleRequest EXCEPT !.at = "reading", !.token = t]]
       /\ overlapped' = (overlapped \/ Using(t) # {})
  /\ UNCHANGED <<nonceKey, nonces, refreshKeys, handedOut, second, accepted>>

ReadToken(r) ==
  /\ request[r].at = "reading"
  /\ IF request[r].token \in refreshKeys THEN Goes(r, "deleting") ELSE Denied(r)
  /\ UNCHANGED <<nonceKey, nonces, second, accepted>> /\ UNCHANGED signedIn

Invalidated(t) == refreshKeys \ {t}

\* The old token is deleted, and a new pair made, of this second.
DeleteToken(r) ==
  /\ request[r].at = "deleting"
  /\ refreshKeys' = Invalidated(request[r].token)
  /\ request' = [request EXCEPT ![r].at = "storing", ![r].token = second]
  /\ UNCHANGED <<nonceKey, nonces, handedOut, second, accepted, overlapped>>

\* storeRefreshToken, for a verification as for a refresh, and the answer
StoreToken(r) ==
  /\ request[r].at \in {"issuing", "storing"}
  /\ refreshKeys' = refreshKeys \cup {request[r].token}
  /\ handedOut' = handedOut \cup {request[r].token}
  /\ Denied(r)
  /\ UNCHANGED <<nonceKey, nonces, second, accepted, overlapped>>

\* Redis fails; what the steps before have done stays.
RequestFails(r) ==
  /\ request[r].at \notin {"idle", "checking"} /\ Denied(r)
  /\ UNCHANGED <<nonceKey, nonces, second, accepted>> /\ UNCHANGED signedIn

SecondPasses ==
  /\ second < MaxSeconds /\ second' = second + 1
  /\ UNCHANGED <<nonceKey, nonces, request, accepted>> /\ UNCHANGED signedIn

TokenExpires ==
  /\ \E t \in refreshKeys : refreshKeys' = refreshKeys \ {t}
  /\ UNCHANGED <<nonceKey, nonces, request, handedOut, second, accepted, overlapped>>

SignInNext ==
  \/ IssueChallenge \/ NonceExpires \/ SecondPasses \/ TokenExpires
  \/ \E r \in Requests :
       \/ BeginVerify(r) \/ ConsumeNonce(r) \/ CheckSignature(r)
       \/ BeginRefresh(r) \/ ReadToken(r) \/ DeleteToken(r) \/ StoreToken(r)
       \/ RequestFails(r)

SignInSpec == SignInInit /\ [][SignInNext]_signInVars

-----------------------------------------------------------------------------
(* Properties. *)

(***************************************************************************)
(* "Single-use": of the verifications that race with one nonce, at most one *)
(* is accepted.                                                             *)
(***************************************************************************)
NonceOnce == \A n \in 1 .. MaxNonces : accepted[n] <= 1

SignIns == Cardinality({n \in 1 .. MaxNonces : accepted[n] > 0})

(***************************************************************************)
(* A rotation replaces a session and never adds one: unless two requests    *)
(* have used one refresh token at once, there are no more refresh tokens in *)
(* use, or about to be stored, than there were sign-ins.                    *)
(***************************************************************************)
SessionsAreSignIns ==
  ~overlapped =>
    Cardinality(refreshKeys)
      + Cardinality({r \in Requests : request[r].at \in {"issuing", "storing"}}) <= SignIns

(***************************************************************************)
(* Codes, nonces and refresh tokens are good for one use, and those of a    *)
(* locked phone for none.                                                   *)
(***************************************************************************)
CredentialsOnce ==
  /\ [](CodesTypeOK /\ UsedOnce)
  /\ LockedCodesAreDead
  /\ [](SignInTypeOK /\ NonceOnce /\ SessionsAreSignIns)
================================================================================

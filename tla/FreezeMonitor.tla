----------------------------- MODULE FreezeMonitor -----------------------------
(***************************************************************************)
(* The monitor of the USDC issuer (issuerFreezeMonitor.ts) with the         *)
(* background work that stops it (backgroundWork.ts).  A timer starts a     *)
(* check whether or not the last one has its answer.                        *)
(***************************************************************************)
EXTENDS Integers, FiniteSets

CONSTANTS
  FlagChecks,    \* checks that may be under way at once
  MaxFlips,      \* changes of the issuer's flags in a behaviour
  MaxFreezeMisses      \* failed requests and failed pauses

ASSUME MonitorAssumption == MaxFlips \in Nat /\ MaxFreezeMisses \in Nat

VARIABLES
  frozen,        \* isFreezeActive of the issuer's flags now
  freezeActive,
  flagCheck,     \* where each check stands
  flags,        \* the flags a check has been sent
  vaultPaused,
  response,      \* the response since a check was last told of no freeze
  lifted,        \* has a check cleared freezeActive?
  accepting,     \* BackgroundWork
  drained,       \* has drain returned that nothing is in flight?
  flips, freezeMisses

freezeVars == <<frozen, freezeActive, flagCheck, flags, vaultPaused, response, lifted,
                accepting, drained, flips, freezeMisses>>

FreezeTypeOK ==
  /\ frozen \in BOOLEAN /\ freezeActive \in BOOLEAN
  /\ flagCheck \in [FlagChecks -> {"idle", "asking", "pausing", "alerting"}]
  /\ flags \in [FlagChecks -> BOOLEAN]
  /\ vaultPaused \in BOOLEAN /\ lifted \in BOOLEAN
  /\ response \in {"none", "thrown", "alerted"}
  /\ accepting \in BOOLEAN /\ drained \in BOOLEAN
  /\ flips \in 0 .. MaxFlips /\ freezeMisses \in 0 .. MaxFreezeMisses

FreezeInit ==
  /\ frozen = FALSE /\ freezeActive = FALSE
  /\ flagCheck = [c \in FlagChecks |-> "idle"] /\ flags = [c \in FlagChecks |-> FALSE]
  /\ vaultPaused = FALSE /\ response = "none" /\ lifted = FALSE
  /\ accepting = TRUE /\ drained = FALSE /\ flips = 0 /\ freezeMisses = 0

CheckGoes(c, from, to) ==
  /\ flagCheck[c] = from /\ flagCheck' = [flagCheck EXCEPT ![c] = to]
work == <<accepting, drained>>

\* BackgroundWork.run refuses once it has stopped accepting.
BeginCheck(c) ==
  /\ accepting /\ CheckGoes(c, "idle", "asking")
  /\ flags' = [flags EXCEPT ![c] = frozen]
  /\ UNCHANGED <<frozen, freezeActive, vaultPaused, response, lifted, flips, freezeMisses>>
  /\ UNCHANGED work

Miss == freezeMisses < MaxFreezeMisses /\ freezeMisses' = freezeMisses + 1

AskFails(c) ==
  /\ CheckGoes(c, "asking", "idle") /\ Miss
  /\ UNCHANGED <<frozen, freezeActive, flags, vaultPaused, response, lifted, flips>>
  /\ UNCHANGED work

Detects(c) == flags[c] /\ ~freezeActive
\* Mutant of Lifts: the flag of the freeze is never taken back.
NeverLifts(c) == FALSE
Lifts(c) == ~flags[c] /\ freezeActive

DetectFreeze(c) ==
  /\ Detects(c) /\ CheckGoes(c, "asking", "pausing")
  /\ freezeActive' = TRUE
  /\ UNCHANGED <<frozen, flags, vaultPaused, response, lifted, flips, freezeMisses>>
  /\ UNCHANGED work

NothingNew(c) ==
  /\ ~Detects(c) /\ CheckGoes(c, "asking", "idle")
  /\ IF Lifts(c) THEN freezeActive' = FALSE /\ lifted' = TRUE
     ELSE UNCHANGED <<freezeActive, lifted>>
  /\ response' = IF flags[c] THEN response ELSE "none"
  /\ UNCHANGED <<frozen, flags, vaultPaused, flips, freezeMisses>> /\ UNCHANGED work

PauseVault(c) ==
  /\ CheckGoes(c, "pausing", "alerting") /\ vaultPaused' = TRUE
  /\ UNCHANGED <<frozen, freezeActive, flags, response, lifted, flips, freezeMisses>> /\ UNCHANGED work

\* The pause reports a failure: the alerts go out all the same.
PauseRefused(c) ==
  /\ CheckGoes(c, "pausing", "alerting") /\ Miss
  /\ UNCHANGED <<frozen, freezeActive, flags, vaultPaused, response, lifted, flips>>
  /\ UNCHANGED work

\* The pause throws: check's own catch ends the response.
PauseThrows(c) ==
  /\ CheckGoes(c, "pausing", "idle") /\ Miss /\ response' = "thrown"
  /\ UNCHANGED <<frozen, freezeActive, flags, vaultPaused, lifted, flips>>
  /\ UNCHANGED work

\* The snapshot, which may fail, and the alerts on every channel.
DispatchAlerts(c) ==
  /\ CheckGoes(c, "alerting", "idle") /\ response' = "alerted"
  /\ UNCHANGED <<frozen, freezeActive, flags, vaultPaused, lifted, flips, freezeMisses>>
  /\ UNCHANGED work

IssuerFlips ==
  /\ flips < MaxFlips /\ flips' = flips + 1
  /\ frozen' = ~frozen
  /\ UNCHANGED <<freezeActive, flagCheck, flags, vaultPaused, response, lifted, freezeMisses>>
  /\ UNCHANGED work

InFlight == {c \in FlagChecks : flagCheck[c] # "idle"}

StopAccepting ==
  /\ accepting /\ accepting' = FALSE
  /\ UNCHANGED <<frozen, freezeActive, flagCheck, flags, vaultPaused, response, lifted, drained,
                 flips, freezeMisses>>

\* drain returns TRUE when the set of tasks is empty.
DrainReturns == ~drained /\ InFlight = {}
Drain ==
  /\ ~accepting /\ DrainReturns /\ drained' = TRUE
  /\ UNCHANGED <<frozen, freezeActive, flagCheck, flags, vaultPaused, response, lifted, accepting,
                 flips, freezeMisses>>

CheckStep(c) ==
  BeginCheck(c) \/ DetectFreeze(c) \/ NothingNew(c) \/ PauseVault(c) \/ DispatchAlerts(c)

FreezeNext ==
  \/ IssuerFlips \/ StopAccepting \/ Drain
  \/ \E c \in FlagChecks : CheckStep(c) \/ AskFails(c) \/ PauseRefused(c) \/ PauseThrows(c)

FreezeFairness == \A c \in FlagChecks : WF_freezeVars(CheckStep(c))

FreezeSpec == FreezeInit /\ [][FreezeNext]_freezeVars /\ FreezeFairness

(***************************************************************************)
(* A freeze that lasts is answered: the owner is alerted, unless the pause  *)
(* threw or the process is stopping, and although an older answer of the    *)
(* issuer may arrive after a newer one.                                     *)
(***************************************************************************)
FreezeAnswered ==
  (frozen /\ response = "none") ~> (~frozen \/ response # "none" \/ ~accepting)

Responding == {c \in FlagChecks : flagCheck[c] \in {"pausing", "alerting"}}

(***************************************************************************)
(* Checks that overlap do not answer one freeze twice, as long as no answer *)
(* of the issuer has told the monitor that it is over.                      *)
(***************************************************************************)
OneResponse == Cardinality(Responding) > 1 => lifted

(***************************************************************************)
(* After drain has returned nothing pauses the vault or alerts any more.    *)
(***************************************************************************)
DrainedIsQuiet == drained => InFlight = {}
================================================================================

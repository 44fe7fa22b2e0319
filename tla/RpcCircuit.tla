------------------------------- MODULE RpcCircuit -------------------------------
(***************************************************************************)
(* The agent's client of Stellar RPC (agent/src/rpcClient.ts): a circuit   *)
(* breaker on the primary endpoint, and a fallback for calls that opt in.  *)
(* Calls overlap; each reads the breaker when it starts and writes it when *)
(* its answer arrives.                                                     *)
(***************************************************************************)
EXTENDS Naturals, FiniteSets

CONSTANTS
  RpcCalls,    \* calls of rpcCall that may be under way at once
  OptedIn      \* of these, the ones with retryOnFallback

ASSUME RpcAssumption == OptedIn \subseteq RpcCalls

VARIABLES
  circuit,       \* state of each endpoint's breaker
  failureTimes,  \* failures of each endpoint within FAILURE_WINDOW_MS
  waited,        \* have RESET_INTERVAL_MS passed since openedAt?
  rpcCall,       \* where each call stands
  tries          \* requests the call under way has made

rpcVars == <<circuit, failureTimes, waited, rpcCall, tries>>

Endpoints == {"primary", "fallback"}
FAILURE_THRESHOLD == 3

RpcTypeOK ==
  /\ circuit \in [Endpoints -> {"closed", "open", "half-open"}]
  /\ failureTimes \in [Endpoints -> Nat] /\ waited \in [Endpoints -> BOOLEAN]
  /\ rpcCall \in [RpcCalls -> Endpoints \cup {"idle"}]
  /\ tries \in [RpcCalls -> 0..2]

RpcInit ==
  /\ circuit = [e \in Endpoints |-> "closed"]
  /\ failureTimes = [e \in Endpoints |-> 0] /\ waited = [e \in Endpoints |-> FALSE]
  /\ rpcCall = [c \in RpcCalls |-> "idle"]
  /\ tries = [c \in RpcCalls |-> 0]

\* Mutant of IsAvailable: an open circuit stays open.
IsAvailableIfClosed(e) == circuit[e] # "open"
IsAvailable(e) == circuit[e] # "open" \/ waited[e]

Asks(c, e) == /\ rpcCall' = [rpcCall EXCEPT ![c] = e]
              /\ tries' = [tries EXCEPT ![c] = @ + 1]

CallPrimary(c) ==
  /\ rpcCall[c] = "idle" /\ IsAvailable("primary")
  /\ circuit' = [circuit EXCEPT !["primary"] = IF @ = "open" THEN "half-open" ELSE @]
  /\ Asks(c, "primary")
  /\ UNCHANGED <<failureTimes, waited>>

\* The circuit is open; a call that did not opt in throws at once.
CallFallback(c) ==
  /\ rpcCall[c] = "idle" /\ ~IsAvailable("primary") /\ c \in OptedIn
  /\ Asks(c, "fallback")
  /\ UNCHANGED <<circuit, failureTimes, waited>>

CallEnds(c) == /\ rpcCall' = [rpcCall EXCEPT ![c] = "idle"]
               /\ tries' = [tries EXCEPT ![c] = 0]

Forgets(e) == [failureTimes EXCEPT ![e] = 0]

\* recordSuccess
CallSucceeds(c) ==
  LET e == rpcCall[c] IN
  /\ e # "idle"
  /\ failureTimes' = Forgets(e)
  /\ circuit' = [circuit EXCEPT ![e] = "closed"]
  /\ waited' = [waited EXCEPT ![e] = FALSE]
  /\ CallEnds(c)

\* recordFailure opens a closed circuit only: one that is half-open stays so.
Opens(e) == failureTimes[e] + 1 >= FAILURE_THRESHOLD /\ circuit[e] = "closed"

Retries(c) == c \in OptedIn

\* The request, or the check of the network before it, fails.
CallFails(c) ==
  LET e == rpcCall[c] IN
  /\ e # "idle"
  /\ failureTimes' = [failureTimes EXCEPT ![e] = IF @ < FAILURE_THRESHOLD THEN @ + 1 ELSE @]
  /\ circuit' = IF Opens(e) THEN [circuit EXCEPT ![e] = "open"] ELSE circuit
  /\ waited' = IF Opens(e) THEN [waited EXCEPT ![e] = FALSE] ELSE waited
  /\ IF e = "primary" /\ Retries(c) THEN Asks(c, "fallback") ELSE CallEnds(c)

FailuresAge(e) ==
  /\ failureTimes[e] > 0
  /\ failureTimes' = [failureTimes EXCEPT ![e] = @ - 1]
  /\ UNCHANGED <<circuit, waited, rpcCall, tries>>

ResetIntervalPasses(e) ==
  /\ circuit[e] = "open" /\ ~waited[e]
  /\ waited' = [waited EXCEPT ![e] = TRUE]
  /\ UNCHANGED <<circuit, failureTimes, rpcCall, tries>>

StartCall(c) == CallPrimary(c) \/ CallFallback(c)
EndCall(c) == CallSucceeds(c) \/ CallFails(c)

RpcNext ==
  \/ \E c \in RpcCalls : StartCall(c) \/ EndCall(c)
  \/ \E e \in Endpoints : FailuresAge(e) \/ ResetIntervalPasses(e)

\* Requests settle, the clock runs, and the agent keeps calling.
RpcFairness ==
  /\ SF_rpcVars(\E c \in RpcCalls : CallPrimary(c))
  /\ \A c \in RpcCalls : WF_rpcVars(EndCall(c))
  /\ WF_rpcVars(ResetIntervalPasses("primary"))

RpcSpec == RpcInit /\ [][RpcNext]_rpcVars /\ RpcFairness

-----------------------------------------------------------------------------
(* Properties. *)

\* A call that did not opt in sends one request at most: a submission whose
\* fate is unknown is never sent to the fallback.
SubmissionsNotRetried == \A c \in RpcCalls \ OptedIn : tries[c] <= 1

\* A closed circuit has less than the threshold of recent failures, whatever
\* overlapping calls have recorded in between.
ClosedIsHealthy == \A e \in Endpoints : circuit[e] = "closed" => failureTimes[e] < FAILURE_THRESHOLD

\* The primary endpoint is tried again after its circuit has opened.
PrimaryTriedAgain == circuit["primary"] = "open" ~> circuit["primary"] # "open"

\* What no overlap of calls breaks: nothing submitted is repeated, closed is healthy.
RpcSafety == RpcTypeOK /\ SubmissionsNotRetried /\ ClosedIsHealthy

(***************************************************************************)
(* The client hides the loss of an endpoint: nothing that was submitted is  *)
(* sent again, a closed circuit is a healthy one, and the primary endpoint  *)
(* gets its turn again.                                                     *)
(***************************************************************************)
RpcServes == []RpcSafety /\ PrimaryTriedAgain
================================================================================

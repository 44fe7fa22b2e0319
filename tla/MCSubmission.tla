----------------------------- MODULE MCSubmission ------------------------------
(***************************************************************************)
(* How transactions reach the network.  The agent's queue, its lock on the *)
(* account's sequence number, its RPC client and the generated client of   *)
(* the vault share no state: one of them, chosen at the start, moves.      *)
(***************************************************************************)
EXTENDS TransactionQueue, AccountSequence, RpcCircuit, VaultClient, TLC

CONSTANTS r1, r2, r3, h1, h2, j1, j2

\* Two requests of one process and one of another.
ThreeOnTwo == r1 :> h1 @@ r2 :> h1 @@ r3 :> h2
\* One job of each kind.
OneEach == jobs[j1].kind = "payment" /\ jobs[j2].kind = "envelope"

VARIABLE part  \* the component that moves

Parts == {"queue", "sequence", "rpc", "client"}

Chosen(name) == part = name

suiteVars == <<part, queueVars, sequenceVars, rpcVars, clientVars>>

SuiteInit ==
  /\ part \in Parts
  /\ QueueInit /\ SequenceInit /\ RpcInit /\ ClientInit
  /\ OneEach

\* The chosen component takes its steps, the others none.
SuiteNext ==
  /\ UNCHANGED part
  /\ IF Chosen("queue") THEN QueueNext ELSE UNCHANGED queueVars
  /\ IF Chosen("sequence") THEN SequenceNext ELSE UNCHANGED sequenceVars
  /\ IF Chosen("rpc") THEN RpcNext ELSE UNCHANGED rpcVars
  /\ IF Chosen("client") THEN ClientNext ELSE UNCHANGED clientVars

SuiteSpec ==
  /\ SuiteInit /\ [][SuiteNext]_suiteVars
  /\ \A r \in Runs :
       /\ WF_queueVars(Chosen("queue") /\ StartRun(r))
       /\ WF_queueVars(Chosen("queue") /\ RunStep(r))
  /\ \A j \in Jobs :
       /\ WF_queueVars(Chosen("queue") /\ Promote(j))
       /\ WF_queueVars(Chosen("queue") /\ AddDeadLetter(j))
  /\ \A r \in Requests : WF_sequenceVars(Chosen("sequence") /\ Progress(r))
  /\ WF_sequenceVars(Chosen("sequence") /\ LeaseExpires)
  /\ SF_rpcVars(Chosen("rpc") /\ \E c \in RpcCalls : CallPrimary(c))
  /\ \A c \in RpcCalls : WF_rpcVars(Chosen("rpc") /\ EndCall(c))
  /\ WF_rpcVars(Chosen("rpc") /\ ResetIntervalPasses("primary"))
  /\ WF_clientVars(Chosen("client") /\ ClientTick)
  /\ \A i \in 1 .. MaxCalls : WF_clientVars(Chosen("client") /\ i \in DOMAIN calls /\ Poll(i))

\* Whatever was asked of the agent comes to an end: a queued job succeeds or fails for
\* good, one that failed reaches the dead letters, and a call for the account's sequence
\* number returns.
SubmissionsEnd == JobsEnd /\ DeadLetterArrives /\ CallsEnd
================================================================================

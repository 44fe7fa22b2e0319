----------------------------- MODULE MCInterfaces ------------------------------
(***************************************************************************)
(* Where the system meets its users and other chains.  The components share*)
(* no state: one of them, chosen at the start, moves.                      *)
(***************************************************************************)
EXTENDS VaultEvents, WhatsApp, Bridge, AdminPanel, DepositForm, TLC

CONSTANTS m1, m2, m3, m4, m5, a1, testnet

\* A conversation with a wrong code.
Conversation == m1 :> "hi" @@ m2 :> "code" @@ m3 :> "agree" @@ m4 :> "intent" @@ m5 :> "wrong code"

VARIABLE part  \* the component that moves

Parts == {"listener", "stream", "whatsapp", "bridge", "page", "deposit",
         "preview", "notices"}

Chosen(name) == part = name

suiteVars == <<part, listenerVars, streamVars, whatsappVars, bridgeVars, pageVars,
              depositVars, previewVars, noticeVars>>

SuiteInit ==
  /\ part \in Parts
  /\ ListenerInit /\ StreamInit /\ WhatsAppInit /\ BridgeInit
  /\ PageInit /\ (part # "page" => page = "upgrade" /\ network = testnet)
  /\ DepositInit /\ (part # "deposit" => userPublicKey = a1)
  /\ PreviewInit /\ (part # "preview" => formUser = Nobody)
  /\ NoticeInit /\ (part # "notices" => serviceWindow = 0 /\ noticePrefs.batchWindow = 0)

\* The chosen component takes its steps, the others none.
SuiteNext ==
  /\ UNCHANGED part
  /\ IF Chosen("listener") THEN ListenerNext ELSE UNCHANGED listenerVars
  /\ IF Chosen("stream") THEN StreamNext ELSE UNCHANGED streamVars
  /\ IF Chosen("whatsapp") THEN WhatsAppNext ELSE UNCHANGED whatsappVars
  /\ IF Chosen("bridge") THEN BridgeNext ELSE UNCHANGED bridgeVars
  /\ IF Chosen("page") THEN PageNext ELSE UNCHANGED pageVars
  /\ IF Chosen("deposit") THEN DepositNext ELSE UNCHANGED depositVars
  /\ IF Chosen("preview") THEN PreviewNext ELSE UNCHANGED previewVars
  /\ IF Chosen("notices") THEN NoticeNext ELSE UNCHANGED noticeVars

SuiteSpec ==
  /\ SuiteInit /\ [][SuiteNext]_suiteVars
  /\ \A p \in Polls : WF_listenerVars(Chosen("listener") /\ PollStep(p))
  /\ WF_listenerVars(Chosen("listener") /\ StartEventListener)
  /\ \A m \in Messages : WF_whatsappVars(Chosen("whatsapp") /\ WorkerStep(m))
  /\ \A m \in MonitorChecks : WF_bridgeVars(Chosen("bridge") /\ MonitorStep(m))
  /\ \A t \in Transfers : WF_bridgeVars(Chosen("bridge") /\ HalfHourPasses(t))
  /\ WF_depositVars(Chosen("deposit") /\ PollEnds)
  /\ \A t \in NoticeTypes : WF_noticeVars(Chosen("notices") /\ TimerFlushes(t))
  /\ WF_pageVars(Chosen("page") /\ PollLedger)
  /\ SF_pageVars(Chosen("page") /\ LedgerAnswers(LatestOf(network)))

\* What was taken in is worked off: events, acknowledged messages, transfers and notices.
WorkIsDone ==
  EventsWorkedOff /\ AcknowledgedIsWorkedOff /\ OpenRowsSettle /\ BucketsAreEmptied

\* What a screen shows follows what it polls: the ledger of the upgrade page and the
\* outcome of a deposit.
ScreensConverge ==
  /\ [](PageTypeOK) /\ (Chosen("page") => PageLedgerConverges)
  /\ PollsEnd
================================================================================

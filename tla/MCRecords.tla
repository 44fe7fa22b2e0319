------------------------------- MODULE MCRecords -------------------------------
(***************************************************************************)
(* Records, keys and copies that must stay right whatever happens.  The    *)
(* components share no state: one of them, chosen at the start, moves.     *)
(***************************************************************************)
EXTENDS YieldCheck, ServiceRecovery, Reconcile, Governance, Authentication, Custody,
  StateBackup, IntentParser, Dashboard, TLC

CONSTANTS blend, j1, j2, j3, e1, e2, k1, k2, h1, h2, p1, q1, NaN, Infinity

\* Two jobs with one idempotency key, and one with another.
TwoAlike == j1 :> e1 @@ j2 :> e1 @@ j3 :> e2

VARIABLE part  \* the component that moves

Parts == {"yield", "mix", "service", "reconcile", "governance", "codes", "signin",
         "custody", "backup", "llm", "confirm", "keys", "apy", "wizard",
         "realtime", "pause", "rates",
         "venue"}

Chosen(name) == part = name

suiteVars == <<part, yieldVars, mixVars, serviceVars, reconcileVars, governanceVars,
              codesVars, signInVars, custodyVars, backupVars, llmVars, confirmVars,
              rotationVars, apyVars, wizardVars, realtimeVars, pauseVars,
              apyCardVars, venueVars>>

SuiteInit ==
  /\ part \in Parts
  /\ YieldInit /\ (part # "yield" => deployed = blend)
  /\ MixInit /\ (part # "mix" => depositors = 3)
  /\ ServiceInit /\ malformed \subseteq {j3}
  /\ part # "service" => malformed = {} /\ \A j \in RecoveryJobs : status[j] = "queued"
  /\ GovernanceInit
  /\ part # "governance" => keys["owner"] = k1 /\ keys["agent"] = k2 /\ code = h1
  /\ CodesInit /\ (part # "codes" => service = "phone")
  /\ RealtimeInit /\ (part # "realtime" => rendered = p1)
  /\ ConfirmInit
  /\ part # "confirm" => details = NoDetails
                         /\ intent = [action |-> "get_apy", amount |-> NoAmount, withdrawAll |-> FALSE]
  /\ ApyInit /\ (part # "apy" => rates = <<q1>>)
  /\ PauseInit /\ ReconcileInit /\ SignInInit /\ CustodyInit /\ BackupInit /\ LlmInit /\ RotationInit
  /\ WizardInit /\ ApyCardInit /\ VenueInit /\ (part # "venue" => venueLog = <<0>>)

\* The chosen component takes its steps, the others none.
SuiteNext ==
  /\ UNCHANGED part
  /\ IF Chosen("yield") THEN YieldNext ELSE UNCHANGED yieldVars
  /\ IF Chosen("mix") THEN MixNext ELSE UNCHANGED mixVars
  /\ IF Chosen("service") THEN ServiceNext ELSE UNCHANGED serviceVars
  /\ IF Chosen("reconcile") THEN ReconcileNext ELSE UNCHANGED reconcileVars
  /\ IF Chosen("governance") THEN GovernanceNext ELSE UNCHANGED governanceVars
  /\ IF Chosen("codes") THEN CodesNext ELSE UNCHANGED codesVars
  /\ IF Chosen("signin") THEN SignInNext ELSE UNCHANGED signInVars
  /\ IF Chosen("custody") THEN CustodyNext ELSE UNCHANGED custodyVars
  /\ IF Chosen("backup") THEN BackupNext ELSE UNCHANGED backupVars
  /\ IF Chosen("llm") THEN LlmNext ELSE UNCHANGED llmVars
  /\ IF Chosen("confirm") THEN ConfirmNext ELSE UNCHANGED confirmVars
  /\ IF Chosen("keys") THEN RotationNext ELSE UNCHANGED rotationVars
  /\ IF Chosen("apy") THEN ApyNext ELSE UNCHANGED apyVars
  /\ IF Chosen("wizard") THEN WizardNext ELSE UNCHANGED wizardVars
  /\ IF Chosen("realtime") THEN RealtimeNext ELSE UNCHANGED realtimeVars
  /\ IF Chosen("pause") THEN PauseNext ELSE UNCHANGED pauseVars
  /\ IF Chosen("rates") THEN ApyCardNext ELSE UNCHANGED apyCardVars
  /\ IF Chosen("venue") THEN VenueNext ELSE UNCHANGED venueVars

SuiteSpec == SuiteInit /\ [][SuiteNext]_suiteVars
================================================================================

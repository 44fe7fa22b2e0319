------------------------------ MODULE InterfacesProofs ------------------------------
(***************************************************************************)
(* What meets the users and other chains, for any number of messages,      *)
(* transfers and requests.                                                 *)
(***************************************************************************)
EXTENDS VaultEvents, Bridge, DepositForm, WhatsApp, Dashboard, FiniteSetTheorems,
        SequenceTheorems, WellFoundedInduction, TLAPS

-----------------------------------------------------------------------------
(* The balance of the deposit dialog (DepositForm.tsx). *)

\* A read that has not been cancelled is one for the account the dialog has.
ReadsAreTheUsers ==
  /\ balanceAsked \subseteq Nat \X FormUsers \X BOOLEAN
  /\ \A r \in balanceAsked : Heeds(r) => r[2] = formUser

PreviewInv == BalanceIsTheUsers /\ ReadsAreTheUsers /\ openings \in Nat

LEMMA CancelledAreNotHeeded ==
  ASSUME ReadsAreTheUsers
  PROVE  Cancelled \subseteq Nat \X FormUsers \X BOOLEAN /\ \A r \in Cancelled : ~Heeds(r)
  <1> SUFFICES ASSUME NEW c \in Cancelled
               PROVE  c \in Nat \X FormUsers \X BOOLEAN /\ ~Heeds(c)
    OBVIOUS
  <1>1. PICK r \in balanceAsked : c = <<r[1], r[2], TRUE>>
    BY DEF Cancelled
  <1>2. r[1] \in Nat /\ r[2] \in FormUsers
    BY DEF ReadsAreTheUsers
  <1>3. c[3] = TRUE
    BY <1>1
  <1> QED
    BY <1>1, <1>2, <1>3 DEF Heeds

\* What the effect of the balance leaves.
LEMMA LoadBalanceInv ==
  ASSUME PreviewInv, NEW open \in BOOLEAN, NEW u \in Connected, LoadBalance(open, u),
         formOpen' = open, formUser' = u
  PROVE  PreviewInv'
  <1> USE CancelledAreNotHeeded DEF PreviewInv
  <1>1. CASE open /\ u # Nobody
    <2> DEFINE r == <<openings', u, FALSE>>
    <2>1. /\ openings' = openings + 1 /\ balanceLoading' = TRUE
          /\ balanceAsked' = Cancelled \cup {r}
      BY <1>1 DEF LoadBalance
    <2>2. r \in Nat \X FormUsers \X BOOLEAN /\ r[2] = formUser'
      <3>1. openings' \in Nat /\ u \in FormUsers
        BY <1>1, <2>1 DEF Connected
      <3> QED
        BY <3>1
    <2>3. ReadsAreTheUsers'
      <3>1. balanceAsked' \subseteq Nat \X FormUsers \X BOOLEAN
        BY <2>1, <2>2
      <3>2. \A x \in balanceAsked' : Heeds(x) => x = r
        BY <2>1
      <3>3. \A x \in balanceAsked' : Heeds(x) => x[2] = formUser'
        BY <2>2, <3>2
      <3>4. (\A x \in balanceAsked : Heeds(x) => x[2] = formUser)'
        BY <3>3 DEF Heeds
      <3> QED
        BY <3>1, <3>4 DEF ReadsAreTheUsers
    <2>4. BalanceIsTheUsers'
      BY <2>1 DEF BalanceIsTheUsers
    <2> QED
      BY <2>1, <2>3, <2>4
  <1>2. CASE ~(open /\ u # Nobody)
    BY <1>2 DEF LoadBalance, ReadsAreTheUsers, BalanceIsTheUsers, Heeds
  <1> QED
    BY <1>1, <1>2

LEMMA PreviewInitInv == PreviewInit => PreviewInv
  <1> SUFFICES ASSUME PreviewInit PROVE PreviewInv
    OBVIOUS
  <1>1. ~formOpen /\ balanceAsked = {} /\ openings = 0
    BY DEF PreviewInit
  <1> QED
    BY <1>1 DEF PreviewInv, BalanceIsTheUsers, ReadsAreTheUsers

LEMMA PreviewStepInv ==
  ASSUME PreviewInv, formUser \in Connected, formOpen \in BOOLEAN, [PreviewNext]_previewVars
  PROVE  PreviewInv'
  <1> USE DEF PreviewInv
  <1>1. CASE OpenForm
    BY <1>1, LoadBalanceInv DEF OpenForm
  <1>2. CASE CloseForm
    BY <1>2, LoadBalanceInv DEF CloseForm
  <1>3. CASE FormUserChanges
    <2>1. PICK u \in Connected \ {formUser} : formUser' = u /\ LoadBalance(formOpen, u)
      BY <1>3 DEF FormUserChanges
    <2>2. formOpen' = formOpen
      BY <1>3 DEF FormUserChanges
    <2> QED
      BY <2>1, <2>2, LoadBalanceInv
  <1>4. CASE BalanceAnswers
    <2>1. PICK r \in balanceAsked :
            /\ balanceAsked' = balanceAsked \ {r}
            /\ balanceOf' = IF Heeds(r) THEN r[2] ELSE balanceOf
            /\ balanceLoading' = IF Heeds(r) THEN FALSE ELSE balanceLoading
      BY <1>4 DEF BalanceAnswers
    <2>2. UNCHANGED <<formOpen, formUser, openings>>
      BY <1>4 DEF BalanceAnswers
    <2> QED
      BY <2>1, <2>2 DEF ReadsAreTheUsers, BalanceIsTheUsers, Heeds
  <1>5. CASE UNCHANGED <<formOpen, formUser, balanceOf, balanceAsked, balanceLoading, openings>>
    BY <1>5 DEF ReadsAreTheUsers, BalanceIsTheUsers, Heeds
  <1> QED
    BY <1>1, <1>2, <1>3, <1>4, <1>5
    DEF PreviewNext, previewVars, balances, EnterAmount, FillMax, AmountBecomes, ShowModal,
        CancelModal, AskEstimate, EstimateAnswers

\* The balance the dialog shows, and that MAX fills in, is the connected account's,
\* in whatever order any number of reads are answered.
THEOREM BalanceOfTheUser == PreviewSpec => []BalanceIsTheUsers
  <1> DEFINE Typed == formUser \in Connected /\ formOpen \in BOOLEAN
             Inv == PreviewInv /\ Typed
  <1>1. PreviewInit => Inv
    BY PreviewInitInv DEF PreviewInit
  <1>2. Inv /\ [PreviewNext]_previewVars => Inv'
    <2>1. Typed /\ [PreviewNext]_previewVars => Typed'
      BY DEF PreviewNext, previewVars, OpenForm, CloseForm, EnterAmount, FillMax, AmountBecomes,
             ShowModal, CancelModal, FormUserChanges, BalanceAnswers, AskEstimate, EstimateAnswers
    <2> QED
      BY <2>1, PreviewStepInv
  <1>3. Inv => BalanceIsTheUsers
    BY DEF PreviewInv
  <1> QED
    BY <1>1, <1>2, <1>3, PTL DEF PreviewSpec

\* An estimate that is under way alone, and no change since it was asked for, is of
\* what the dialog has; so is the one at rest.
CurrentEstimate == EstimateFor(formUser, formAmount)
EstimateFollows ==
  ~estimateDue /\ ~raced =>
    \/ askedEstimates = {} /\ estimate \in {NoEstimate, CurrentEstimate}
    \/ \E q \in askedEstimates : askedEstimates = {q} /\ q[2] = CurrentEstimate

Estimates == [user : FormUsers, amount : FormAmounts]

LEMMA EstimateStepInv ==
  ASSUME PreviewTypeOK, EstimateFollows, [PreviewNext]_previewVars
  PROVE  EstimateFollows'
  <1> USE DEF PreviewTypeOK
  <1>1. CASE OpenForm
    BY <1>1 DEF OpenForm, estimates, EstimateFollows, CurrentEstimate, EstimateFor
  <1>2. CASE CloseForm
    <2>1. /\ formAmount' = 0 /\ estimate' = NoEstimate /\ estimateDue' = (estimateDue \/ formAmount # 0)
          /\ UNCHANGED <<formUser, askedEstimates, raced>>
      BY <1>2 DEF CloseForm, estimates
    <2> QED
      BY <2>1 DEF EstimateFollows, CurrentEstimate, EstimateFor
  <1>3. ASSUME NEW n \in {0} \cup FormAmounts, AmountBecomes(n) PROVE EstimateFollows'
    <2>1. /\ formAmount' = n /\ estimateDue' = (estimateDue \/ n # formAmount)
          /\ UNCHANGED <<formUser, estimate, askedEstimates, raced>>
      BY <1>3 DEF AmountBecomes, estimates
    <2> QED
      BY <2>1 DEF EstimateFollows, CurrentEstimate, EstimateFor
  <1>4. CASE FormUserChanges
    <2>1. estimateDue'
      BY <1>4 DEF FormUserChanges, AsksAgain
    <2> QED
      BY <2>1 DEF EstimateFollows
  <1>5. CASE BalanceAnswers
    BY <1>5 DEF BalanceAnswers, estimates, EstimateFollows, CurrentEstimate, EstimateFor
  <1>6. CASE AskEstimate
    <2>1. /\ estimateDue' = FALSE /\ raced' = (raced \/ askedEstimates # {})
          /\ UNCHANGED <<formUser, formAmount>>
      BY <1>6 DEF AskEstimate
    <2>2. CASE formAmount = 0 \/ formUser = Nobody
      <3>1. estimate' = NoEstimate /\ askedEstimates' = askedEstimates
        BY <1>6, <2>2 DEF AskEstimate
      <3> QED
        BY <2>1, <3>1 DEF EstimateFollows
    <2>3. CASE ~(formAmount = 0 \/ formUser = Nobody)
      <3>1. askedEstimates' = askedEstimates \cup {<<asks', CurrentEstimate>>}
        BY <1>6, <2>3 DEF AskEstimate, CurrentEstimate
      <3>2. CurrentEstimate' = CurrentEstimate
        BY <2>1 DEF CurrentEstimate, EstimateFor
      <3> DEFINE q == <<asks', CurrentEstimate>>
      <3> SUFFICES ASSUME ~raced'
                   PROVE  askedEstimates' = {q} /\ q[2] = CurrentEstimate
        BY <3>2 DEF EstimateFollows
      <3> QED
        BY <2>1, <3>1
    <2> QED
      BY <2>2, <2>3
  <1>7. CASE EstimateAnswers
    <2>1. PICK q \in askedEstimates : askedEstimates' = askedEstimates \ {q} /\ estimate' \in {q[2], NoEstimate}
      BY <1>7 DEF EstimateAnswers
    <2>2. UNCHANGED <<formUser, formAmount, estimateDue, raced>>
      BY <1>7 DEF EstimateAnswers
    <2> QED
      BY <2>1, <2>2 DEF EstimateFollows, CurrentEstimate, EstimateFor
  <1>8. CASE ShowModal \/ CancelModal \/ UNCHANGED previewVars
    BY <1>8 DEF ShowModal, CancelModal, previewVars, estimates, EstimateFollows, CurrentEstimate, EstimateFor
  <1> QED
    BY <1>1, <1>2, <1>3, <1>4, <1>5, <1>6, <1>7, <1>8 DEF PreviewNext, EnterAmount, FillMax

LEMMA LoadBalanceType ==
  ASSUME PreviewTypeOK, NEW open \in BOOLEAN, NEW u \in Connected, LoadBalance(open, u)
  PROVE  /\ openings' \in 0 .. MaxOpenings /\ balanceLoading' \in BOOLEAN
         /\ balanceAsked' \subseteq (1 .. MaxOpenings) \X FormUsers \X BOOLEAN
  <1>1. Cancelled \subseteq (1 .. MaxOpenings) \X FormUsers \X BOOLEAN
    <2> SUFFICES ASSUME NEW c \in Cancelled PROVE c \in (1 .. MaxOpenings) \X FormUsers \X BOOLEAN
      OBVIOUS
    <2>1. PICK r \in balanceAsked : c = <<r[1], r[2], TRUE>>
      BY DEF Cancelled
    <2>2. r[1] \in 1 .. MaxOpenings /\ r[2] \in FormUsers
      BY DEF PreviewTypeOK
    <2> QED
      BY <2>1, <2>2
  <1>2. CASE open /\ u # Nobody
    <2>1. /\ openings < MaxOpenings /\ openings' = openings + 1 /\ balanceLoading' = TRUE
          /\ balanceAsked' = Cancelled \cup {<<openings', u, FALSE>>}
      BY <1>2 DEF LoadBalance
    <2>2. openings' \in 1 .. MaxOpenings /\ openings' \in 0 .. MaxOpenings /\ u \in FormUsers
      BY <1>2, <2>1, PreviewAssumption DEF PreviewTypeOK, Connected
    <2>3. <<openings', u, FALSE>> \in (1 .. MaxOpenings) \X FormUsers \X BOOLEAN
      BY <2>2
    <2> QED
      BY <1>1, <2>1, <2>2, <2>3
  <1>3. CASE ~(open /\ u # Nobody)
    BY <1>1, <1>3 DEF LoadBalance, PreviewTypeOK
  <1> QED
    BY <1>2, <1>3

LEMMA PreviewStepType ==
  ASSUME PreviewTypeOK, [PreviewNext]_previewVars
  PROVE  PreviewTypeOK'
  <1>1. CASE OpenForm
    <2>1. LoadBalance(TRUE, formUser) /\ formUser \in Connected
      BY <1>1 DEF OpenForm, PreviewTypeOK
    <2> QED
      BY <1>1, <2>1, LoadBalanceType DEF OpenForm, estimates, PreviewTypeOK
  <1>2. CASE CloseForm
    <2>1. LoadBalance(FALSE, formUser) /\ formUser \in Connected
      BY <1>2 DEF CloseForm, PreviewTypeOK
    <2> QED
      BY <1>2, <2>1, LoadBalanceType DEF CloseForm, estimates, PreviewTypeOK
  <1>3. ASSUME NEW n \in {0} \cup FormAmounts, AmountBecomes(n) PROVE PreviewTypeOK'
    BY <1>3 DEF AmountBecomes, estimates, balances, PreviewTypeOK
  <1>4. CASE FormUserChanges
    <2>1. PICK u \in Connected \ {formUser} : formUser' = u /\ LoadBalance(formOpen, u)
      BY <1>4 DEF FormUserChanges
    <2>2. formOpen \in BOOLEAN
      BY DEF PreviewTypeOK
    <2> QED
      BY <1>4, <2>1, <2>2, LoadBalanceType DEF FormUserChanges, AsksAgain, estimates, PreviewTypeOK
  <1>5. CASE BalanceAnswers
    <2>1. PICK r \in balanceAsked :
            /\ balanceAsked' = balanceAsked \ {r}
            /\ balanceOf' = IF Heeds(r) THEN r[2] ELSE balanceOf
            /\ balanceLoading' = IF Heeds(r) THEN FALSE ELSE balanceLoading
      BY <1>5 DEF BalanceAnswers
    <2>2. r[2] \in Connected
      BY DEF PreviewTypeOK, Connected
    <2> QED
      BY <1>5, <2>1, <2>2 DEF BalanceAnswers, estimates, PreviewTypeOK
  <1>6. CASE AskEstimate
    <2>1. /\ estimateDue' = FALSE /\ raced' = (raced \/ askedEstimates # {})
          /\ UNCHANGED <<formOpen, formUser, formAmount, modalShown>> /\ UNCHANGED balances
      BY <1>6 DEF AskEstimate
    <2>2. CASE formAmount = 0 \/ formUser = Nobody
      BY <1>6, <2>1, <2>2 DEF AskEstimate, balances, PreviewTypeOK
    <2>3. CASE ~(formAmount = 0 \/ formUser = Nobody)
      <3>1. /\ asks < MaxEstimates /\ asks' = asks + 1 /\ estimating' = TRUE /\ estimate' = estimate
            /\ askedEstimates' = askedEstimates \cup {<<asks', EstimateFor(formUser, formAmount)>>}
        BY <1>6, <2>3 DEF AskEstimate
      <3>2. asks' \in 1 .. MaxEstimates /\ asks' \in 0 .. MaxEstimates
        BY <3>1, PreviewAssumption DEF PreviewTypeOK
      <3>3. EstimateFor(formUser, formAmount) \in Estimates
        BY <2>3 DEF PreviewTypeOK, Connected, EstimateFor, Estimates
      <3>4. askedEstimates' \subseteq (1 .. MaxEstimates) \X Estimates
        BY <3>1, <3>2, <3>3 DEF PreviewTypeOK, Estimates
      <3> QED
        BY <2>1, <3>1, <3>2, <3>4 DEF balances, PreviewTypeOK, Estimates
    <2> QED
      BY <2>2, <2>3
  <1>7. CASE EstimateAnswers
    <2>1. PICK q \in askedEstimates : askedEstimates' = askedEstimates \ {q} /\ estimate' \in {q[2], NoEstimate}
      BY <1>7 DEF EstimateAnswers
    <2> QED
      BY <1>7, <2>1 DEF EstimateAnswers, balances, PreviewTypeOK
  <1>8. CASE ShowModal \/ CancelModal
    BY <1>8 DEF ShowModal, CancelModal, estimates, balances, PreviewTypeOK
  <1>9. CASE UNCHANGED previewVars
    BY <1>9 DEF previewVars, PreviewTypeOK
  <1> QED
    BY <1>1, <1>2, <1>3, <1>4, <1>5, <1>6, <1>7, <1>8, <1>9 DEF PreviewNext, EnterAmount, FillMax

\* The estimate at rest is of the account and the amount the dialog has, unless one was
\* asked for while another was under way.
THEOREM EstimateOfTheUser == PreviewSpec => [](PreviewTypeOK /\ RestingEstimateIsCurrent)
  <1> DEFINE Inv == PreviewTypeOK /\ EstimateFollows
  <1>1. PreviewInit => Inv
    <2> SUFFICES ASSUME PreviewInit PROVE Inv
      OBVIOUS
    <2>1. EstimateFollows
      BY DEF PreviewInit, EstimateFollows
    <2>2. asks \in 0 .. MaxEstimates /\ openings \in 0 .. MaxOpenings
      BY PreviewAssumption DEF PreviewInit
    <2>3. PreviewTypeOK
      BY <2>2 DEF PreviewInit, PreviewTypeOK, Connected
    <2> QED
      BY <2>1, <2>3
  <1>2. Inv /\ [PreviewNext]_previewVars => Inv'
    BY EstimateStepInv, PreviewStepType
  <1>3. Inv => PreviewTypeOK /\ RestingEstimateIsCurrent
    BY DEF EstimateFollows, RestingEstimateIsCurrent, CurrentEstimate
  <1> QED
    BY <1>1, <1>2, <1>3, PTL DEF PreviewSpec

-----------------------------------------------------------------------------
(* Transfers of the bridge (packages/bridge). *)

HasExecuted(t) == \E i \in DOMAIN axelar[t] : axelar[t][i] = "executed"

\* What is being polled for has a message, and what was confirmed an executed one.
HasMessage(t) == bridgeTxHash[t] > 0
StatusHasReason(status, t) ==
  /\ status = "confirming" => HasMessage(t)
  /\ status = "confirmed" => HasExecuted(t)

PollHasReason(m) ==
  LET poll == bridgePoll[m] IN
  /\ poll.of \notin Transfers => poll.status = "none"
  /\ poll.of \in Transfers => /\ poll.hash \in 1 .. Len(axelar[poll.of])
                              /\ StatusHasReason(poll.status, poll.of)

MessagesAreSent ==
  \A t \in Transfers : bridgeTxHash[t] <= Len(axelar[t]) /\ Len(axelar[t]) <= MaxMessages

BridgeInv ==
  /\ BridgeTypeOK /\ MessagesAreSent
  /\ \A t \in Transfers : StatusHasReason(transfer[t], t) /\ StatusHasReason(row[t], t)
  /\ \A t \in Transfers, m \in MonitorChecks : bridgeSeen[m][t] = "confirming" => HasMessage(t)
  /\ \A m \in MonitorChecks : PollHasReason(m)

\* No reason goes away.
ReasonsKept ==
  \A t \in Transfers : /\ Len(axelar'[t]) >= Len(axelar[t])
                       /\ HasExecuted(t) => HasExecuted(t)'
                       /\ HasMessage(t) => HasMessage(t)'

LEMMA SameReasons ==
  ASSUME BridgeInv, axelar' = axelar, bridgeTxHash' = bridgeTxHash
  PROVE  ReasonsKept /\ MessagesAreSent'
  <1>1. \A t \in Transfers : Len(axelar[t]) \in Nat
    BY DEF BridgeInv, BridgeTypeOK
  <1> QED
    BY <1>1 DEF ReasonsKept, HasExecuted, HasMessage, MessagesAreSent, BridgeInv

LEMMA PollsKeepReason ==
  ASSUME BridgeInv, ReasonsKept, bridgePoll' = bridgePoll
  PROVE  \A m \in MonitorChecks : PollHasReason(m)'
  <1> SUFFICES ASSUME NEW m \in MonitorChecks PROVE PollHasReason(m)'
    OBVIOUS
  <1> DEFINE t == bridgePoll[m].of
  <1>1. PollHasReason(m)
    BY DEF BridgeInv
  <1>2. CASE t \in Transfers
    <2>1. bridgePoll[m].hash \in 1 .. Len(axelar'[t])
      BY <1>1, <1>2 DEF PollHasReason, ReasonsKept
    <2> QED
      BY <1>1, <1>2, <2>1 DEF PollHasReason, ReasonsKept, StatusHasReason
  <1>3. CASE t \notin Transfers
    BY <1>1, <1>3 DEF PollHasReason
  <1> QED
    BY <1>2, <1>3


LEMMA StatusesKeepReason ==
  ASSUME BridgeInv, ReasonsKept, transfer' = transfer, row' = row
  PROVE  (\A t \in Transfers : StatusHasReason(transfer[t], t) /\ StatusHasReason(row[t], t))'
  BY DEF BridgeInv, ReasonsKept, StatusHasReason

LEMMA ChecksKeepReason ==
  ASSUME BridgeInv, ReasonsKept,
         \A m \in MonitorChecks, t \in Transfers :
           bridgeSeen'[m][t] = "confirming" => bridgeSeen[m][t] = "confirming"
  PROVE  (\A t \in Transfers, m \in MonitorChecks : bridgeSeen[m][t] = "confirming" => HasMessage(t))'
  BY DEF BridgeInv, ReasonsKept

\* The manager gives a transfer a status there is a reason for.
LEMMA BecomesInv ==
  ASSUME BridgeInv, NEW t \in Transfers, NEW status \in BridgeStatus, Becomes(t, status),
         BridgeTypeOK', MessagesAreSent', ReasonsKept, StatusHasReason(status, t)',
         bridgeSeen' = bridgeSeen, bridgePoll' = bridgePoll
  PROVE  BridgeInv'
  <1>1. transfer \in [Transfers -> BridgeStatus \cup {"none"}] /\ row \in [Transfers -> BridgeStatus \cup {"none"}]
    BY DEF BridgeInv, BridgeTypeOK
  <1>2. (\A u \in Transfers : StatusHasReason(transfer[u], u) /\ StatusHasReason(row[u], u))'
    <2> SUFFICES ASSUME NEW u \in Transfers
                 PROVE  StatusHasReason(transfer[u], u)' /\ StatusHasReason(row[u], u)'
      OBVIOUS
    <2>1. CASE u = t
      <3>1. transfer'[u] = status /\ row'[u] = status
        BY <1>1, <2>1 DEF Becomes
      <3> QED
        BY <2>1, <3>1 DEF StatusHasReason
    <2>2. CASE u # t
      <3>1. transfer'[u] = transfer[u] /\ row'[u] = row[u]
        BY <1>1, <2>2 DEF Becomes
      <3>2. StatusHasReason(transfer[u], u) /\ StatusHasReason(row[u], u)
        BY DEF BridgeInv
      <3> QED
        BY <3>1, <3>2 DEF ReasonsKept, StatusHasReason
    <2> QED
      BY <2>1, <2>2
  <1>3. (\A m \in MonitorChecks : PollHasReason(m))'
    BY PollsKeepReason
  <1>4. (\A u \in Transfers, m \in MonitorChecks : bridgeSeen[m][u] = "confirming" => HasMessage(u))'
    BY ChecksKeepReason
  <1> QED
    BY <1>2, <1>3, <1>4 DEF BridgeInv

LEMMA ManagerStepInv ==
  ASSUME BridgeInv, NEW t \in Transfers,
         \/ Initiate(t) \/ PostTransfer(t) \/ TransferPosted(t) \/ PostFails(t)
         \/ RetryTransfer(t) \/ CancelTransfer(t) \/ HalfHourPasses(t)
  PROVE  BridgeInv'
  <1> USE BridgeAssumption
  <1>1. ASSUME Initiate(t) \/ PostFails(t) \/ RetryTransfer(t) \/ CancelTransfer(t) PROVE BridgeInv'
    <2>1. PICK status \in {"pending", "failed", "cancelled"} : Becomes(t, status)
      BY <1>1 DEF Initiate, PostFails, RetryTransfer, CancelTransfer
    <2>2. axelar' = axelar /\ bridgeTxHash' = bridgeTxHash /\ bridgeSeen' = bridgeSeen /\ bridgePoll' = bridgePoll
      BY <1>1 DEF Initiate, PostFails, RetryTransfer, CancelTransfer
    <2>3. BridgeTypeOK'
      <3>1. retriesRemaining' \in [Transfers -> 0 .. 3]
        BY <1>1 DEF Initiate, PostFails, RetryTransfer, CancelTransfer, BridgeInv, BridgeTypeOK
      <3>2. executing' \subseteq Transfers /\ overdue' \subseteq Transfers
        BY <1>1 DEF Initiate, PostFails, RetryTransfer, CancelTransfer, BridgeInv, BridgeTypeOK
      <3>3. transfer' \in [Transfers -> BridgeStatus \cup {"none"}] /\ row' \in [Transfers -> BridgeStatus \cup {"none"}]
        BY <2>1 DEF Becomes, BridgeStatus, OpenStatus, BridgeInv, BridgeTypeOK
      <3> QED
        BY <2>2, <3>1, <3>2, <3>3 DEF BridgeInv, BridgeTypeOK
    <2>4. ReasonsKept /\ MessagesAreSent'
      BY <2>2, SameReasons
    <2>5. status \in BridgeStatus /\ StatusHasReason(status, t)'
      BY DEF StatusHasReason, BridgeStatus, OpenStatus
    <2> QED
      BY <2>1, <2>2, <2>3, <2>4, <2>5, BecomesInv
  <1>2. ASSUME PostTransfer(t) PROVE BridgeInv'
    <2>1. /\ UNCHANGED <<transfer, retriesRemaining, bridgeTxHash, row, overdue, bridgeSeen, bridgePoll>>
          /\ executing' \subseteq Transfers
          /\ Len(axelar[t]) < MaxMessages
          /\ axelar' = [axelar EXCEPT ![t] = Append(@, "relaying")] \/ axelar' = axelar
      BY <1>2 DEF PostTransfer, managerVars, BridgeInv, BridgeTypeOK
    <2>2. axelar \in [Transfers -> Seq(Fates)]
      BY DEF BridgeInv, BridgeTypeOK
    <2>3. CASE axelar' = [axelar EXCEPT ![t] = Append(@, "relaying")]
      <3>1. axelar' \in [Transfers -> Seq(Fates)]
        <4>1. axelar[t] \in Seq(Fates) /\ "relaying" \in Fates
          BY <2>2 DEF Fates
        <4>2. Append(axelar[t], "relaying") \in Seq(Fates)
          BY <4>1
        <4> QED
          BY <2>2, <2>3, <4>2
      <3>2. \A u \in Transfers : /\ Len(axelar'[u]) >= Len(axelar[u])
                                 /\ HasExecuted(u) => HasExecuted(u)'
        BY <2>2, <2>3 DEF HasExecuted
      <3>3. ReasonsKept
        BY <2>1, <3>2 DEF ReasonsKept, HasMessage
      <3>4. BridgeTypeOK'
        BY <2>1, <3>1 DEF BridgeInv, BridgeTypeOK
      <3>5. MessagesAreSent'
        <4> SUFFICES ASSUME NEW u \in Transfers
                     PROVE  bridgeTxHash[u] <= Len(axelar'[u]) /\ Len(axelar'[u]) <= MaxMessages
          BY <2>1 DEF MessagesAreSent
        <4>1. bridgeTxHash[u] <= Len(axelar[u]) /\ Len(axelar[u]) <= MaxMessages
          BY DEF MessagesAreSent, BridgeInv
        <4>2. bridgeTxHash[u] \in Nat /\ Len(axelar[u]) \in Nat
          BY <2>2 DEF BridgeInv, BridgeTypeOK
        <4>3. Len(axelar'[u]) = IF u = t THEN Len(axelar[u]) + 1 ELSE Len(axelar[u])
          BY <2>2, <2>3
        <4> QED
          BY <2>1, <4>1, <4>2, <4>3
      <3> QED
        BY <2>1, <3>3, <3>4, <3>5, PollsKeepReason, StatusesKeepReason, ChecksKeepReason DEF BridgeInv
    <2>4. CASE axelar' = axelar
      <3>1. ReasonsKept /\ MessagesAreSent'
        BY <2>1, <2>4, SameReasons
      <3>2. BridgeTypeOK'
        BY <2>1, <2>4 DEF BridgeInv, BridgeTypeOK
      <3> QED
        BY <2>1, <3>1, <3>2, PollsKeepReason, StatusesKeepReason, ChecksKeepReason DEF BridgeInv
    <2> QED
      BY <2>1, <2>3, <2>4
  <1>3. ASSUME TransferPosted(t) PROVE BridgeInv'
    <2>1. /\ Becomes(t, "confirming") /\ bridgeTxHash' = [bridgeTxHash EXCEPT ![t] = Len(axelar[t])]
          /\ Len(axelar[t]) > bridgeTxHash[t]
          /\ UNCHANGED <<retriesRemaining, axelar, overdue, bridgeSeen, bridgePoll>>
          /\ executing' = executing \ {t}
      BY <1>3 DEF TransferPosted
    <2>2. /\ bridgeTxHash \in [Transfers -> 0 .. MaxMessages]
          /\ \A u \in Transfers : Len(axelar[u]) \in Nat /\ bridgeTxHash[u] <= Len(axelar[u]) /\ Len(axelar[u]) <= MaxMessages
      BY DEF BridgeInv, BridgeTypeOK, MessagesAreSent
    <2>3. Len(axelar[t]) <= MaxMessages
      BY DEF BridgeInv, MessagesAreSent
    <2>4. bridgeTxHash' \in [Transfers -> 0 .. MaxMessages]
      BY <2>1, <2>2, <2>3
    <2>5. BridgeTypeOK'
      BY <2>1, <2>4 DEF Becomes, BridgeInv, BridgeTypeOK, BridgeStatus, OpenStatus
    <2>6. MessagesAreSent' /\ ReasonsKept /\ HasMessage(t)'
      <3>1. \A u \in Transfers : bridgeTxHash'[u] = IF u = t THEN Len(axelar[u]) ELSE bridgeTxHash[u]
        BY <2>1, <2>2
      <3>2. MessagesAreSent' /\ HasMessage(t)'
        BY <2>1, <2>2, <3>1 DEF MessagesAreSent, HasMessage
      <3>3. \A u \in Transfers : HasMessage(u) => HasMessage(u)'
        BY <2>1, <2>2, <3>1 DEF HasMessage
      <3> QED
        BY <2>1, <2>2, <3>2, <3>3 DEF ReasonsKept, HasExecuted
    <2>7. "confirming" \in BridgeStatus /\ StatusHasReason("confirming", t)'
      BY <2>6 DEF StatusHasReason, BridgeStatus, OpenStatus
    <2> QED
      BY <2>1, <2>5, <2>6, <2>7, BecomesInv
  <1>4. ASSUME HalfHourPasses(t) PROVE BridgeInv'
    <2>1. /\ UNCHANGED <<transfer, retriesRemaining, bridgeTxHash, axelar, executing, row, bridgeSeen, bridgePoll>>
          /\ overdue' \subseteq Transfers
      BY <1>4 DEF HalfHourPasses, managerVars, BridgeInv, BridgeTypeOK
    <2>2. ReasonsKept /\ MessagesAreSent'
      BY <2>1, SameReasons
    <2>3. BridgeTypeOK'
      BY <2>1 DEF BridgeInv, BridgeTypeOK
    <2> QED
      BY <2>1, <2>2, <2>3, PollsKeepReason, StatusesKeepReason, ChecksKeepReason DEF BridgeInv
  <1> QED
    BY <1>1, <1>2, <1>3, <1>4


\* One check of the monitor changes, and its poll has a reason.
LEMMA OnePollChanges ==
  ASSUME BridgeInv, ReasonsKept, NEW m \in MonitorChecks, NEW poll,
         bridgePoll' = [bridgePoll EXCEPT ![m] = poll], PollHasReason(m)'
  PROVE  (\A n \in MonitorChecks : PollHasReason(n))'
  <1> SUFFICES ASSUME NEW n \in MonitorChecks PROVE PollHasReason(n)'
    OBVIOUS
  <1>1. CASE n = m
    BY <1>1
  <1>2. CASE n # m
    <2>1. bridgePoll'[n] = bridgePoll[n]
      BY <1>2 DEF BridgeInv, BridgeTypeOK
    <2>2. PollHasReason(n)
      BY DEF BridgeInv
    <2>3. bridgePoll[n].of \in Transfers => bridgePoll[n].hash \in 1 .. Len(axelar'[bridgePoll[n].of])
      BY <2>2 DEF PollHasReason, ReasonsKept
    <2> QED
      BY <2>1, <2>2, <2>3 DEF PollHasReason, ReasonsKept, StatusHasReason
  <1> QED
    BY <1>1, <1>2

LEMMA WorkedOffSeen ==
  ASSUME BridgeInv, NEW m \in MonitorChecks, NEW t \in Transfers, WorkedOff(m, t)
  PROVE  /\ bridgeSeen' \in [MonitorChecks -> [Transfers -> OpenStatus \cup {"none"}]]
         /\ \A n \in MonitorChecks, u \in Transfers :
              bridgeSeen'[n][u] = "confirming" => bridgeSeen[n][u] = "confirming"
  BY DEF BridgeInv, BridgeTypeOK, WorkedOff

LEMMA MonitorStepInv ==
  ASSUME BridgeInv, NEW m \in MonitorChecks, MonitorStep(m)
  PROVE  BridgeInv'
  <1> USE BridgeAssumption
  <1>1. axelar' = axelar /\ bridgeTxHash' = bridgeTxHash
    BY DEF MonitorStep, StartCheck, PollAnswered, PollUnanswered, StorePoll, Expire, Pass, Poll, managerVars
  <1>2. ReasonsKept /\ MessagesAreSent'
    BY <1>1, SameReasons
  <1>3. UNCHANGED <<retriesRemaining, axelar, executing, overdue>>
    BY DEF MonitorStep, StartCheck, PollAnswered, PollUnanswered, StorePoll, Expire, Pass, Poll, managerVars
  <1>4. PollHasReason(m) /\ bridgePoll \in [MonitorChecks -> [of : Transfers \cup {"none"},
                                hash : 0 .. MaxMessages, status : BridgeStatus \cup {"none"}]]
    BY DEF BridgeInv, BridgeTypeOK
  <1>5. CASE StartCheck(m)
    <2>1. /\ UNCHANGED <<transfer, row, bridgePoll>>
          /\ bridgeSeen' = [bridgeSeen EXCEPT ![m] =
               [t \in Transfers |-> IF row[t] \in OpenStatus THEN row[t] ELSE "none"]]
      BY <1>5 DEF StartCheck, managerVars
    <2>2. BridgeTypeOK'
      <3>1. bridgeSeen' \in [MonitorChecks -> [Transfers -> OpenStatus \cup {"none"}]]
        BY <2>1 DEF BridgeInv, BridgeTypeOK
      <3> QED
        BY <1>1, <1>3, <2>1, <3>1 DEF BridgeInv, BridgeTypeOK
    <2>3. (\A t \in Transfers, n \in MonitorChecks : bridgeSeen[n][t] = "confirming" => HasMessage(t))'
      <3> SUFFICES ASSUME NEW t \in Transfers, NEW n \in MonitorChecks, bridgeSeen'[n][t] = "confirming"
                   PROVE  HasMessage(t)'
        OBVIOUS
      <3>1. CASE n = m
        <4>1. row[t] = "confirming"
          BY <2>1, <3>1 DEF BridgeInv, BridgeTypeOK
        <4>2. HasMessage(t)
          BY <4>1 DEF BridgeInv, StatusHasReason
        <4> QED
          BY <1>2, <4>2 DEF ReasonsKept
      <3>2. CASE n # m
        <4>1. bridgeSeen[n][t] = "confirming"
          BY <2>1, <3>2 DEF BridgeInv, BridgeTypeOK
        <4>2. HasMessage(t)
          BY <4>1 DEF BridgeInv
        <4> QED
          BY <1>2, <4>2 DEF ReasonsKept
      <3> QED
        BY <3>1, <3>2
    <2> QED
      BY <1>2, <2>1, <2>2, <2>3, PollsKeepReason, StatusesKeepReason DEF BridgeInv
  <1>6. CASE PollAnswered(m)
    <2>a. PICK t : t = bridgePoll[m].of
      OBVIOUS
    <2>b. PICK status : status = StatusFor(t, axelar[t][bridgePoll[m].hash])
      OBVIOUS
    <2>1. /\ t \in Transfers /\ bridgePoll[m].status = "none"
          /\ transfer' = [transfer EXCEPT ![t] = status]
          /\ bridgePoll' = [bridgePoll EXCEPT ![m].status = transfer'[t]]
          /\ row' = row /\ bridgeSeen' = bridgeSeen
      BY <1>4, <1>6, <2>a, <2>b DEF PollAnswered
    <2>2. /\ bridgePoll[m].hash \in DOMAIN axelar[t]
          /\ transfer \in [Transfers -> BridgeStatus \cup {"none"}] /\ axelar[t] \in Seq(Fates)
      BY <1>4, <2>a, <2>1 DEF PollHasReason, BridgeInv, BridgeTypeOK
    <2>3. status \in BridgeStatus \cup {"none"} /\ StatusHasReason(status, t)
      <3>1. StatusHasReason(transfer[t], t)
        BY <2>1 DEF BridgeInv
      <3> QED
        BY <2>b, <2>1, <2>2, <3>1 DEF StatusFor, StatusHasReason, HasExecuted, BridgeStatus, OpenStatus
    <2>4. transfer'[t] = status /\ \A u \in Transfers \ {t} : transfer'[u] = transfer[u]
      BY <2>1, <2>2
    <2>5. bridgePoll' = [bridgePoll EXCEPT ![m] = [bridgePoll[m] EXCEPT !.status = status]]
      BY <2>1, <2>4
    <2>6. BridgeTypeOK'
      <3>1. transfer' \in [Transfers -> BridgeStatus \cup {"none"}]
        BY <2>1, <2>2, <2>3
      <3>2. bridgePoll' \in [MonitorChecks -> [of : Transfers \cup {"none"}, hash : 0 .. MaxMessages,
                                              status : BridgeStatus \cup {"none"}]]
        BY <1>4, <2>3, <2>5
      <3> QED
        BY <1>1, <1>3, <2>1, <3>1, <3>2 DEF BridgeInv, BridgeTypeOK
    <2>7. StatusHasReason(status, t)'
      BY <1>2, <2>1, <2>3 DEF ReasonsKept, StatusHasReason
    <2>8. PollHasReason(m)'
      <3>1. bridgePoll'[m].of = t /\ bridgePoll'[m].hash = bridgePoll[m].hash /\ bridgePoll'[m].status = status
        BY <1>4, <2>a, <2>5
      <3>2. bridgePoll[m].hash \in 1 .. Len(axelar'[t])
        BY <1>1, <1>4, <2>a, <2>1 DEF PollHasReason
      <3> QED
        BY <2>1, <2>7, <3>1, <3>2 DEF PollHasReason, StatusHasReason
    <2>9. (\A u \in Transfers : StatusHasReason(transfer[u], u) /\ StatusHasReason(row[u], u))'
      <3> SUFFICES ASSUME NEW u \in Transfers
                   PROVE  StatusHasReason(transfer[u], u)' /\ StatusHasReason(row[u], u)'
        OBVIOUS
      <3>1. StatusHasReason(row[u], u) /\ StatusHasReason(transfer[u], u)
        BY DEF BridgeInv
      <3>2. StatusHasReason(row[u], u)'
        BY <1>2, <2>1, <3>1 DEF ReasonsKept, StatusHasReason
      <3>3. CASE u = t
        BY <2>4, <2>7, <3>2, <3>3 DEF StatusHasReason
      <3>4. CASE u # t
        BY <1>2, <2>4, <3>1, <3>2, <3>4 DEF ReasonsKept, StatusHasReason
      <3> QED
        BY <3>3, <3>4
    <2>10. (\A n \in MonitorChecks : PollHasReason(n))'
      BY <1>2, <2>5, <2>8, OnePollChanges
    <2> QED
      BY <1>2, <2>1, <2>6, <2>9, <2>10, ChecksKeepReason DEF BridgeInv
  <1>7. CASE PollUnanswered(m)
    <2> DEFINE t == bridgePoll[m].of
    <2>1. /\ t \in Transfers
          /\ bridgePoll' = [bridgePoll EXCEPT ![m].status = transfer[t]]
          /\ UNCHANGED <<transfer, row, bridgeSeen>>
      BY <1>4, <1>7 DEF PollUnanswered, managerVars
    <2>2. transfer[t] \in BridgeStatus \cup {"none"} /\ StatusHasReason(transfer[t], t)
      BY <2>1 DEF BridgeInv, BridgeTypeOK
    <2> HIDE DEF t
    <2>3. bridgePoll' = [bridgePoll EXCEPT ![m] = [bridgePoll[m] EXCEPT !.status = transfer[t]]]
      BY <2>1
    <2>4. BridgeTypeOK'
      <3>1. bridgePoll' \in [MonitorChecks -> [of : Transfers \cup {"none"}, hash : 0 .. MaxMessages,
                                              status : BridgeStatus \cup {"none"}]]
        BY <1>4, <2>2, <2>3
      <3> QED
        BY <1>1, <1>3, <2>1, <3>1 DEF BridgeInv, BridgeTypeOK
    <2>5. PollHasReason(m)'
      <3>1. bridgePoll'[m].of = t /\ bridgePoll'[m].hash = bridgePoll[m].hash /\ bridgePoll'[m].status = transfer[t]
        BY <1>4, <2>3 DEF t
      <3>2. bridgePoll[m].hash \in 1 .. Len(axelar'[t])
        BY <1>1, <1>4, <2>1 DEF PollHasReason, t
      <3> QED
        BY <1>2, <2>1, <2>2, <3>1, <3>2 DEF PollHasReason, StatusHasReason, ReasonsKept
    <2>6. (\A n \in MonitorChecks : PollHasReason(n))'
      BY <1>2, <2>3, <2>5, OnePollChanges
    <2> QED
      BY <1>2, <2>1, <2>4, <2>6, StatusesKeepReason, ChecksKeepReason DEF BridgeInv
  <1>8. CASE StorePoll(m)
    <2> DEFINE t == bridgePoll[m].of
               status == bridgePoll[m].status
    <2>1. /\ status # "none" /\ row' = [row EXCEPT ![t] = status]
          /\ bridgePoll' = [bridgePoll EXCEPT ![m] = NotPolling]
          /\ UNCHANGED <<transfer, bridgeSeen>>
      BY <1>8 DEF StorePoll, managerVars
    <2>2. t \in Transfers /\ status \in BridgeStatus /\ StatusHasReason(status, t)
      BY <1>4, <2>1 DEF PollHasReason
    <2> HIDE DEF t, status
    <2>3. BridgeTypeOK'
      <3>1. row' \in [Transfers -> BridgeStatus \cup {"none"}]
        BY <2>1, <2>2 DEF BridgeInv, BridgeTypeOK
      <3>2. bridgePoll' \in [MonitorChecks -> [of : Transfers \cup {"none"}, hash : 0 .. MaxMessages,
                                              status : BridgeStatus \cup {"none"}]]
        BY <1>4, <2>1 DEF NotPolling
      <3> QED
        BY <1>1, <1>3, <2>1, <3>1, <3>2 DEF BridgeInv, BridgeTypeOK
    <2>4. PollHasReason(m)'
      BY <1>4, <2>1 DEF PollHasReason, NotPolling
    <2>5. (\A n \in MonitorChecks : PollHasReason(n))'
      BY <1>2, <2>1, <2>4, OnePollChanges
    <2>6. (\A u \in Transfers : StatusHasReason(transfer[u], u) /\ StatusHasReason(row[u], u))'
      <3> SUFFICES ASSUME NEW u \in Transfers
                   PROVE  StatusHasReason(transfer[u], u)' /\ StatusHasReason(row[u], u)'
        OBVIOUS
      <3>1. StatusHasReason(transfer[u], u) /\ StatusHasReason(row[u], u)
        BY DEF BridgeInv
      <3>2. row'[u] = IF u = t THEN status ELSE row[u]
        BY <2>1 DEF BridgeInv, BridgeTypeOK
      <3> QED
        BY <1>2, <2>1, <2>2, <3>1, <3>2 DEF ReasonsKept, StatusHasReason
    <2> QED
      BY <1>2, <2>1, <2>3, <2>5, <2>6, ChecksKeepReason DEF BridgeInv
  <1>9. ASSUME NEW t \in Transfers, Expire(m, t) PROVE BridgeInv'
    <2>1. row' = [row EXCEPT ![t] = "failed"] /\ WorkedOff(m, t) /\ UNCHANGED <<transfer, bridgePoll>>
      BY <1>9 DEF Expire, managerVars
    <2>2. BridgeTypeOK'
      <3>1. row' \in [Transfers -> BridgeStatus \cup {"none"}]
        BY <2>1 DEF BridgeInv, BridgeTypeOK, BridgeStatus
      <3> QED
        BY <1>1, <1>3, <2>1, <3>1, WorkedOffSeen DEF BridgeInv, BridgeTypeOK
    <2>3. (\A u \in Transfers : StatusHasReason(transfer[u], u) /\ StatusHasReason(row[u], u))'
      <3> SUFFICES ASSUME NEW u \in Transfers
                   PROVE  StatusHasReason(transfer[u], u)' /\ StatusHasReason(row[u], u)'
        OBVIOUS
      <3>1. StatusHasReason(transfer[u], u) /\ StatusHasReason(row[u], u)
        BY DEF BridgeInv
      <3>2. row'[u] = IF u = t THEN "failed" ELSE row[u]
        BY <2>1 DEF BridgeInv, BridgeTypeOK
      <3> QED
        BY <1>2, <2>1, <3>1, <3>2 DEF ReasonsKept, StatusHasReason
    <2> QED
      BY <1>2, <2>1, <2>2, <2>3, WorkedOffSeen, PollsKeepReason, ChecksKeepReason DEF BridgeInv
  <1>10. ASSUME NEW t \in Transfers, Pass(m, t) PROVE BridgeInv'
    <2>1. WorkedOff(m, t) /\ UNCHANGED <<transfer, row, bridgePoll>>
      BY <1>10 DEF Pass, managerVars
    <2>2. BridgeTypeOK'
      BY <1>1, <1>3, <2>1, WorkedOffSeen DEF BridgeInv, BridgeTypeOK
    <2> QED
      BY <1>2, <2>1, <2>2, WorkedOffSeen, PollsKeepReason, StatusesKeepReason, ChecksKeepReason DEF BridgeInv
  <1>11. ASSUME NEW t \in Transfers, Poll(m, t) PROVE BridgeInv'
    <2> DEFINE poll == [of |-> t, hash |-> bridgeTxHash[t], status |-> "none"]
    <2>1. /\ WorkedOff(m, t) /\ UNCHANGED <<transfer, row>> /\ bridgeSeen[m][t] = "confirming"
          /\ bridgePoll' = [bridgePoll EXCEPT ![m] = poll]
      BY <1>11 DEF Poll, managerVars
    <2>2. bridgeTxHash[t] \in 1 .. Len(axelar[t]) /\ bridgeTxHash[t] \in 0 .. MaxMessages
      BY <2>1 DEF BridgeInv, BridgeTypeOK, MessagesAreSent, HasMessage
    <2>3. BridgeTypeOK'
      <3>1. bridgePoll' \in [MonitorChecks -> [of : Transfers \cup {"none"}, hash : 0 .. MaxMessages,
                                              status : BridgeStatus \cup {"none"}]]
        BY <1>4, <2>1, <2>2
      <3> QED
        BY <1>1, <1>3, <2>1, <3>1, WorkedOffSeen DEF BridgeInv, BridgeTypeOK
    <2>4. PollHasReason(m)'
      BY <1>1, <1>4, <2>1, <2>2 DEF PollHasReason, StatusHasReason
    <2>5. (\A n \in MonitorChecks : PollHasReason(n))'
      BY <1>2, <2>1, <2>4, OnePollChanges
    <2> QED
      BY <1>2, <2>1, <2>3, <2>5, WorkedOffSeen, StatusesKeepReason, ChecksKeepReason DEF BridgeInv
  <1> QED
    BY <1>5, <1>6, <1>7, <1>8, <1>9, <1>10, <1>11 DEF MonitorStep

LEMMA RelayInv ==
  ASSUME BridgeInv, NEW t \in Transfers, NEW i \in 1 .. MaxMessages, Relay(t, i)
  PROVE  BridgeInv'
  <1>1. /\ i \in DOMAIN axelar[t] /\ axelar[t][i] = "relaying"
        /\ UNCHANGED <<transfer, retriesRemaining, bridgeTxHash, executing, row, overdue, bridgeSeen, bridgePoll>>
    BY DEF Relay, managerVars
  <1>2. PICK fate \in {"executed", "failed"} : axelar' = [axelar EXCEPT ![t][i] = fate]
    BY DEF Relay
  <1>3. axelar \in [Transfers -> Seq(Fates)]
    BY DEF BridgeInv, BridgeTypeOK
  <1>4. /\ axelar' \in [Transfers -> Seq(Fates)]
        /\ \A u \in Transfers : Len(axelar'[u]) = Len(axelar[u])
    <2>1. axelar' = [axelar EXCEPT ![t] = [axelar[t] EXCEPT ![i] = fate]]
      BY <1>2
    <2>2. [axelar[t] EXCEPT ![i] = fate] \in Seq(Fates) /\ Len([axelar[t] EXCEPT ![i] = fate]) = Len(axelar[t])
      BY <1>1, <1>3, ExceptSeq DEF Fates
    <2> QED
      BY <1>3, <2>1, <2>2
  <1>5. ReasonsKept
    <2> SUFFICES ASSUME NEW u \in Transfers
                 PROVE  HasExecuted(u) => HasExecuted(u)'
      <3>1. \A u \in Transfers : Len(axelar'[u]) >= Len(axelar[u])
        BY <1>3, <1>4
      <3> QED
        BY <1>1, <3>1 DEF ReasonsKept, HasMessage
    <2> SUFFICES ASSUME NEW j \in DOMAIN axelar[u], axelar[u][j] = "executed"
                 PROVE  j \in DOMAIN axelar'[u] /\ axelar'[u][j] = "executed"
      BY DEF HasExecuted
    <2> QED
      BY <1>1, <1>2, <1>3, <1>4
  <1>6. BridgeTypeOK' /\ MessagesAreSent'
    BY <1>1, <1>4 DEF BridgeInv, BridgeTypeOK, MessagesAreSent
  <1> QED
    BY <1>1, <1>5, <1>6, PollsKeepReason, StatusesKeepReason, ChecksKeepReason DEF BridgeInv

LEMMA BridgeStepInv ==
  ASSUME BridgeInv, [BridgeNext]_bridgeVars
  PROVE  BridgeInv'
  <1>1. CASE UNCHANGED bridgeVars
    <2>1. ReasonsKept /\ MessagesAreSent'
      BY <1>1, SameReasons DEF bridgeVars
    <2>2. BridgeTypeOK'
      BY <1>1 DEF bridgeVars, BridgeInv, BridgeTypeOK
    <2> QED
      BY <1>1, <2>1, <2>2, PollsKeepReason, StatusesKeepReason, ChecksKeepReason DEF BridgeInv, bridgeVars
  <1> QED
    BY <1>1, ManagerStepInv, RelayInv, MonitorStepInv DEF BridgeNext

\* No transfer is confirmed, in the manager or in the store, without an executed message,
\* for any number of transfers, messages, retries and overlapping checks.
THEOREM ConfirmedHasExecuted == BridgeSpec => []ConfirmedWasExecuted
  <1>1. BridgeInit => BridgeInv
    <2> SUFFICES ASSUME BridgeInit PROVE BridgeInv
      OBVIOUS
    <2>1. BridgeTypeOK
      BY BridgeAssumption DEF BridgeInit, BridgeTypeOK, NotPolling, BridgeStatus, OpenStatus
    <2>2. MessagesAreSent
      <3> SUFFICES ASSUME NEW t \in Transfers
                   PROVE  bridgeTxHash[t] <= Len(axelar[t]) /\ Len(axelar[t]) <= MaxMessages
        BY DEF MessagesAreSent
      <3>1. bridgeTxHash[t] = 0
        BY DEF BridgeInit
      <3>2. Len(axelar[t]) = 0
        BY DEF BridgeInit
      <3>3. MaxMessages \in Nat
        BY BridgeAssumption
      <3> QED
        BY <3>1, <3>2, <3>3
    <2>3. \A t \in Transfers : transfer[t] = "none" /\ row[t] = "none"
      BY DEF BridgeInit
    <2>4. \A m \in MonitorChecks : bridgePoll[m].of \notin Transfers /\ bridgePoll[m].status = "none"
      BY BridgeAssumption DEF BridgeInit, NotPolling
    <2>5. \A m \in MonitorChecks, t \in Transfers : bridgeSeen[m][t] = "none"
      BY DEF BridgeInit
    <2> QED
      BY <2>1, <2>2, <2>3, <2>4, <2>5 DEF BridgeInv, PollHasReason, StatusHasReason
  <1>2. BridgeInv => ConfirmedWasExecuted
    BY DEF BridgeInv, ConfirmedWasExecuted, StatusHasReason, HasExecuted
  <1> QED
    BY <1>1, <1>2, BridgeStepInv, PTL DEF BridgeSpec


-----------------------------------------------------------------------------
(* The deposit dialog (DepositForm.tsx, executeDeposit of vaultHelpers.ts). *)

Txs == [sends : {"strategy", "deposit"}, user : Accounts, seq : Nat, attempt : 1 .. MaxAttempts,
        fate : {"sent", "landed", "failed", "dropped"}]
Working == attempt.at \in {"building", "signing", "polling"}

\* The strategy of attempt k, landed for account a before sequence number n.
StrategyLanded(j, k, n) ==
  /\ ledgerTxs[j].sends = "strategy" /\ ledgerTxs[j].fate = "landed"
  /\ ledgerTxs[j].attempt = k /\ ledgerTxs[j].seq < n

\* What the dialog waits for.
WaitsForLast ==
  attempt.at = "polling" =>
    LET newTx == ledgerTxs[Len(ledgerTxs)] IN
    /\ ledgerTxs # <<>>
    /\ newTx.sends = attempt.sends /\ newTx.attempt = depositAttempts /\ newTx.user = attempt.user

\* The dialog gets to its deposit once the strategy has landed, and signs it with a later number.
DepositComesSecond ==
  Working /\ attempt.sends = "deposit" =>
    \E j \in DOMAIN ledgerTxs :
      StrategyLanded(j, depositAttempts,
                     IF attempt.at = "building" THEN accountSeq[attempt.user] + 1 ELSE attempt.seq)

LandedAreCounted ==
  \A i \in DOMAIN ledgerTxs : ledgerTxs[i].fate = "landed" => ledgerTxs[i].seq <= accountSeq[ledgerTxs[i].user]

\* Like StrategyFirst, of deposits that have not landed as well.
SentStrategyFirst ==
  \A i \in DOMAIN ledgerTxs :
    ledgerTxs[i].sends = "deposit" =>
      \E j \in 1 .. i : StrategyLanded(j, ledgerTxs[i].attempt, ledgerTxs[i].seq)

DialogIsBusy ==
  Working => formView = "signing" /\ ~showPreview /\ depositAttempts > 0 /\ attempt.sends # "nothing"

DepositInv ==
  /\ DepositTypeOK /\ DialogIsBusy /\ WaitsForLast /\ DepositComesSecond
  /\ LandedAreCounted /\ SentStrategyFirst /\ SuccessMeansLanded

LEMMA StrategyPrecedes == ASSUME DepositInv PROVE StrategyFirst
  <1> SUFFICES ASSUME NEW i \in DOMAIN ledgerTxs,
                      ledgerTxs[i].sends = "deposit", ledgerTxs[i].fate = "landed"
               PROVE  \E j \in 1 .. i : /\ ledgerTxs[j].sends = "strategy" /\ ledgerTxs[j].fate = "landed"
                                        /\ ledgerTxs[j].attempt = ledgerTxs[i].attempt
                                        /\ ledgerTxs[j].seq < ledgerTxs[i].seq
    BY DEF StrategyFirst
  <1> QED
    BY DEF DepositInv, SentStrategyFirst, StrategyLanded

\* Steps of the dialog that leave the ledger alone and no attempt at work.
LEMMA IdleInv ==
  ASSUME DepositInv, DepositTypeOK', UNCHANGED ledger, ~Working',
         formView' = "success" => formView = "success" /\ depositAttempts' = depositAttempts
  PROVE  DepositInv'
  <1>1. attempt'.at # "polling"
    BY DEF Working
  <1>2. DialogIsBusy' /\ WaitsForLast' /\ DepositComesSecond'
    BY <1>1 DEF DialogIsBusy, WaitsForLast, DepositComesSecond
  <1>3. LandedAreCounted' /\ SentStrategyFirst'
    BY DEF ledger, DepositInv, LandedAreCounted, SentStrategyFirst, StrategyLanded
  <1>4. SuccessMeansLanded'
    BY DEF ledger, DepositInv, SuccessMeansLanded, Landed
  <1> QED
    BY <1>2, <1>3, <1>4 DEF DepositInv

\* Steps that change neither the attempt nor the ledger.
LEMMA SameAttemptInv ==
  ASSUME DepositInv, DepositTypeOK', UNCHANGED ledger, UNCHANGED <<attempt, depositAttempts>>,
         Working => formView' = "signing" /\ ~showPreview',
         formView' = "success" => formView = "success"
  PROVE  DepositInv'
  <1>1. DialogIsBusy'
    BY DEF DepositInv, DialogIsBusy, Working
  <1>2. WaitsForLast' /\ DepositComesSecond'
    BY DEF ledger, DepositInv, WaitsForLast, DepositComesSecond, Working, StrategyLanded
  <1>3. LandedAreCounted' /\ SentStrategyFirst'
    BY DEF ledger, DepositInv, LandedAreCounted, SentStrategyFirst, StrategyLanded
  <1>4. SuccessMeansLanded'
    BY DEF ledger, DepositInv, SuccessMeansLanded, Landed
  <1> QED
    BY <1>1, <1>2, <1>3, <1>4 DEF DepositInv

LEMMA DialogStepInv ==
  ASSUME DepositInv,
         \/ ReviewDeposit \/ ConfirmDeposit \/ ConfirmForOtherAccount \/ BackToForm
         \/ WalletChanges \/ AccountChanges
  PROVE  DepositInv'
  <1> USE DepositAssumption
  <1>1. CASE ReviewDeposit
    <2>1. DepositTypeOK'
      BY <1>1 DEF ReviewDeposit, ledger, DepositInv, DepositTypeOK
    <2> QED
      BY <1>1, <2>1, SameAttemptInv DEF ReviewDeposit, DepositInv, DialogIsBusy
  <1>2. CASE ConfirmDeposit
    <2>1. DepositTypeOK'
      <3>1. depositAttempts' \in 0 .. MaxAttempts
        BY <1>2 DEF ConfirmDeposit, DepositInv, DepositTypeOK
      <3>2. attempt' \in [user : Accounts, sends : {"nothing", "strategy", "deposit"},
                          at : {"none", "building", "signing", "polling", "raised"}, seq : Nat]
        BY <1>2 DEF ConfirmDeposit, DepositInv, DepositTypeOK
      <3>3. formView' = "signing" /\ showPreview' = FALSE /\ UNCHANGED <<userPublicKey, walletKey, ledger>>
        BY <1>2 DEF ConfirmDeposit
      <3> QED
        BY <3>1, <3>2, <3>3 DEF ledger, DepositInv, DepositTypeOK
    <2>2. /\ UNCHANGED ledger /\ formView' = "signing" /\ ~showPreview' /\ depositAttempts' > 0
          /\ attempt'.at = "building" /\ attempt'.sends = "strategy"
      BY <1>2 DEF ConfirmDeposit, DepositInv, DepositTypeOK
    <2>3. DialogIsBusy' /\ WaitsForLast' /\ DepositComesSecond' /\ SuccessMeansLanded'
      BY <2>2 DEF DialogIsBusy, WaitsForLast, DepositComesSecond, SuccessMeansLanded
    <2>4. LandedAreCounted' /\ SentStrategyFirst'
      BY <2>2 DEF ledger, DepositInv, LandedAreCounted, SentStrategyFirst, StrategyLanded
    <2> QED
      BY <2>1, <2>3, <2>4 DEF DepositInv
  <1>3. CASE ConfirmForOtherAccount
    <2>1. DepositTypeOK'
      BY <1>3 DEF ConfirmForOtherAccount, NoAttempt, ledger, DepositInv, DepositTypeOK
    <2>2. ~Working' /\ formView' = "error" /\ UNCHANGED ledger
      BY <1>3 DEF ConfirmForOtherAccount, NoAttempt, Working
    <2> QED
      BY <2>1, <2>2, IdleInv
  <1>4. CASE BackToForm
    <2>1. DepositTypeOK'
      BY <1>4 DEF BackToForm, ledger, DepositInv, DepositTypeOK
    <2>2. ~Working
      BY <1>4 DEF BackToForm, CancelsPreview, AfterSuccess, AfterError, DepositInv, DialogIsBusy
    <2> QED
      BY <1>4, <2>1, <2>2, SameAttemptInv DEF BackToForm
  <1>5. CASE WalletChanges
    <2>1. DepositTypeOK'
      BY <1>5 DEF WalletChanges, ledger, DepositInv, DepositTypeOK
    <2> QED
      BY <1>5, <2>1, SameAttemptInv DEF WalletChanges, DepositInv, DialogIsBusy
  <1>6. CASE AccountChanges
    <2>1. DepositTypeOK'
      BY <1>6 DEF AccountChanges, ledger, DepositInv, DepositTypeOK
    <2> QED
      BY <1>6, <2>1, SameAttemptInv DEF AccountChanges, DepositInv, DialogIsBusy
  <1> QED
    BY <1>1, <1>2, <1>3, <1>4, <1>5, <1>6


AttemptRecords == [user : Accounts, sends : {"nothing", "strategy", "deposit"},
                   at : {"none", "building", "signing", "polling", "raised"}, seq : Nat]

\* The attempt, and with it the view, changes; the rest of the dialog and the ledger do not.
LEMMA AttemptTypeOK ==
  ASSUME DepositInv, Stays, UNCHANGED ledger, attempt' \in AttemptRecords,
         formView' \in {formView, "success", "error"}
  PROVE  DepositTypeOK'
  BY DEF DepositInv, DepositTypeOK, Stays, ledger, AttemptRecords

LEMMA ExecuteStepInv ==
  ASSUME DepositInv, BuildTx \/ TxRefused \/ StrategyConfirmed \/ DepositConfirmed \/ PollGivesUp
  PROVE  DepositInv'
  <1>1. Stays /\ UNCHANGED ledger /\ attempt \in AttemptRecords
    BY DEF BuildTx, TxRefused, StrategyConfirmed, DepositConfirmed, PollGivesUp, DepositInv, DepositTypeOK,
           AttemptRecords
  <1>2. LandedAreCounted' /\ SentStrategyFirst'
    BY <1>1 DEF ledger, DepositInv, LandedAreCounted, SentStrategyFirst, StrategyLanded
  <1>3. CASE BuildTx
    <2>1. /\ attempt.at = "building" /\ formView' = formView
          /\ attempt' = [attempt EXCEPT !.at = "signing", !.seq = accountSeq[attempt.user] + 1]
      BY <1>3 DEF BuildTx
    <2>2. accountSeq[attempt.user] + 1 \in Nat
      BY <1>1 DEF DepositInv, DepositTypeOK, AttemptRecords
    <2>3. /\ attempt' \in AttemptRecords /\ attempt'.at = "signing" /\ attempt'.seq = accountSeq[attempt.user] + 1
          /\ attempt'.sends = attempt.sends /\ attempt'.user = attempt.user
      BY <1>1, <2>1, <2>2 DEF AttemptRecords
    <2>4. DialogIsBusy' /\ WaitsForLast'
      BY <1>1, <2>1, <2>3 DEF DialogIsBusy, WaitsForLast, Working, DepositInv, Stays
    <2>5. DepositComesSecond'
      BY <1>1, <2>1, <2>3 DEF DepositComesSecond, Working, DepositInv, Stays, ledger, StrategyLanded
    <2>6. SuccessMeansLanded'
      BY <1>1, <2>1 DEF SuccessMeansLanded, Landed, DepositInv, Stays, ledger
    <2> QED
      BY <1>1, <1>2, <2>1, <2>3, <2>4, <2>5, <2>6, AttemptTypeOK DEF DepositInv
  <1>4. CASE Raises
    <2>1. attempt' \in AttemptRecords /\ formView' = "error" /\ ~Working'
      BY <1>1, <1>4 DEF Raises, AttemptRecords, Working
    <2>2. DepositTypeOK'
      BY <1>1, <2>1, AttemptTypeOK
    <2> QED
      BY <1>1, <2>1, <2>2, IdleInv
  <1>5. CASE StrategyConfirmed
    <2>1. /\ attempt.at = "polling" /\ attempt.sends = "strategy" /\ Fate = "landed"
          /\ attempt' = [attempt EXCEPT !.sends = "deposit", !.at = "building", !.seq = 0] /\ formView' = formView
      BY <1>5 DEF StrategyConfirmed, TxConfirmed, DepositFollows
    <2>2. /\ attempt' \in AttemptRecords /\ attempt'.at = "building"
          /\ attempt'.sends = "deposit" /\ attempt'.user = attempt.user
      BY <1>1, <2>1 DEF AttemptRecords
    <2>3. DialogIsBusy' /\ WaitsForLast'
      BY <1>1, <2>1, <2>2 DEF DialogIsBusy, WaitsForLast, Working, DepositInv, Stays
    <2>4. DepositComesSecond'
      <3> DEFINE n == Len(ledgerTxs)
                 newTx == ledgerTxs[n]
      <3>1. /\ ledgerTxs \in Seq(Txs) /\ ledgerTxs # <<>> /\ accountSeq \in [Accounts -> Nat]
            /\ newTx.sends = "strategy" /\ newTx.attempt = depositAttempts /\ newTx.user = attempt.user
        BY <2>1 DEF DepositInv, DepositTypeOK, WaitsForLast, Txs
      <3>2. n \in DOMAIN ledgerTxs
        BY <3>1
      <3>3. newTx.fate = "landed" /\ newTx.seq <= accountSeq[attempt.user]
        BY <2>1, <3>1, <3>2 DEF Fate, DepositInv, LandedAreCounted
      <3>4. newTx.seq \in Nat /\ accountSeq[attempt.user] \in Nat
        <4>1. newTx \in Txs
          BY <3>1, <3>2
        <4>2. attempt.user \in Accounts /\ newTx.seq \in Nat
          BY <1>1, <4>1 DEF Txs, AttemptRecords
        <4> QED
          BY <3>1, <4>2
      <3>5. StrategyLanded(n, depositAttempts, accountSeq[attempt.user] + 1)
        BY <3>1, <3>3, <3>4 DEF StrategyLanded
      <3> QED
        BY <1>1, <2>2, <3>2, <3>5 DEF DepositComesSecond, Stays, ledger, StrategyLanded
    <2>5. SuccessMeansLanded'
      BY <1>1, <2>1 DEF SuccessMeansLanded, Landed, DepositInv, Stays, ledger
    <2> QED
      BY <1>1, <1>2, <2>1, <2>2, <2>3, <2>4, <2>5, AttemptTypeOK DEF DepositInv
  <1>6. CASE DepositConfirmed
    <2>1. /\ attempt.at = "polling" /\ attempt.sends = "deposit" /\ Fate = "landed"
          /\ attempt' = NoAttempt(attempt.user) /\ formView' = "success"
      BY <1>6 DEF DepositConfirmed, TxConfirmed
    <2>2. attempt' \in AttemptRecords /\ attempt'.at = "none"
      BY <1>1, <2>1 DEF AttemptRecords, NoAttempt
    <2>3. DialogIsBusy' /\ WaitsForLast' /\ DepositComesSecond'
      BY <2>2 DEF DialogIsBusy, WaitsForLast, DepositComesSecond, Working
    <2>4. Landed(depositAttempts, "strategy")
      BY <2>1 DEF DepositInv, DepositComesSecond, Working, StrategyLanded, Landed
    <2>5. Landed(depositAttempts, "deposit")
      <3>1. ledgerTxs \in Seq(Txs) /\ ledgerTxs # <<>>
        BY <2>1 DEF DepositInv, DepositTypeOK, WaitsForLast, Txs
      <3>2. Len(ledgerTxs) \in DOMAIN ledgerTxs
        BY <3>1
      <3> QED
        BY <2>1, <3>2 DEF Landed, Fate, DepositInv, WaitsForLast
    <2>6. SuccessMeansLanded'
      BY <1>1, <2>4, <2>5 DEF SuccessMeansLanded, Landed, Stays, ledger
    <2> QED
      BY <1>1, <1>2, <2>1, <2>2, <2>3, <2>6, AttemptTypeOK DEF DepositInv
  <1> QED
    BY <1>3, <1>4, <1>5, <1>6 DEF TxRefused, PollGivesUp

LEMMA SendTxInv ==
  ASSUME DepositInv, SendTx
  PROVE  DepositInv'
  <1> DEFINE newTx == [sends |-> attempt.sends, user |-> attempt.user, seq |-> attempt.seq,
                    attempt |-> depositAttempts, fate |-> "sent"]
             n == Len(ledgerTxs)
  <1>1. /\ attempt.at = "signing" /\ ledgerTxs' = Append(ledgerTxs, newTx)
        /\ attempt' = [attempt EXCEPT !.at = "polling"]
        /\ UNCHANGED <<showPreview, userPublicKey, walletKey, depositAttempts, formView, accountSeq>>
    BY DEF SendTx, Stays
  <1>2. ledgerTxs \in Seq(Txs) /\ accountSeq \in [Accounts -> Nat] /\ attempt \in AttemptRecords
    BY DEF DepositInv, DepositTypeOK, Txs, AttemptRecords
  <1>3. newTx \in Txs
    <2>1. attempt.sends # "nothing" /\ depositAttempts > 0 /\ depositAttempts \in 0 .. MaxAttempts
      BY <1>1 DEF DepositInv, DialogIsBusy, Working, DepositTypeOK
    <2>2. depositAttempts \in 1 .. MaxAttempts
      BY <2>1, DepositAssumption
    <2> QED
      BY <1>2, <2>1, <2>2 DEF Txs, AttemptRecords
  <1> HIDE DEF newTx
  <1>4. /\ ledgerTxs' \in Seq(Txs) /\ DOMAIN ledgerTxs' = 1 .. n + 1 /\ n \in Nat
        /\ DOMAIN ledgerTxs = 1 .. n
        /\ ledgerTxs'[n + 1] = newTx /\ \A i \in 1 .. n : ledgerTxs'[i] = ledgerTxs[i]
    BY <1>1, <1>2, <1>3
  <1>5. attempt' \in AttemptRecords /\ attempt'.at = "polling" /\ attempt'.sends = attempt.sends
        /\ attempt'.user = attempt.user /\ attempt'.seq = attempt.seq
    BY <1>1, <1>2 DEF AttemptRecords
  <1>6. DepositTypeOK'
    BY <1>1, <1>4, <1>5 DEF DepositInv, DepositTypeOK, Txs, AttemptRecords
  <1>7. DialogIsBusy'
    BY <1>1, <1>5 DEF DepositInv, DialogIsBusy, Working
  <1>8. Len(ledgerTxs') = n + 1 /\ ledgerTxs' # <<>>
    BY <1>4
  <1>9. WaitsForLast'
    BY <1>1, <1>4, <1>5, <1>8 DEF WaitsForLast, newTx
  <1>10. attempt.sends = "deposit" => \E j \in 1 .. n : StrategyLanded(j, depositAttempts, attempt.seq)
    BY <1>1, <1>4 DEF DepositInv, DepositComesSecond, Working
  <1>11. \A j \in 1 .. n : \A k, m : StrategyLanded(j, k, m) => StrategyLanded(j, k, m)'
    BY <1>4 DEF StrategyLanded
  <1>12. DepositComesSecond'
    BY <1>1, <1>4, <1>5, <1>10, <1>11 DEF DepositComesSecond
  <1>13. LandedAreCounted'
    BY <1>1, <1>4 DEF DepositInv, LandedAreCounted, newTx
  <1>14. SentStrategyFirst'
    <2> SUFFICES ASSUME NEW i \in 1 .. n + 1, ledgerTxs'[i].sends = "deposit"
                 PROVE  \E j \in 1 .. i : StrategyLanded(j, ledgerTxs[i].attempt, ledgerTxs[i].seq)'
      BY <1>4 DEF SentStrategyFirst
    <2>1. CASE i = n + 1
      <3>1. PICK j \in 1 .. n : StrategyLanded(j, depositAttempts, attempt.seq)
        BY <1>4, <1>10, <2>1 DEF newTx
      <3>2. j \in 1 .. i
        BY <1>4, <2>1
      <3> QED
        BY <1>4, <2>1, <3>1, <3>2 DEF StrategyLanded, newTx
    <2>2. CASE i # n + 1
      <3>1. i \in 1 .. n
        BY <1>4, <2>2
      <3>2. PICK j \in 1 .. i : StrategyLanded(j, ledgerTxs[i].attempt, ledgerTxs[i].seq)
        BY <1>4, <3>1 DEF DepositInv, SentStrategyFirst
      <3>3. j \in 1 .. n
        BY <1>4, <3>1, <3>2
      <3> QED
        BY <1>4, <3>1, <3>2, <3>3 DEF StrategyLanded
    <2> QED
      BY <2>1, <2>2
  <1>15. SuccessMeansLanded'
    BY <1>1, <1>4 DEF DepositInv, SuccessMeansLanded, Landed
  <1> QED
    BY <1>6, <1>7, <1>9, <1>12, <1>13, <1>14, <1>15 DEF DepositInv


\* The network gives transaction i its fate; what has landed stays so.
LEMMA SettlesInv ==
  ASSUME DepositInv, NEW i \in DOMAIN ledgerTxs, NEW fate \in {"landed", "failed", "dropped"},
         ledgerTxs[i].fate = "sent", DepositSettles(i, fate),
         accountSeq' \in [Accounts -> Nat],
         \A a \in Accounts : accountSeq'[a] >= accountSeq[a],
         fate = "landed" => ledgerTxs[i].seq <= accountSeq'[ledgerTxs[i].user],
         UNCHANGED dialog, UNCHANGED <<attempt, depositAttempts>>
  PROVE  DepositInv'
  <1>1. /\ ledgerTxs \in Seq(Txs) /\ accountSeq \in [Accounts -> Nat] /\ attempt \in AttemptRecords
        /\ formView' = formView /\ showPreview' = showPreview
    BY DEF DepositInv, DepositTypeOK, Txs, AttemptRecords, dialog
  <1>2. ledgerTxs' = [ledgerTxs EXCEPT ![i] = [ledgerTxs[i] EXCEPT !.fate = fate]]
    BY DEF DepositSettles
  <1>3. [ledgerTxs[i] EXCEPT !.fate = fate] \in Txs
    <2>1. ledgerTxs[i] \in Txs
      BY <1>1
    <2> QED
      BY <2>1 DEF Txs
  <1>4. /\ ledgerTxs' \in Seq(Txs) /\ Len(ledgerTxs') = Len(ledgerTxs) /\ DOMAIN ledgerTxs' = DOMAIN ledgerTxs
        /\ \A j \in DOMAIN ledgerTxs : ledgerTxs'[j] = IF j = i THEN [ledgerTxs[i] EXCEPT !.fate = fate] ELSE ledgerTxs[j]
    BY <1>1, <1>2, <1>3, ExceptSeq
  <1>5. \A j \in DOMAIN ledgerTxs :
          /\ ledgerTxs[j] \in Txs /\ ledgerTxs'[j].sends = ledgerTxs[j].sends /\ ledgerTxs'[j].user = ledgerTxs[j].user
          /\ ledgerTxs'[j].seq = ledgerTxs[j].seq /\ ledgerTxs'[j].attempt = ledgerTxs[j].attempt
          /\ ledgerTxs'[j].fate = IF j = i THEN fate ELSE ledgerTxs[j].fate
    <2> SUFFICES ASSUME NEW j \in DOMAIN ledgerTxs
                 PROVE  /\ ledgerTxs[j] \in Txs /\ ledgerTxs'[j].sends = ledgerTxs[j].sends
                        /\ ledgerTxs'[j].user = ledgerTxs[j].user
                        /\ ledgerTxs'[j].seq = ledgerTxs[j].seq /\ ledgerTxs'[j].attempt = ledgerTxs[j].attempt
                        /\ ledgerTxs'[j].fate = IF j = i THEN fate ELSE ledgerTxs[j].fate
      OBVIOUS
    <2>1. ledgerTxs[j] \in Txs
      BY <1>1
    <2>2. CASE j = i
      <3>1. ledgerTxs'[j] = [ledgerTxs[i] EXCEPT !.fate = fate]
        BY <1>4, <2>2
      <3> QED
        BY <2>1, <2>2, <3>1 DEF Txs
    <2>3. CASE j # i
      BY <1>4, <2>1, <2>3
    <2> QED
      BY <2>2, <2>3
  <1>6. DepositTypeOK'
    BY <1>1, <1>4 DEF DepositInv, DepositTypeOK, Txs, dialog
  <1>7. DialogIsBusy'
    BY <1>1 DEF DepositInv, DialogIsBusy, Working
  <1>8. WaitsForLast'
    <2> SUFFICES ASSUME attempt.at = "polling"
                 PROVE  LET newTx == ledgerTxs'[Len(ledgerTxs')] IN
                        /\ ledgerTxs' # <<>> /\ newTx.sends = attempt.sends
                        /\ newTx.attempt = depositAttempts /\ newTx.user = attempt.user
      BY DEF WaitsForLast
    <2>1. ledgerTxs # <<>> /\ Len(ledgerTxs) \in DOMAIN ledgerTxs
      BY <1>1 DEF DepositInv, WaitsForLast
    <2> QED
      BY <1>4, <1>5, <2>1 DEF DepositInv, WaitsForLast
  <1>9. \A j \in DOMAIN ledgerTxs : \A k, m : StrategyLanded(j, k, m) => StrategyLanded(j, k, m)'
    BY <1>5 DEF StrategyLanded
  <1>10. DepositComesSecond'
    <2> SUFFICES ASSUME Working, attempt.sends = "deposit"
                 PROVE  \E j \in DOMAIN ledgerTxs' :
                          StrategyLanded(j, depositAttempts,
                            IF attempt.at = "building" THEN accountSeq[attempt.user] + 1 ELSE attempt.seq)'
      BY DEF DepositComesSecond, Working
    <2> DEFINE n == IF attempt.at = "building" THEN accountSeq[attempt.user] + 1 ELSE attempt.seq
    <2>1. PICK j \in DOMAIN ledgerTxs : StrategyLanded(j, depositAttempts, n)
      BY DEF DepositInv, DepositComesSecond
    <2>2. attempt.user \in Accounts /\ ledgerTxs[j].seq \in Nat /\ ledgerTxs[j].fate = "landed"
      BY <1>1, <1>5, <2>1 DEF AttemptRecords, StrategyLanded, Txs
    <2>3. ledgerTxs[j].seq < n /\ accountSeq[attempt.user] \in Nat /\ accountSeq'[attempt.user] \in Nat
      BY <1>1, <2>1, <2>2 DEF StrategyLanded
    <2>4. ledgerTxs[j].seq < IF attempt.at = "building" THEN accountSeq'[attempt.user] + 1 ELSE attempt.seq
      BY <2>2, <2>3
    <2> QED
      BY <1>4, <1>5, <2>1, <2>2, <2>4 DEF StrategyLanded
  <1>11. LandedAreCounted'
    <2> SUFFICES ASSUME NEW j \in DOMAIN ledgerTxs, ledgerTxs'[j].fate = "landed"
                 PROVE  ledgerTxs'[j].seq <= accountSeq'[ledgerTxs'[j].user]
      BY <1>4 DEF LandedAreCounted
    <2>1. ledgerTxs[j].user \in Accounts /\ ledgerTxs[j].seq \in Nat
      BY <1>5 DEF Txs
    <2>2. /\ accountSeq[ledgerTxs[j].user] \in Nat /\ accountSeq'[ledgerTxs[j].user] \in Nat
          /\ accountSeq'[ledgerTxs[j].user] >= accountSeq[ledgerTxs[j].user]
      BY <1>1, <2>1
    <2>3. CASE j = i
      BY <1>5, <2>3
    <2>4. CASE j # i
      <3>1. ledgerTxs[j].seq <= accountSeq[ledgerTxs[j].user]
        BY <1>5, <2>4 DEF DepositInv, LandedAreCounted
      <3> QED
        BY <1>5, <2>1, <2>2, <3>1
    <2> QED
      BY <2>3, <2>4
  <1>12. SentStrategyFirst'
    <2> SUFFICES ASSUME NEW j \in DOMAIN ledgerTxs, ledgerTxs'[j].sends = "deposit"
                 PROVE  \E k \in 1 .. j : StrategyLanded(k, ledgerTxs[j].attempt, ledgerTxs[j].seq)'
      BY <1>4 DEF SentStrategyFirst
    <2>1. PICK k \in 1 .. j : StrategyLanded(k, ledgerTxs[j].attempt, ledgerTxs[j].seq)
      BY <1>5 DEF DepositInv, SentStrategyFirst
    <2>2. k \in DOMAIN ledgerTxs
      BY <1>1, <2>1
    <2> QED
      BY <1>5, <2>1, <2>2 DEF StrategyLanded
  <1>13. SuccessMeansLanded'
    BY <1>1, <1>4, <1>5 DEF DepositInv, SuccessMeansLanded, Landed
  <1> QED
    BY <1>6, <1>7, <1>8, <1>10, <1>11, <1>12, <1>13 DEF DepositInv

LEMMA NetworkStepInv ==
  ASSUME DepositInv, NEW i \in DOMAIN ledgerTxs, Lands(i) \/ Drops(i)
  PROVE  DepositInv'
  <1>1. ledgerTxs \in Seq(Txs) /\ accountSeq \in [Accounts -> Nat]
    BY DEF DepositInv, DepositTypeOK, Txs
  <1>2. ledgerTxs[i] \in Txs
    BY <1>1
  <1>3. ledgerTxs[i].user \in Accounts /\ ledgerTxs[i].seq \in Nat
    BY <1>2 DEF Txs
  <1>4. CASE Lands(i)
    <2>1. /\ ledgerTxs[i].fate = "sent" /\ ledgerTxs[i].seq = accountSeq[ledgerTxs[i].user] + 1
          /\ accountSeq' = [accountSeq EXCEPT ![ledgerTxs[i].user] = @ + 1]
          /\ UNCHANGED dialog /\ UNCHANGED <<attempt, depositAttempts>>
      BY <1>4 DEF Lands
    <2>2. PICK fate \in {"landed", "failed"} : DepositSettles(i, fate)
      BY <1>4 DEF Lands
    <2>3. /\ accountSeq' \in [Accounts -> Nat] /\ \A a \in Accounts : accountSeq'[a] >= accountSeq[a]
          /\ ledgerTxs[i].seq <= accountSeq'[ledgerTxs[i].user]
      BY <1>1, <1>3, <2>1
    <2> QED
      BY <2>1, <2>2, <2>3, SettlesInv
  <1>5. CASE Drops(i)
    <2>1. /\ ledgerTxs[i].fate = "sent" /\ DepositSettles(i, "dropped") /\ accountSeq' = accountSeq
          /\ UNCHANGED dialog /\ UNCHANGED <<attempt, depositAttempts>>
      BY <1>5 DEF Drops
    <2>2. \A a \in Accounts : accountSeq'[a] >= accountSeq[a]
      BY <1>1, <2>1
    <2> QED
      BY <1>1, <2>1, <2>2, SettlesInv
  <1> QED
    BY <1>4, <1>5

LEMMA DepositInitInv == DepositInit => DepositInv
  <1> SUFFICES ASSUME DepositInit PROVE DepositInv
    OBVIOUS
  <1>1. DepositTypeOK
    <2>1. PICK a \in Accounts : userPublicKey = a /\ walletKey = a /\ attempt = NoAttempt(a)
      BY DEF DepositInit
    <2>2. attempt \in AttemptRecords
      BY <2>1 DEF NoAttempt, AttemptRecords
    <2>3. ledgerTxs \in Seq(Txs) /\ accountSeq \in [Accounts -> Nat] /\ depositAttempts \in 0 .. MaxAttempts
      BY DepositAssumption DEF DepositInit
    <2>4. formView = "form" /\ showPreview = FALSE
      BY DEF DepositInit
    <2> QED
      BY <2>1, <2>2, <2>3, <2>4 DEF DepositTypeOK, AttemptRecords, Txs
  <1>2. ~Working /\ attempt.at # "polling" /\ formView = "form" /\ DOMAIN ledgerTxs = {}
    BY DEF DepositInit, NoAttempt, Working
  <1> QED
    BY <1>1, <1>2 DEF DepositInv, DialogIsBusy, WaitsForLast, DepositComesSecond, LandedAreCounted,
                      SentStrategyFirst, SuccessMeansLanded

LEMMA DepositStepInv ==
  ASSUME DepositInv, [DepositNext]_depositVars
  PROVE  DepositInv'
  <1>1. CASE UNCHANGED depositVars
    <2>1. DepositTypeOK'
      BY <1>1 DEF depositVars, DepositInv, DepositTypeOK
    <2> QED
      BY <1>1, <2>1, SameAttemptInv DEF depositVars, ledger, DepositInv, DialogIsBusy
  <1> QED
    BY <1>1, DialogStepInv, ExecuteStepInv, SendTxInv, NetworkStepInv DEF DepositNext, PollEnds

\* Success is reported of what has landed, and no deposit is sent before its strategy has
\* landed, for any number of accounts and attempts and whatever the network loses.
THEOREM SuccessIsLanded == DepositSpec => [](DepositTypeOK /\ SuccessMeansLanded /\ StrategyFirst)
  <1>1. DepositInv => DepositTypeOK /\ SuccessMeansLanded /\ StrategyFirst
    BY StrategyPrecedes DEF DepositInv
  <1> QED
    BY <1>1, DepositInitInv, DepositStepInv, PTL DEF DepositSpec


\* What the dialog reports has happened, and what it shows is the user's own.
THEOREM DialogTruthful == DepositSpec /\ PreviewSpec => []DialogTellsTruth
  <1>1. (DepositTypeOK /\ SuccessMeansLanded /\ StrategyFirst) /\ BalanceIsTheUsers
          /\ (PreviewTypeOK /\ RestingEstimateIsCurrent) => DialogTellsTruth
    BY DEF DialogTellsTruth
  <1> QED
    BY <1>1, SuccessIsLanded, BalanceOfTheUser, EstimateOfTheUser, PTL


-----------------------------------------------------------------------------
(* The agent's listener (eventListener.ts). *)

Taken(l) == l \in logged \cup dropped

\* A poll stands within its page, everything before it has been taken, and a page that is
\* not full reaches the latest ledger its request returned.
PollStands(p) ==
  LET poll == listenerPoll[p] IN
  poll # NoPoll =>
    /\ Running /\ poll.next >= 1 /\ poll.next <= poll.last + 1
    /\ poll.upto <= head /\ poll.last <= head
    /\ ~poll.full => poll.last = poll.upto
    /\ \A l \in begun .. poll.next - 1 : Taken(l)

ListenerInv ==
  /\ ListenerTypeOK /\ NothingSkipped
  /\ Running => begun <= head /\ begun <= startLedger
  /\ \A p \in Polls : PollStands(p)

LEMMA LesserOfTwo ==
  ASSUME NEW a \in Int, NEW b \in Int
  PROVE  Min({a, b}) = IF a <= b THEN a ELSE b
  BY DEF Min

LEMMA GreaterOfTwo ==
  ASSUME NEW a \in Int, NEW b \in Int
  PROVE  Max({a, b}) = IF a >= b THEN a ELSE b
  BY DEF Max

\* A page that starts where everything before has been taken.
LEMMA PageStands ==
  ASSUME ListenerInv, Running, NEW n \in 1 .. LastLedger + 1, n <= head + 1,
         \A l \in begun .. n - 1 : Taken(l)
  PROVE  /\ Page(n) \in [next : 0 .. LastLedger + 1, upto : 0 .. LastLedger, last : 0 .. LastLedger, full : BOOLEAN]
         /\ Page(n).next = n /\ n <= Page(n).last + 1 /\ Page(n).last <= head /\ Page(n).upto = head
         /\ ~Page(n).full => Page(n).last = head
  <1>1. head \in 1 .. LastLedger /\ PageLimit \in Nat \ {0} /\ LastLedger \in Nat
    BY ListenerAssumption DEF ListenerInv, ListenerTypeOK, Ledgers
  <1>2. n \in Nat /\ n + PageLimit - 1 \in Nat
    BY <1>1
  <1>3. Page(n).last = IF head <= n + PageLimit - 1 THEN head ELSE n + PageLimit - 1
    BY <1>1, <1>2, LesserOfTwo DEF Page
  <1>4. Page(n).last \in 0 .. LastLedger /\ n <= Page(n).last + 1 /\ Page(n).last <= head
    BY <1>1, <1>2, <1>3
  <1>5. /\ Page(n).next = n /\ Page(n).upto = head
        /\ Page(n).full \in BOOLEAN /\ (Page(n).full <=> n + PageLimit - 1 <= head)
    <2>1. Page(n).next = n /\ Page(n).upto = head /\ Page(n).full = (n + PageLimit - 1 <= head)
      BY DEF Page
    <2>2. (n + PageLimit - 1 <= head) \in BOOLEAN
      BY <1>1, <1>2
    <2> HIDE DEF Page
    <2> QED
      BY <2>1, <2>2, Zenon
  <1>6. ~Page(n).full => Page(n).last = head
    BY <1>1, <1>2, <1>3, <1>5
  <1>7. Page(n) = [next |-> Page(n).next, upto |-> Page(n).upto, last |-> Page(n).last, full |-> Page(n).full]
    BY DEF Page
  <1>8. n \in 0 .. LastLedger + 1 /\ head \in 0 .. LastLedger
    BY <1>1
  <1> HIDE DEF Page
  <1>9. Page(n) \in [next : 0 .. LastLedger + 1, upto : 0 .. LastLedger, last : 0 .. LastLedger, full : BOOLEAN]
    BY <1>4, <1>5, <1>7, <1>8
  <1> QED
    BY <1>4, <1>5, <1>6, <1>9

\* What other polls and the clock do leaves a poll where it stands.
LEMMA PollsStand ==
  ASSUME ListenerInv, NEW p \in Polls, listenerPoll'[p] = listenerPoll[p], begun' = begun,
         head' \in Nat, head' >= head, logged \subseteq logged', dropped \subseteq dropped'
  PROVE  PollStands(p)'
  <1>1. PollStands(p) /\ head \in Nat /\ listenerPoll[p] \in
          [next : 0 .. LastLedger + 1, upto : 0 .. LastLedger, last : 0 .. LastLedger, full : BOOLEAN]
    BY ListenerAssumption DEF ListenerInv, ListenerTypeOK, Ledgers
  <1>2. \A l : Taken(l) => Taken(l)'
    BY DEF Taken
  <1>3. listenerPoll[p].upto \in Nat
    BY <1>1, ListenerAssumption
  <1> QED
    BY <1>1, <1>2, <1>3 DEF PollStands, Running

PollRecords == [next : 0 .. LastLedger + 1, upto : 0 .. LastLedger, last : 0 .. LastLedger, full : BOOLEAN]

\* Only poll p changes, and it stands.
LEMMA OnePollSteps ==
  ASSUME ListenerInv, NEW p \in Polls, NEW poll \in PollRecords,
         listenerPoll' = [listenerPoll EXCEPT ![p] = poll], PollStands(p)',
         UNCHANGED <<head, begun, startLedger>>,
         logged \subseteq logged', dropped \subseteq dropped',
         logged' \subseteq Ledgers, dropped' \subseteq Ledgers, listenerFaults' \in 0 .. MaxListenerFaults
  PROVE  ListenerInv'
  <1>1. /\ listenerPoll \in [Polls -> PollRecords] /\ head \in 1 .. LastLedger
        /\ begun \in 0 .. LastLedger /\ startLedger \in 0 .. LastLedger + 1
    BY DEF ListenerInv, ListenerTypeOK, PollRecords, Ledgers
  <1>2. ListenerTypeOK'
    BY <1>1 DEF ListenerInv, ListenerTypeOK, PollRecords, Ledgers
  <1>3. \A q \in Polls : PollStands(q)'
    <2> SUFFICES ASSUME NEW q \in Polls, q # p PROVE PollStands(q)'
      OBVIOUS
    <2>1. listenerPoll'[q] = listenerPoll[q]
      BY <1>1
    <2>2. head' \in Nat /\ head' >= head
      BY <1>1, ListenerAssumption
    <2> QED
      BY <2>1, <2>2, PollsStand
  <1>4. NothingSkipped'
    BY DEF ListenerInv, NothingSkipped, Running
  <1> QED
    BY <1>2, <1>3, <1>4 DEF ListenerInv, Running

LEMMA HandlesInv ==
  ASSUME ListenerInv, NEW p \in Polls, HandleEvent(p) \/ InsertFails(p)
  PROVE  ListenerInv'
  <1> DEFINE poll == listenerPoll[p]
             after == [poll EXCEPT !.next = @ + 1]
  <1>1. /\ poll \in PollRecords /\ PollStands(p) /\ logged \subseteq Ledgers /\ dropped \subseteq Ledgers
        /\ listenerPoll \in [Polls -> PollRecords]
        /\ LastLedger \in Nat /\ MaxListenerFaults \in Nat /\ listenerFaults \in 0 .. MaxListenerFaults
    BY ListenerAssumption DEF ListenerInv, ListenerTypeOK, PollRecords
  <1>2. /\ poll # NoPoll /\ poll.next <= poll.last /\ listenerPoll' = [listenerPoll EXCEPT ![p] = after]
        /\ UNCHANGED <<head, begun, startLedger>>
    BY DEF HandleEvent, InsertFails, Handling
  <1>3. /\ poll.next \in 1 .. LastLedger /\ poll.last \in 0 .. LastLedger
        /\ poll.upto <= head /\ poll.last <= head /\ (~poll.full => poll.last = poll.upto)
        /\ Running /\ \A l \in begun .. poll.next - 1 : Taken(l)
    BY <1>1, <1>2 DEF PollStands, PollRecords
  <1>4. /\ after \in PollRecords /\ after.next = poll.next + 1 /\ after.last = poll.last
        /\ after.upto = poll.upto /\ after.full = poll.full
    BY <1>1, <1>3 DEF PollRecords
  <1>5. /\ logged \subseteq logged' /\ dropped \subseteq dropped' /\ poll.next \in logged' \cup dropped'
        /\ logged' \subseteq Ledgers /\ dropped' \subseteq Ledgers /\ listenerFaults' \in 0 .. MaxListenerFaults
    BY <1>1, <1>3 DEF HandleEvent, InsertFails, Ledgers
  <1>6. listenerPoll'[p] = after
    BY <1>1, <1>2
  <1>7. begun \in Nat
    BY <1>1 DEF ListenerInv, ListenerTypeOK
  <1> HIDE DEF after
  <1>8. \A l \in begun .. after.next - 1 : Taken(l)'
    <2> SUFFICES ASSUME NEW l \in begun .. poll.next PROVE Taken(l)'
      BY <1>3, <1>4
    <2>1. CASE l = poll.next
      BY <1>5, <2>1 DEF Taken
    <2>2. CASE l # poll.next
      <3>1. l \in begun .. poll.next - 1
        BY <1>3, <1>7, <2>2
      <3> QED
        BY <1>3, <1>5, <3>1 DEF Taken
    <2> QED
      BY <2>1, <2>2
  <1>9. /\ after.next >= 1 /\ after.next <= after.last + 1 /\ after.upto <= head /\ after.last <= head
        /\ ~after.full => after.last = after.upto
    BY <1>2, <1>3, <1>4
  <1>10. PollStands(p)'
    BY <1>2, <1>3, <1>6, <1>8, <1>9 DEF PollStands, Running
  <1> QED
    BY <1>2, <1>4, <1>5, <1>10, OnePollSteps


\* A request's page starts where everything before has been taken.
LEMMA RequestsInv ==
  ASSUME ListenerInv, NEW p \in Polls, FirstPage(p) \/ NextPage(p)
  PROVE  ListenerInv'
  <1>1. /\ listenerPoll \in [Polls -> PollRecords] /\ PollStands(p) /\ LastLedger \in Nat
        /\ head \in 1 .. LastLedger /\ begun \in 0 .. LastLedger /\ startLedger \in 0 .. LastLedger + 1
        /\ logged \subseteq Ledgers /\ dropped \subseteq Ledgers /\ listenerFaults \in 0 .. MaxListenerFaults
    BY ListenerAssumption DEF ListenerInv, ListenerTypeOK, PollRecords, Ledgers
  <1>2. UNCHANGED <<head, begun, startLedger, logged, dropped, listenerFaults>>
    BY DEF FirstPage, NextPage
  <1>3. PICK n \in 1 .. LastLedger + 1 :
          /\ Running /\ n <= head + 1 /\ \A l \in begun .. n - 1 : Taken(l)
          /\ listenerPoll' = [listenerPoll EXCEPT ![p] = Page(n)]
    <2>1. CASE FirstPage(p)
      <3>1. Running /\ startLedger <= head /\ listenerPoll' = [listenerPoll EXCEPT ![p] = Page(startLedger)]
        BY <2>1 DEF FirstPage
      <3>2. startLedger \in 1 .. LastLedger + 1 /\ \A l \in begun .. startLedger - 1 : Taken(l)
        BY <1>1, <3>1 DEF ListenerInv, NothingSkipped, Running, Taken
      <3>3. PICK n \in 1 .. LastLedger + 1 : n = startLedger
        BY <3>2
      <3>4. n <= head + 1
        BY <1>1, <3>1, <3>3
      <3> QED
        BY <3>1, <3>2, <3>3, <3>4
    <2>2. CASE NextPage(p)
      <3> DEFINE poll == listenerPoll[p]
      <3>1. /\ poll # NoPoll /\ poll.next > poll.last /\ listenerPoll' = [listenerPoll EXCEPT ![p] = Page(poll.next)]
        BY <2>2 DEF NextPage, PageDone
      <3>2. poll \in PollRecords
        BY <1>1
      <3>3. /\ Running /\ poll.next >= 1 /\ poll.next <= poll.last + 1
            /\ \A l \in begun .. poll.next - 1 : Taken(l)
        BY <1>1, <3>1 DEF PollStands
      <3>4. poll.next \in 1 .. LastLedger + 1
        BY <3>2, <3>3 DEF PollRecords
      <3>5. poll.next <= head + 1
        BY <1>1, <3>1, <3>2 DEF PollStands, PollRecords
      <3> QED
        BY <3>1, <3>3, <3>4, <3>5
    <2> QED
      BY <2>1, <2>2
  <1>4. /\ Page(n) \in PollRecords /\ Page(n).next = n /\ n <= Page(n).last + 1
        /\ Page(n).upto = head /\ Page(n).last <= head
        /\ ~Page(n).full => Page(n).last = head
    BY <1>3, PageStands DEF PollRecords
  <1>5. PICK poll : poll = Page(n)
    OBVIOUS
  <1>6. listenerPoll'[p] = poll /\ poll \in PollRecords
    BY <1>1, <1>3, <1>4, <1>5
  <1>7. PollStands(p)'
    BY <1>1, <1>2, <1>3, <1>4, <1>5, <1>6 DEF PollStands, Running, Taken
  <1> QED
    BY <1>1, <1>2, <1>3, <1>5, <1>6, <1>7, OnePollSteps

\* A poll ends, or fails and leaves the start where it is.
LEMMA PollEndsInv ==
  ASSUME ListenerInv, NEW p \in Polls, EndPoll(p) \/ ListenerPollFails(p)
  PROVE  ListenerInv'
  <1>1. /\ listenerPoll \in [Polls -> PollRecords] /\ PollStands(p) /\ LastLedger \in Nat
        /\ head \in 1 .. LastLedger /\ begun \in 0 .. LastLedger /\ startLedger \in 0 .. LastLedger + 1
        /\ logged \subseteq Ledgers /\ dropped \subseteq Ledgers
        /\ MaxListenerFaults \in Nat /\ listenerFaults \in 0 .. MaxListenerFaults
    BY ListenerAssumption DEF ListenerInv, ListenerTypeOK, PollRecords, Ledgers
  <1>2. /\ UNCHANGED <<head, begun, logged, dropped>> /\ listenerPoll' = [listenerPoll EXCEPT ![p] = NoPoll]
        /\ listenerFaults' \in 0 .. MaxListenerFaults
    BY <1>1 DEF EndPoll, ListenerPollFails
  <1>3. NoPoll \in PollRecords
    BY <1>1 DEF NoPoll, PollRecords
  <1>4. /\ startLedger' \in 0 .. LastLedger + 1 /\ startLedger' >= startLedger
        /\ Running => \A l \in begun .. startLedger' - 1 : Taken(l)
    <2>1. CASE EndPoll(p)
      <3> DEFINE poll == listenerPoll[p]
      <3>1. poll # NoPoll /\ poll.next > poll.last /\ ~poll.full /\ startLedger' = Max({startLedger, poll.upto + 1})
        BY <2>1 DEF EndPoll, PageDone, End
      <3>2. poll \in PollRecords
        BY <1>1
      <3>3. poll.upto \in 0 .. LastLedger /\ poll.next \in Nat /\ poll.last \in Nat
        BY <1>1, <3>2 DEF PollRecords
      <3>4. Running /\ poll.upto + 1 = poll.next /\ \A l \in begun .. poll.next - 1 : Taken(l)
        BY <1>1, <3>1, <3>3 DEF PollStands
      <3>5. startLedger' = IF startLedger >= poll.upto + 1 THEN startLedger ELSE poll.upto + 1
        BY <1>1, <3>1, <3>3, GreaterOfTwo
      <3>6. \A l \in begun .. startLedger - 1 : Taken(l)
        BY <3>4 DEF ListenerInv, NothingSkipped, Taken
      <3> QED
        BY <1>1, <3>3, <3>4, <3>5, <3>6
    <2>2. CASE ListenerPollFails(p)
      <3>1. startLedger' = startLedger
        BY <2>2 DEF ListenerPollFails, Abandon
      <3> QED
        BY <1>1, <3>1 DEF ListenerInv, NothingSkipped, Taken
    <2> QED
      BY <2>1, <2>2
  <1>5. ListenerTypeOK'
    BY <1>1, <1>2, <1>3, <1>4 DEF ListenerInv, ListenerTypeOK, PollRecords, Ledgers
  <1>6. NothingSkipped'
    BY <1>2, <1>4 DEF NothingSkipped, Running, Taken
  <1>7. \A q \in Polls : PollStands(q)'
    <2> SUFFICES ASSUME NEW q \in Polls PROVE PollStands(q)'
      OBVIOUS
    <2>1. CASE q = p
      <3>1. listenerPoll'[q] = NoPoll
        BY <1>1, <1>2, <2>1
      <3> QED
        BY <3>1 DEF PollStands, NoPoll
    <2>2. CASE q # p
      <3>1. listenerPoll'[q] = listenerPoll[q] /\ head' \in Nat /\ head' >= head
        BY <1>1, <1>2, <2>2
      <3> QED
        BY <1>2, <3>1, PollsStand
    <2> QED
      BY <2>1, <2>2
  <1>8. Running' => begun' <= head' /\ begun' <= startLedger'
    BY <1>1, <1>2, <1>4 DEF ListenerInv, Running
  <1> QED
    BY <1>5, <1>6, <1>7, <1>8 DEF ListenerInv

LEMMA ProcessInv ==
  ASSUME ListenerInv, StartEventListener \/ LedgerCloses \/ ListenerStops
  PROVE  ListenerInv'
  <1>1. /\ listenerPoll \in [Polls -> PollRecords] /\ LastLedger \in Nat
        /\ head \in 1 .. LastLedger /\ begun \in 0 .. LastLedger /\ startLedger \in 0 .. LastLedger + 1
        /\ MaxListenerFaults \in Nat /\ listenerFaults \in 0 .. MaxListenerFaults
    BY ListenerAssumption DEF ListenerInv, ListenerTypeOK, PollRecords, Ledgers
  <1>2. CASE StartEventListener
    <2>1. /\ ~Running /\ begun' = head /\ startLedger' = head
          /\ UNCHANGED <<head, listenerPoll, logged, dropped, listenerFaults>>
      BY <1>2 DEF StartEventListener
    <2>2. \A p \in Polls : listenerPoll[p] = NoPoll
      BY <2>1 DEF ListenerInv, PollStands
    <2>3. ListenerTypeOK'
      BY <1>1, <2>1 DEF ListenerInv, ListenerTypeOK, Ledgers
    <2>4. NothingSkipped' /\ (Running' => begun' <= head' /\ begun' <= startLedger')
      BY <1>1, <2>1 DEF NothingSkipped
    <2> QED
      BY <2>1, <2>2, <2>3, <2>4 DEF ListenerInv, PollStands
  <1>3. CASE LedgerCloses
    <2>1. /\ head < LastLedger /\ head' = head + 1
          /\ UNCHANGED <<begun, startLedger, listenerPoll, logged, dropped, listenerFaults>>
      BY <1>3 DEF LedgerCloses
    <2>2. ListenerTypeOK'
      BY <1>1, <2>1 DEF ListenerInv, ListenerTypeOK, Ledgers
    <2>3. \A p \in Polls : PollStands(p)'
      BY <1>1, <2>1, PollsStand
    <2> QED
      BY <1>1, <2>1, <2>2, <2>3 DEF ListenerInv, NothingSkipped, Running
  <1>4. CASE ListenerStops
    <2>1. /\ listenerFaults < MaxListenerFaults /\ listenerFaults' = listenerFaults + 1
          /\ begun' = 0 /\ startLedger' = 0 /\ listenerPoll' = [p \in Polls |-> NoPoll]
          /\ UNCHANGED <<head, logged, dropped>>
      BY <1>4 DEF ListenerStops
    <2>2. ListenerTypeOK'
      BY <1>1, <2>1 DEF ListenerInv, ListenerTypeOK, Ledgers, NoPoll
    <2> QED
      BY <2>1, <2>2 DEF ListenerInv, NothingSkipped, Running, PollStands
  <1> QED
    BY <1>2, <1>3, <1>4

LEMMA ListenerStepInv ==
  ASSUME ListenerInv, [ListenerNext]_listenerVars
  PROVE  ListenerInv'
  <1>1. CASE UNCHANGED listenerVars
    BY <1>1 DEF listenerVars, ListenerInv, ListenerTypeOK, NothingSkipped, Running, PollStands, Taken
  <1> QED
    BY <1>1, ProcessInv, HandlesInv, RequestsInv, PollEndsInv DEF ListenerNext, PollStep

LEMMA ListenerInitInv == ListenerInit => ListenerInv
  <1> SUFFICES ASSUME ListenerInit PROVE ListenerInv
    OBVIOUS
  <1>1. ListenerTypeOK
    <2>1. NoPoll \in PollRecords
      BY ListenerAssumption DEF NoPoll, PollRecords
    <2> QED
      BY <2>1, ListenerAssumption DEF ListenerInit, ListenerTypeOK, PollRecords, Ledgers
  <1> QED
    BY <1>1 DEF ListenerInit, ListenerInv, NothingSkipped, Running, PollStands

-----------------------------------------------------------------------------
(***************************************************************************)
(* The event stream of the client library.  A full page may end within a    *)
(* ledger; the ledgers of the events never fall, so everything before its   *)
(* last event's ledger is in the page or behind an earlier cursor.          *)
(***************************************************************************)

EventRecords == [topic : EventTopics, user : Listeners, ledger : 1 .. TipLedger]

\* Events come in the order of their ledgers, the last ones from the ledger
\* that is about to close.
EventsInOrder ==
  /\ \A i, j \in DOMAIN emitted : i <= j => emitted[i].ledger <= emitted[j].ledger
  /\ \A i \in DOMAIN emitted : emitted[i].ledger <= tip + 1

\* A loop that was never started reads nothing; no cursor is beyond the tip.
CursorsAreBehind ==
  \A l \in Loops :
    /\ cursorLedger[l] <= tip + 1
    /\ since[l] = 0 => cursorLedger[l] = 0 /\ loop[l] = "none"

StreamInv ==
  /\ StreamTypeOK /\ NothingPassedUnseen
  /\ Len(emitted) <= MaxEvents /\ Len(handlers) <= MaxHandlers
  /\ EventsInOrder /\ CursorsAreBehind

\* A non-empty set of indices has a last one, and LastOf chooses it.
LEMMA LastExists ==
  ASSUME NEW n \in Nat, NEW S, S \subseteq 1 .. n, S # {}
  PROVE  LastOf(S) \in S /\ \A j \in S : j <= LastOf(S)
  <1> DEFINE B == {u \in Nat : \A j \in S : j <= u}
             R == OpToRel(<, Nat)
  <1>1. n \in B
    OBVIOUS
  <1>2. IsWellFoundedOn(R, Nat)
    BY NatLessThanWellFounded
  <1>3. \A x, y \in Nat : x < y => <<x, y>> \in R
    BY DEF OpToRel
  <1>4. B \subseteq Nat /\ B # {}
    BY <1>1
  <1> HIDE DEF B, R
  <1>5. PICK m \in B : \A y \in B : ~(<<y, m>> \in R)
    BY <1>2, <1>4, WFMin
  <1>6. m \in Nat /\ \A j \in S : j <= m
    BY <1>5 DEF B
  <1>7. m \in S
    <2> SUFFICES ASSUME m \notin S PROVE FALSE
      OBVIOUS
    <2>1. \A j \in S : j \in Nat /\ j >= 1 /\ j <= m - 1
      BY <1>6
    <2>2. PICK j \in S : TRUE
      OBVIOUS
    <2>3. m - 1 \in Nat /\ m - 1 < m
      BY <1>6, <2>1, <2>2
    <2>4. m - 1 \in B
      BY <2>1, <2>3 DEF B
    <2>5. <<m - 1, m>> \in R
      BY <1>3, <1>6, <2>3
    <2> QED
      BY <1>5, <2>4, <2>5
  <1>8. \E i \in S : \A j \in S : j <= i
    BY <1>6, <1>7
  <1> QED
    BY <1>8 DEF LastOf

\* The page is a prefix of what is available.
LEMMA PageIsAPrefix ==
  ASSUME StreamTypeOK, NEW l \in Loops, StreamPage(l) # {}
  PROVE  /\ LastOf(StreamPage(l)) \in StreamPage(l)
         /\ \A i \in Available(l) \ StreamPage(l) : i > LastOf(StreamPage(l))
  <1> DEFINE n == Len(emitted)
             Before(i) == {j \in Available(l) : j < i}
             last == LastOf(StreamPage(l))
  <1>1. n \in Nat /\ DOMAIN emitted = 1 .. n
    BY DEF StreamTypeOK
  <1>2. Available(l) \subseteq 1 .. n /\ StreamPage(l) \subseteq Available(l)
    BY <1>1 DEF Available, StreamPage
  <1>3. StreamPage(l) \subseteq 1 .. n
    BY <1>2
  <1> HIDE DEF n
  <1>4. last \in StreamPage(l)
    BY <1>1, <1>3, LastExists
  <1>5. ASSUME NEW i \in Available(l) \ StreamPage(l), ~(i > last)
        PROVE  FALSE
    <2>1. i \in Nat /\ last \in Nat
      BY <1>2, <1>4
    <2>2. Before(i) \subseteq Before(last)
      BY <1>2, <1>5, <2>1
    <2>3. IsFiniteSet(Before(last))
      <3>1. IsFiniteSet(1 .. n) /\ Before(last) \subseteq 1 .. n
        BY <1>1, <1>2, FS_Interval
      <3> HIDE DEF Before
      <3> QED
        BY <3>1, FS_Subset
    <2>4. Cardinality(Before(last)) < batchSize /\ ~(Cardinality(Before(i)) < batchSize)
      BY <1>4, <1>5 DEF StreamPage
    <2> HIDE DEF Before
    <2>5. /\ IsFiniteSet(Before(i)) /\ Cardinality(Before(i)) <= Cardinality(Before(last))
      BY <2>2, <2>3, FS_Subset
    <2>6. Cardinality(Before(i)) \in Nat /\ Cardinality(Before(last)) \in Nat
      BY <2>3, <2>5, FS_CardinalityType
    <2> QED
      BY <2>4, <2>5, <2>6, StreamAssumption
  <1> QED
    BY <1>4, <1>5

LEMMA StreamInitInv == StreamInit => StreamInv
  <1> SUFFICES ASSUME StreamInit PROVE StreamInv
    OBVIOUS
  <1>1. /\ <<>> \in Seq(EventRecords) /\ Len(<<>>) = 0 /\ DOMAIN <<>> = 1 .. 0
        /\ <<>> \in Seq([topic : EventTopics, filter : Listeners \cup {Anyone}])
    BY EmptySeq
  <1>2. StreamTypeOK
    <2>1. tip \in 1 .. TipLedger /\ emitted \in Seq(EventRecords)
      BY <1>1, StreamAssumption DEF StreamInit
    <2>2. handlers \in Seq([topic : EventTopics, filter : Listeners \cup {Anyone}])
      BY <1>1 DEF StreamInit
    <2>3. /\ since \in [Loops -> 0 .. TipLedger] /\ cursorLedger \in [Loops -> 0 .. TipLedger + 1]
          /\ userFilters \in [EventTopics -> SUBSET Listeners]
      BY StreamAssumption DEF StreamInit
    <2> QED
      BY <2>1, <2>2, <2>3 DEF StreamInit, StreamTypeOK, EventRecords
  <1> QED
    BY <1>1, <1>2, StreamAssumption DEF StreamInit, StreamInv, NothingPassedUnseen, EventsInOrder,
       CursorsAreBehind

\* What is not registered, emitted or read leaves the calls owed as they are.
LEMMA SameReadingInv ==
  ASSUME StreamInv, UNCHANGED outside, UNCHANGED delivery, running' \in BOOLEAN,
         loop' \in [Loops -> {"none", "asking", "sleeping"}],
         \A l \in Loops : loop[l] = "none" => loop'[l] = "none"
  PROVE  StreamInv'
  <1>1. /\ emitted' = emitted /\ tip' = tip /\ handlers' = handlers /\ userFilters' = userFilters
        /\ since' = since /\ cursorLedger' = cursorLedger /\ calls' = calls /\ cutOff' = cutOff
    BY DEF outside, delivery
  <1>2. StreamTypeOK'
    BY <1>1 DEF StreamInv, StreamTypeOK
  <1>3. NothingPassedUnseen'
    BY <1>1 DEF StreamInv, NothingPassedUnseen, Recipients, Passes, UserTopic
  <1> QED
    BY <1>1, <1>2, <1>3 DEF StreamInv, EventsInOrder, CursorsAreBehind

LEMMA LoopStepInv ==
  ASSUME StreamInv, \/ StartFails \/ Stop
                    \/ \E l \in Loops : NothingArrives(l) \/ EndsOnError(l) \/ Wake(l)
  PROVE  StreamInv'
  <1>1. loop \in [Loops -> {"none", "asking", "sleeping"}] /\ running \in BOOLEAN
    BY DEF StreamInv, StreamTypeOK
  <1>2. CASE StartFails \/ Stop
    BY <1>1, <1>2, SameReadingInv DEF StartFails, Stop
  <1>3. ASSUME NEW l \in Loops, NothingArrives(l) \/ EndsOnError(l) \/ Wake(l)
        PROVE  StreamInv'
    <2>1. /\ UNCHANGED outside /\ UNCHANGED running /\ UNCHANGED delivery /\ loop[l] # "none"
          /\ \E s \in {"none", "asking", "sleeping"} : loop' = [loop EXCEPT ![l] = s]
      BY <1>3 DEF NothingArrives, EndsOnError, Wake, Sleeps, GoesOn
    <2>2. PICK s \in {"none", "asking", "sleeping"} : loop' = [loop EXCEPT ![l] = s]
      BY <2>1
    <2>3. loop' \in [Loops -> {"none", "asking", "sleeping"}]
      BY <1>1, <2>2
    <2>4. \A k \in Loops : loop[k] = "none" => loop'[k] = "none"
      BY <1>1, <2>1, <2>2
    <2> QED
      BY <1>1, <2>1, <2>3, <2>4, SameReadingInv
  <1> QED
    BY <1>2, <1>3

\* A loop starts at the latest ledger, and owes nothing yet.
LEMMA StartInv ==
  ASSUME StreamInv, NEW l \in Loops, Start(l)
  PROVE  StreamInv'
  <1>1. /\ emitted' = emitted /\ tip' = tip /\ handlers' = handlers /\ userFilters' = userFilters
        /\ calls' = calls /\ cutOff' = [cutOff EXCEPT ![l] = {}] /\ running' = TRUE
        /\ loop' = [loop EXCEPT ![l] = "asking"]
        /\ since' = [since EXCEPT ![l] = tip] /\ cursorLedger' = [cursorLedger EXCEPT ![l] = tip]
    BY DEF Start, outside
  <1>2. /\ tip \in 1 .. TipLedger /\ TipLedger \in Nat
        /\ since \in [Loops -> 0 .. TipLedger] /\ cursorLedger \in [Loops -> 0 .. TipLedger + 1]
        /\ loop \in [Loops -> {"none", "asking", "sleeping"}]
        /\ cutOff \in [Loops -> SUBSET (1 .. MaxEvents)]
    BY StreamAssumption DEF StreamInv, StreamTypeOK
  <1>3. StreamTypeOK'
    <2>1. /\ cutOff' \in [Loops -> SUBSET (1 .. MaxEvents)]
      BY <1>1, <1>2
    <2>2. /\ since' \in [Loops -> 0 .. TipLedger] /\ cursorLedger' \in [Loops -> 0 .. TipLedger + 1]
          /\ loop' \in [Loops -> {"none", "asking", "sleeping"}]
      BY <1>1, <1>2
    <2> QED
      BY <1>1, <2>1, <2>2 DEF StreamInv, StreamTypeOK
  <1>4. NothingPassedUnseen'
    <2>1. \A i \in DOMAIN emitted : emitted[i].ledger \in Nat
      <3>1. \A i \in 1 .. Len(emitted) : emitted[i] \in EventRecords
        BY ElementOfSeq DEF StreamInv, StreamTypeOK, EventRecords
      <3>2. DOMAIN emitted = 1 .. Len(emitted)
        BY DEF StreamInv, StreamTypeOK
      <3> QED
        BY <1>2, <3>1, <3>2 DEF EventRecords
    <2>2. \A i : Recipients(emitted[i])' = Recipients(emitted[i])
      BY <1>1 DEF Recipients, Passes, UserTopic
    <2>3. \A k \in Loops : \A i \in DOMAIN emitted :
             emitted[i].ledger >= since'[k] /\ emitted[i].ledger < cursorLedger'[k]
             => /\ emitted[i].ledger >= since[k] /\ emitted[i].ledger < cursorLedger[k]
                /\ cutOff'[k] = cutOff[k]
      BY <1>1, <1>2, <2>1
    <2> QED
      BY <1>1, <2>2, <2>3 DEF StreamInv, NothingPassedUnseen
  <1>5. CursorsAreBehind'
    BY <1>1, <1>2 DEF StreamInv, CursorsAreBehind
  <1> QED
    BY <1>1, <1>3, <1>4, <1>5 DEF StreamInv, EventsInOrder

\* The chain: an event of the ledger that is open, and its close.
LEMMA ChainInv ==
  ASSUME StreamInv, EmitEvent \/ CloseLedger
  PROVE  StreamInv'
  <1>1. /\ handlers' = handlers /\ userFilters' = userFilters /\ running' = running /\ loop' = loop
        /\ since' = since /\ cursorLedger' = cursorLedger /\ calls' = calls /\ cutOff' = cutOff
        /\ tip < TipLedger
    BY DEF EmitEvent, CloseLedger, delivery
  <1>2. /\ tip \in 1 .. TipLedger /\ TipLedger \in Nat /\ emitted \in Seq(EventRecords)
        /\ cursorLedger \in [Loops -> 0 .. TipLedger + 1]
    BY StreamAssumption DEF StreamInv, StreamTypeOK, EventRecords
  <1>3. /\ Len(emitted) \in Nat /\ DOMAIN emitted = 1 .. Len(emitted)
        /\ \A i \in DOMAIN emitted : emitted[i] \in EventRecords /\ emitted[i].ledger \in Nat
    <2>1. \A i \in 1 .. Len(emitted) : emitted[i] \in EventRecords
      BY <1>2, ElementOfSeq
    <2> QED
      BY <1>2, <2>1 DEF EventRecords
  <1>4. \A e : Recipients(e)' = Recipients(e)
    BY <1>1 DEF Recipients, Passes, UserTopic
  <1>5. CASE CloseLedger
    <2>1. emitted' = emitted /\ tip' = tip + 1
      BY <1>5 DEF CloseLedger
    <2>2. StreamTypeOK'
      BY <1>1, <1>2, <2>1 DEF StreamInv, StreamTypeOK
    <2>3. NothingPassedUnseen'
      BY <1>1, <1>4, <2>1 DEF StreamInv, NothingPassedUnseen
    <2>4. EventsInOrder' /\ CursorsAreBehind'
      BY <1>1, <1>2, <1>3, <2>1 DEF StreamInv, EventsInOrder, CursorsAreBehind
    <2> QED
      BY <1>1, <2>1, <2>2, <2>3, <2>4 DEF StreamInv
  <1>6. CASE EmitEvent
    <2>1. /\ tip' = tip /\ Len(emitted) < MaxEvents
          /\ \E e \in EventRecords : e.ledger = tip + 1 /\ emitted' = Append(emitted, e)
      <3>1. PICK t \in EventTopics, u \in Listeners :
              emitted' = Append(emitted, [topic |-> t, user |-> u, ledger |-> tip + 1])
        BY <1>6 DEF EmitEvent
      <3>2. [topic |-> t, user |-> u, ledger |-> tip + 1] \in EventRecords
        BY <1>1, <1>2 DEF EventRecords
      <3> QED
        BY <1>6, <3>1, <3>2 DEF EmitEvent
    <2>2. PICK e \in EventRecords : e.ledger = tip + 1 /\ emitted' = Append(emitted, e)
      BY <2>1
    <2>3. /\ emitted' \in Seq(EventRecords) /\ Len(emitted') = Len(emitted) + 1
          /\ \A i \in 1 .. Len(emitted) : emitted'[i] = emitted[i]
          /\ emitted'[Len(emitted) + 1] = e
      BY <1>2, <2>2, AppendProperties
    <2>4. DOMAIN emitted' = 1 .. Len(emitted) + 1
      BY <2>3
    <2>5. \A i \in DOMAIN emitted' : \/ i \in DOMAIN emitted /\ emitted'[i] = emitted[i]
                                     \/ i = Len(emitted) + 1 /\ emitted'[i] = e
      BY <1>3, <2>3, <2>4
    <2>6. StreamTypeOK'
      BY <1>1, <2>1, <2>3 DEF StreamInv, StreamTypeOK, EventRecords
    <2>7. NothingPassedUnseen'
      <3> SUFFICES ASSUME NEW l \in Loops, NEW i \in DOMAIN emitted', NEW h \in Recipients(emitted'[i]),
                          emitted'[i].ledger >= since[l], emitted'[i].ledger < cursorLedger[l],
                          i \notin cutOff[l]
                   PROVE  <<h, i>> \in calls
        BY <1>1, <1>4 DEF NothingPassedUnseen
      <3>1. cursorLedger[l] <= tip + 1 /\ cursorLedger[l] \in Nat /\ tip \in Nat
        BY <1>2 DEF StreamInv, CursorsAreBehind
      <3>2. i \in DOMAIN emitted /\ emitted'[i] = emitted[i]
        BY <2>2, <2>5, <3>1
      <3> QED
        BY <3>2 DEF StreamInv, NothingPassedUnseen
    <2>8. EventsInOrder'
      <3>1. \A i, j \in DOMAIN emitted : i <= j => emitted[i].ledger <= emitted[j].ledger
        BY DEF StreamInv, EventsInOrder
      <3>2. \A i \in DOMAIN emitted : emitted[i].ledger <= tip + 1
        BY DEF StreamInv, EventsInOrder
      <3>3. ASSUME NEW i \in DOMAIN emitted', NEW j \in DOMAIN emitted', i <= j
            PROVE  emitted'[i].ledger <= emitted'[j].ledger
        BY <1>2, <1>3, <2>2, <2>5, <3>1, <3>2, <3>3
      <3>4. \A i \in DOMAIN emitted' : emitted'[i].ledger <= tip' + 1
        BY <1>2, <2>1, <2>2, <2>5, <3>2
      <3> QED
        BY <3>3, <3>4 DEF EventsInOrder
    <2>9. CursorsAreBehind' /\ Len(emitted') <= MaxEvents
      BY <1>1, <1>3, <2>1, <2>3, StreamAssumption DEF StreamInv, CursorsAreBehind
    <2> QED
      BY <1>1, <2>6, <2>7, <2>8, <2>9 DEF StreamInv
  <1> QED
    BY <1>5, <1>6

\* Handlers are registered before a loop has been started.
LEMMA OnInv ==
  ASSUME StreamInv, NEW t \in EventTopics, NEW f \in Listeners \cup {Anyone}, On(t, f)
  PROVE  StreamInv'
  <1> DEFINE Registrations == [topic : EventTopics, filter : Listeners \cup {Anyone}]
             r == [topic |-> t, filter |-> f]
  <1>1. /\ emitted' = emitted /\ tip' = tip /\ running' = running /\ loop' = loop
        /\ since' = since /\ cursorLedger' = cursorLedger /\ calls' = calls /\ cutOff' = cutOff
        /\ Len(handlers) < MaxHandlers /\ (\A l \in Loops : since[l] = 0)
        /\ handlers' = Append(handlers, r)
        /\ userFilters' = [userFilters EXCEPT ![t] = IF f = Anyone THEN @ ELSE @ \cup {f}]
    BY DEF On, delivery
  <1>2. handlers \in Seq(Registrations) /\ userFilters \in [EventTopics -> SUBSET Listeners]
    BY DEF StreamInv, StreamTypeOK
  <1>3. r \in Registrations
    OBVIOUS
  <1> HIDE DEF r
  <1>4. handlers' \in Seq(Registrations) /\ Len(handlers') = Len(handlers) + 1 /\ Len(handlers) \in Nat
    BY <1>1, <1>2, <1>3, AppendProperties
  <1>5. userFilters' \in [EventTopics -> SUBSET Listeners]
    BY <1>1, <1>2
  <1>6. StreamTypeOK'
    BY <1>1, <1>4, <1>5 DEF StreamInv, StreamTypeOK
  <1>7. NothingPassedUnseen'
    <2>1. \A l \in Loops : cursorLedger[l] = 0
      BY <1>1 DEF StreamInv, CursorsAreBehind
    <2>2. \A i \in DOMAIN emitted : emitted[i].ledger \in Nat
      <3>1. \A i \in 1 .. Len(emitted) : emitted[i] \in EventRecords
        BY ElementOfSeq DEF StreamInv, StreamTypeOK, EventRecords
      <3>2. DOMAIN emitted = 1 .. Len(emitted)
        BY DEF StreamInv, StreamTypeOK
      <3> QED
        BY <3>1, <3>2, StreamAssumption DEF EventRecords
    <2> QED
      BY <1>1, <2>1, <2>2 DEF NothingPassedUnseen
  <1> QED
    BY <1>1, <1>4, <1>6, <1>7, StreamAssumption DEF StreamInv, EventsInOrder, CursorsAreBehind

\* A page is handed out, and the cursor moves behind the ledger of its last event.
LEMMA PageArrivesInv ==
  ASSUME StreamInv, NEW l \in Loops, PageArrives(l)
  PROVE  StreamInv'
  <1>1. PICK S : S = StreamPage(l)
    OBVIOUS
  <1>2. PICK last : last = LastOf(S)
    OBVIOUS
  <1>3. /\ emitted' = emitted /\ tip' = tip /\ handlers' = handlers /\ userFilters' = userFilters
        /\ since' = since /\ running' = running /\ loop[l] = "asking" /\ S # {}
        /\ calls' = calls \cup {k \in (DOMAIN handlers) \X S : k[1] \in Recipients(emitted[k[2]])}
        /\ cursorLedger' = [cursorLedger EXCEPT ![l] = emitted[last].ledger + 1]
        /\ cutOff' = [cutOff EXCEPT ![l] = @ \cup CutOff(l, last)]
        /\ \E s \in {"none", "asking", "sleeping"} : loop' = [loop EXCEPT ![l] = s]
    BY <1>1, <1>2 DEF PageArrives, outside, NextCursor, Sleeps, GoesOn
  <1>4. /\ tip \in 1 .. TipLedger /\ TipLedger \in Nat /\ emitted \in Seq(EventRecords)
        /\ cursorLedger \in [Loops -> 0 .. TipLedger + 1] /\ since \in [Loops -> 0 .. TipLedger]
        /\ loop \in [Loops -> {"none", "asking", "sleeping"}]
        /\ calls \subseteq (1 .. MaxHandlers) \X (1 .. MaxEvents) /\ cutOff \in [Loops -> SUBSET (1 .. MaxEvents)]
        /\ DOMAIN handlers = 1 .. Len(handlers) /\ DOMAIN emitted = 1 .. Len(emitted)
        /\ Len(handlers) \in Nat /\ Len(emitted) \in Nat
        /\ Len(handlers) <= MaxHandlers /\ Len(emitted) <= MaxEvents
        /\ MaxHandlers \in Nat /\ MaxEvents \in Nat
    BY StreamAssumption DEF StreamInv, StreamTypeOK, EventRecords
  <1>5. \A i \in DOMAIN emitted : emitted[i] \in EventRecords /\ emitted[i].ledger \in 1 .. TipLedger
    <2>1. \A i \in 1 .. Len(emitted) : emitted[i] \in EventRecords
      BY <1>4, ElementOfSeq
    <2> QED
      BY <1>4, <2>1 DEF EventRecords
  <1>6. /\ last \in S /\ S \subseteq DOMAIN emitted /\ last \in DOMAIN emitted
        /\ \A i \in S : emitted[i].ledger <= tip
        /\ \A i \in Available(l) \ S : i > last
    <2>1. last \in S /\ \A i \in Available(l) \ S : i > last
      BY <1>1, <1>2, <1>3, PageIsAPrefix DEF StreamInv
    <2>2. S \subseteq Available(l)
      BY <1>1 DEF StreamPage
    <2>3. \A i \in Available(l) : i \in DOMAIN emitted /\ emitted[i].ledger <= tip
      BY DEF Available
    <2> QED
      BY <2>1, <2>2, <2>3
  <1>7. emitted[last].ledger \in 1 .. tip
    BY <1>4, <1>5, <1>6
  <1>8. StreamTypeOK'
    <2>1. calls' \subseteq (1 .. MaxHandlers) \X (1 .. MaxEvents)
      <3>1. DOMAIN handlers \subseteq 1 .. MaxHandlers /\ S \subseteq 1 .. MaxEvents
        BY <1>4, <1>6
      <3> QED
        BY <1>3, <1>4, <3>1
    <2>2. /\ cursorLedger' \in [Loops -> 0 .. TipLedger + 1]
          /\ cutOff' \in [Loops -> SUBSET (1 .. MaxEvents)]
      <3>1. emitted[last].ledger \in 1 .. TipLedger
            /\ emitted[last].ledger + 1 \in 0 .. TipLedger + 1
        <4>1. tip \in 1 .. TipLedger /\ TipLedger \in Nat
          BY <1>4
        <4> QED
          BY <1>7, <4>1
      <3>2. cursorLedger' \in [Loops -> 0 .. TipLedger + 1]
        BY <1>3, <1>4, <3>1
      <3>3. CutOff(l, last) \subseteq 1 .. MaxEvents
        BY <1>4 DEF CutOff, Available
      <3>4. cutOff' \in [Loops -> SUBSET (1 .. MaxEvents)]
        BY <1>3, <1>4, <3>3
      <3> QED
        BY <3>2, <3>4
    <2>3. loop' \in [Loops -> {"none", "asking", "sleeping"}]
      BY <1>3, <1>4
    <2> QED
      BY <1>3, <2>1, <2>2, <2>3 DEF StreamInv, StreamTypeOK
  <1>9. NothingPassedUnseen'
    <2>1. \A e : Recipients(e)' = Recipients(e)
      BY <1>3 DEF Recipients, Passes, UserTopic
    <2> SUFFICES ASSUME NEW k \in Loops, NEW i \in DOMAIN emitted, NEW h \in Recipients(emitted[i]),
                        emitted[i].ledger >= since[k], emitted[i].ledger < cursorLedger'[k],
                        i \notin cutOff'[k]
                 PROVE  <<h, i>> \in calls'
      BY <1>3, <2>1 DEF NothingPassedUnseen
    <2>2. i \notin cutOff[k] /\ calls \subseteq calls' /\ (k = l => i \notin CutOff(l, last))
      BY <1>3, <1>4
    <2>3. CASE emitted[i].ledger < cursorLedger[k]
      BY <2>2, <2>3 DEF StreamInv, NothingPassedUnseen
    <2>4. CASE ~(emitted[i].ledger < cursorLedger[k])
      <3>0. /\ emitted[i].ledger \in Nat /\ cursorLedger[k] \in Nat
            /\ cursorLedger'[k] = IF k = l THEN emitted[last].ledger + 1 ELSE cursorLedger[k]
        BY <1>3, <1>4, <1>5
      <3>1. k = l /\ emitted[i].ledger <= emitted[last].ledger
        BY <1>7, <2>4, <3>0
      <3>2. i \in Available(l)
        BY <1>4, <1>5, <1>7, <2>4, <3>1 DEF Available
      <3>3. i \in S
        <4> SUFFICES ASSUME i \notin S PROVE FALSE
          OBVIOUS
        <4>1. i > last
          BY <1>6, <3>2
        <4>2. emitted[last].ledger <= emitted[i].ledger
          <5>1. i \in DOMAIN emitted /\ last \in DOMAIN emitted /\ last <= i
            BY <1>4, <1>6, <4>1
          <5> QED
            BY <5>1 DEF StreamInv, EventsInOrder
        <4>3. emitted[last].ledger = emitted[i].ledger
          BY <1>5, <1>6, <3>1, <4>2
        <4>4. i \in CutOff(l, last)
          BY <3>2, <4>1, <4>3 DEF CutOff
        <4> QED
          BY <2>2, <3>1, <4>4
      <3>4. h \in DOMAIN handlers
        BY DEF Recipients
      <3> QED
        BY <1>3, <3>3, <3>4
    <2> QED
      BY <2>3, <2>4
  <1>10. CursorsAreBehind'
    <2>1. since[l] # 0
      BY <1>3 DEF StreamInv, CursorsAreBehind
    <2>2. PICK c : c = emitted[last].ledger /\ c \in 1 .. tip
      BY <1>7
    <2>3. \A k \in Loops : cursorLedger'[k] = IF k = l THEN c + 1 ELSE cursorLedger[k]
      BY <1>3, <1>4, <2>2
    <2>4. c + 1 <= tip + 1 /\ since[l] \in Nat /\ tip \in Nat
      <3>1. tip \in Nat /\ since[l] \in Nat
        BY <1>4
      <3> QED
        BY <2>2, <3>1
    <2> QED
      BY <1>3, <1>4, <2>1, <2>3, <2>4 DEF StreamInv, CursorsAreBehind
  <1> QED
    BY <1>3, <1>8, <1>9, <1>10 DEF StreamInv, EventsInOrder

LEMMA StreamStepInv ==
  ASSUME StreamInv, [StreamNext]_streamVars
  PROVE  StreamInv'
  <1>1. CASE UNCHANGED streamVars
    <2>1. UNCHANGED outside /\ UNCHANGED delivery /\ running' = running /\ loop' = loop
      BY <1>1 DEF streamVars, outside, delivery
    <2> QED
      BY <2>1, SameReadingInv DEF StreamInv, StreamTypeOK
  <1> QED
    BY <1>1, LoopStepInv, StartInv, ChainInv, OnInv, PageArrivesInv DEF StreamNext

(***************************************************************************)
(* No event of the vault is passed, neither by the agent's listener nor by  *)
(* the client's stream: for any number of polls, loops and handlers and     *)
(* pages of any size.                                                       *)
(***************************************************************************)
THEOREM NoEventPassed == EventsSpec => []NoEventIsPassed
  <1>1. ListenerInit /\ StreamInit => ListenerInv /\ StreamInv
    BY ListenerInitInv, StreamInitInv
  <1>2. ListenerInv /\ StreamInv /\ [EventsNext]_<<listenerVars, streamVars>> => ListenerInv' /\ StreamInv'
    <2> SUFFICES ASSUME ListenerInv, StreamInv, [EventsNext]_<<listenerVars, streamVars>>
                 PROVE  ListenerInv' /\ StreamInv'
      OBVIOUS
    <2>1. [ListenerNext]_listenerVars /\ [StreamNext]_streamVars
      BY DEF EventsNext
    <2> QED
      BY <2>1, ListenerStepInv, StreamStepInv
  <1>3. ListenerInv /\ StreamInv => NoEventIsPassed
    BY DEF ListenerInv, StreamInv, NoEventIsPassed
  <1> QED
    BY <1>1, <1>2, <1>3, PTL DEF EventsSpec

-----------------------------------------------------------------------------
(***************************************************************************)
(* The conversation on WhatsApp.  An execution of an intent is paid for by   *)
(* its job, which starts once, or by a stall that gave the job back.         *)
(***************************************************************************)

Jobs == {"none", "waiting", "active", "done"}

RunsArePaidFor ==
  \A m \in Messages : executed[m] <= stalls[m] + (IF job[m] \in {"active", "done"} THEN 1 ELSE 0)

WhatsAppInv == WhatsAppTypeOK /\ VerifiedHasWallet /\ RunsArePaidFor

LEMMA NoOTPIsARecord ==
  /\ NoOTP \in OTPRecord /\ GenerateOTP \in OTPRecord
  /\ \A o \in OTPRecord : o.there \in BOOLEAN /\ o.expired \in BOOLEAN /\ o.attempts \in 0 .. 3
  <1>1. OTPRecord = [there : BOOLEAN, expired : BOOLEAN, attempts : 0 .. 3] /\ 0 \in 0 .. 3
    BY DEF OTPRecord, MAX_ATTEMPTS
  <1>2. NoOTP \in OTPRecord
    BY <1>1 DEF NoOTP
  <1>3. GenerateOTP \in OTPRecord
    BY <1>1, <1>2 DEF GenerateOTP
  <1> QED
    BY <1>1, <1>2, <1>3

LEMMA WhatsAppBounds == MaxRepeats \in Nat /\ MaxWallets \in Nat /\ MaxStalls \in Nat
  BY Zenon, WhatsAppAssumption DEF WhatsAppAssumption

LEMMA WhatsAppInitInv == WhatsAppInit => WhatsAppInv
  <1> SUFFICES ASSUME WhatsAppInit PROVE WhatsAppInv
    OBVIOUS
  <1>1. 0 \in 0 .. MaxWallets /\ 0 \in 0 .. MaxStalls /\ 0 \in 0 .. 2 /\ NoOTP \in OTPRecord
    BY WhatsAppBounds, NoOTPIsARecord
  <1>2. WhatsAppTypeOK
    BY <1>1 DEF WhatsAppInit, WhatsAppTypeOK, States
  <1> QED
    BY <1>2 DEF WhatsAppInit, WhatsAppInv, VerifiedHasWallet, RunsArePaidFor

\* The answers to a message leave the jobs alone.
LEMMA AnswersInv ==
  ASSUME WhatsAppInv, NEW m \in Messages,
         Deliver(m) \/ Greeted(m) \/ OtpAnswered(m) \/ ConsentAnswered(m) \/ IntentAcknowledged(m)
  PROVE  WhatsAppInv'
  <1>1. /\ session \in States /\ inactive \in BOOLEAN /\ otp \in OTPRecord
        /\ wallet \in 0 .. MaxWallets /\ made \in 0 .. MaxWallets /\ MaxWallets \in Nat
        /\ deliveries \in [Messages -> 0 .. 2] /\ handling \subseteq Messages \X {"dispatch", "enqueue"}
        /\ acked \subseteq Messages /\ VerifiedHasWallet /\ NoOTP \in OTPRecord
    BY WhatsAppBounds, NoOTPIsARecord DEF WhatsAppInv, WhatsAppTypeOK
  <1>2. /\ job' = job /\ executed' = executed /\ stalls' = stalls
        /\ lostAcks' = lostAcks /\ failures' = failures
    BY DEF Deliver, Greeted, OtpAnswered, ConsentAnswered, IntentAcknowledged, Dispatched
  <1>3. deliveries' \in [Messages -> 0 .. 2]
    <2>1. CASE Deliver(m)
      <3>1. deliveries[m] \in {0, 1} /\ deliveries' = [deliveries EXCEPT ![m] = @ + 1]
        BY <2>1 DEF Deliver
      <3> QED
        BY <1>1, <3>1
    <2>2. CASE ~Deliver(m)
      BY <1>1, <2>2 DEF Greeted, OtpAnswered, ConsentAnswered, IntentAcknowledged, Dispatched
    <2> QED
      BY <2>1, <2>2
  <1>4. handling' \subseteq Messages \X {"dispatch", "enqueue"}
    <2>1. \/ handling' = handling \/ handling' = handling \cup {<<m, "dispatch">>}
          \/ handling' = handling \ {<<m, "dispatch">>}
          \/ handling' = (handling \ {<<m, "dispatch">>}) \cup {<<m, "enqueue">>}
      BY DEF Deliver, Admitted, Greeted, OtpAnswered, ConsentAnswered, IntentAcknowledged, Dispatched
    <2>2. <<m, "dispatch">> \in Messages \X {"dispatch", "enqueue"}
          /\ <<m, "enqueue">> \in Messages \X {"dispatch", "enqueue"}
      OBVIOUS
    <2> QED
      BY <1>1, <2>1, <2>2
  <1>5. otp' \in OTPRecord
    <2>1. \A text : VerifyOTP(text) \in OTPRecord
      <3> SUFFICES ASSUME NEW text, otp.there, ~otp.expired, ~Spent(otp)
                   PROVE  [otp EXCEPT !.attempts = @ + 1] \in OTPRecord
        BY <1>1 DEF VerifyOTP
      <3>1. otp.attempts \in 0 .. 3 /\ otp.attempts < 3
        BY <1>1 DEF Spent, OTPRecord, MAX_ATTEMPTS
      <3> QED
        BY <1>1, <3>1 DEF OTPRecord, MAX_ATTEMPTS
    <2>2. GenerateOTP \in OTPRecord
      BY NoOTPIsARecord
    <2> QED
      BY <1>1, <2>1, <2>2 DEF Deliver, Greeted, OtpAnswered, ConsentAnswered, IntentAcknowledged
  <1>6. /\ session' \in States /\ inactive' \in BOOLEAN /\ acked' \subseteq Messages
        /\ wallet' \in 0 .. MaxWallets /\ made' \in 0 .. MaxWallets /\ VerifiedHasWallet'
    <2>1. CASE Deliver(m)
      BY <1>1, <2>1 DEF Deliver, VerifiedHasWallet
    <2>2. CASE Greeted(m) \/ OtpAnswered(m)
      BY <1>1, <2>2 DEF Greeted, OtpAnswered, Dispatched, VerifiedHasWallet, States, AfterCode
    <2>3. CASE ConsentAnswered(m)
      <3>1. /\ session' \in States /\ inactive' = FALSE /\ acked' = acked
            /\ \/ made < MaxWallets /\ made' = made + 1 /\ wallet' = made + 1
               \/ made' = made /\ wallet' = wallet /\ session' # "VERIFIED"
        <4>1. CASE TextOf[m] = "agree"
          BY <2>3, <4>1 DEF ConsentAnswered, CreateCustodialWallet, Dispatched, States
        <4>2. CASE TextOf[m] = "decline"
          BY <2>3, <4>2 DEF ConsentAnswered, Dispatched, States
        <4>3. CASE TextOf[m] \notin {"agree", "decline"}
          BY <2>3, <4>3 DEF ConsentAnswered, Dispatched, States
        <4> QED
          BY <4>1, <4>2, <4>3
      <3>2. CASE made < MaxWallets /\ made' = made + 1 /\ wallet' = made + 1
        <4>1. made + 1 \in 0 .. MaxWallets /\ made + 1 # 0
          BY <1>1, <3>2
        <4> QED
          BY <1>1, <3>1, <3>2, <4>1 DEF VerifiedHasWallet
      <3> QED
        BY <1>1, <3>1, <3>2 DEF VerifiedHasWallet
    <2>4. CASE IntentAcknowledged(m)
      BY <1>1, <2>4 DEF IntentAcknowledged, HasWallet, Dispatched, VerifiedHasWallet, States
    <2> QED
      BY <2>1, <2>2, <2>3, <2>4
  <1> QED
    BY <1>2, <1>3, <1>4, <1>5, <1>6 DEF WhatsAppInv, WhatsAppTypeOK, RunsArePaidFor

\* The queue and its worker.
LEMMA WorkerInv ==
  ASSUME WhatsAppInv, NEW m \in Messages, WorkerStep(m)
  PROVE  WhatsAppInv'
  <1>1. /\ job \in [Messages -> Jobs] /\ executed \in [Messages -> Nat] /\ stalls \in [Messages -> Nat]
        /\ session \in States /\ inactive \in BOOLEAN /\ VerifiedHasWallet /\ RunsArePaidFor
    BY DEF WhatsAppInv, WhatsAppTypeOK, Jobs
  <1>2. CASE IntentQueued(m)
    <2>1. /\ job' = [job EXCEPT ![m] = IF @ = "none" THEN "waiting" ELSE @]
          /\ handling' \subseteq handling
          /\ UNCHANGED <<session, inactive, otp, wallet, deliveries, executed, stalls, acked,
                         lostAcks, made, failures>>
      BY <1>2 DEF IntentQueued, AddIntentJob
    <2>2. job' \in [Messages -> Jobs] /\ RunsArePaidFor'
      BY <1>1, <2>1 DEF RunsArePaidFor, Jobs
    <2> QED
      BY <2>1, <2>2 DEF WhatsAppInv, WhatsAppTypeOK, VerifiedHasWallet, Jobs
  <1>3. CASE StartIntent(m)
    <2>1. /\ job[m] = "waiting" /\ job' = [job EXCEPT ![m] = "active"]
          /\ session' \in {session, "UNVERIFIED"} /\ inactive' = FALSE
          /\ executed' \in {executed, [executed EXCEPT ![m] = @ + 1]}
          /\ UNCHANGED <<otp, wallet, deliveries, handling, stalls, acked, lostAcks, made, failures>>
      BY <1>3 DEF StartIntent, Session, ProcessVerifiedIntent
    <2>2. job' \in [Messages -> Jobs] /\ executed' \in [Messages -> Nat]
      BY <1>1, <2>1 DEF Jobs
    <2>3. RunsArePaidFor'
      BY <1>1, <2>1 DEF RunsArePaidFor
    <2>4. session' \in States /\ VerifiedHasWallet'
      BY <1>1, <2>1 DEF VerifiedHasWallet, States
    <2> QED
      BY <2>1, <2>2, <2>3, <2>4 DEF WhatsAppInv, WhatsAppTypeOK, Jobs
  <1>4. CASE EndIntent(m)
    <2>1. /\ job[m] = "active" /\ job' = [job EXCEPT ![m] = "done"]
          /\ UNCHANGED <<session, inactive, otp, wallet, deliveries, handling, executed, stalls,
                         acked, lostAcks, made, failures>>
      BY <1>4 DEF EndIntent
    <2>2. job' \in [Messages -> Jobs] /\ RunsArePaidFor'
      BY <1>1, <2>1 DEF RunsArePaidFor, Jobs
    <2> QED
      BY <2>1, <2>2 DEF WhatsAppInv, WhatsAppTypeOK, VerifiedHasWallet, Jobs
  <1> QED
    BY <1>2, <1>3, <1>4 DEF WorkerStep

LEMMA QueueRejectsInv ==
  ASSUME WhatsAppInv, NEW m \in Messages, QueueRejects(m)
  PROVE  WhatsAppInv'
  <1>1. /\ job \in [Messages -> Jobs] /\ handling \subseteq Messages \X {"dispatch", "enqueue"}
        /\ lostAcks \subseteq Messages /\ failures \in 0 .. MaxStalls /\ MaxStalls \in Nat
        /\ VerifiedHasWallet /\ RunsArePaidFor
    BY WhatsAppBounds DEF WhatsAppInv, WhatsAppTypeOK, Jobs
  <1>2. /\ job' \in {job, [job EXCEPT ![m] = IF @ = "none" THEN "waiting" ELSE @]}
        /\ lostAcks' = lostAcks \cup {m} /\ handling' \subseteq handling
        /\ failures < MaxStalls /\ failures' = failures + 1
        /\ UNCHANGED <<session, inactive, otp, wallet, deliveries, executed, stalls, acked, made>>
    BY DEF QueueRejects, AddIntentJob
  <1>3. job' \in [Messages -> Jobs] /\ RunsArePaidFor'
    BY <1>1, <1>2 DEF RunsArePaidFor, Jobs
  <1>4. failures' \in 0 .. MaxStalls /\ lostAcks' \subseteq Messages
    BY <1>1, <1>2
  <1> QED
    BY <1>1, <1>2, <1>3, <1>4 DEF WhatsAppInv, WhatsAppTypeOK, VerifiedHasWallet, Jobs

LEMMA FaultsInv ==
  ASSUME WhatsAppInv, TimePasses \/ WebhookRestarts
  PROVE  WhatsAppInv'
  <1>1. /\ job \in [Messages -> Jobs] /\ executed \in [Messages -> Nat] /\ stalls \in [Messages -> Nat]
        /\ otp \in OTPRecord /\ NoOTP \in OTPRecord /\ inactive \in BOOLEAN /\ RunsArePaidFor
        /\ lostAcks \subseteq Messages /\ failures \in 0 .. MaxStalls
        /\ MaxStalls \in Nat /\ MaxWallets \in Nat
    BY WhatsAppBounds, NoOTPIsARecord DEF WhatsAppInv, WhatsAppTypeOK, Jobs
  <1>2. CASE TimePasses
    <2>1. /\ otp' \in OTPRecord /\ inactive' \in BOOLEAN
          /\ UNCHANGED <<session, wallet, deliveries, handling, job, executed, stalls, acked,
                         lostAcks, made, failures>>
      BY <1>1, <1>2 DEF TimePasses, OTPRecord
    <2> QED
      BY <2>1 DEF WhatsAppInv, WhatsAppTypeOK, VerifiedHasWallet, RunsArePaidFor
  <1>3. CASE WebhookRestarts
    <2>1. /\ session' = "UNVERIFIED" /\ inactive' = FALSE /\ otp' = NoOTP /\ wallet' = 0
          /\ failures < MaxStalls /\ failures' = failures + 1 /\ handling' = {}
          /\ lostAcks' \subseteq Messages
          /\ job' = [m \in Messages |-> IF job[m] = "active" THEN "waiting" ELSE job[m]]
          /\ stalls' = [m \in Messages |-> IF job[m] = "active" THEN stalls[m] + 1 ELSE stalls[m]]
          /\ UNCHANGED <<deliveries, executed, acked, made>>
      BY <1>1, <1>3 DEF WebhookRestarts
    <2>2. job' \in [Messages -> Jobs] /\ stalls' \in [Messages -> Nat] /\ RunsArePaidFor'
      BY <1>1, <2>1 DEF RunsArePaidFor, Jobs
    <2>3. failures' \in 0 .. MaxStalls /\ wallet' \in 0 .. MaxWallets
      BY <1>1, <2>1
    <2>4. WhatsAppTypeOK'
      BY <1>1, <2>1, <2>2, <2>3 DEF WhatsAppInv, WhatsAppTypeOK, States, Jobs
    <2> QED
      BY <2>1, <2>2, <2>4 DEF WhatsAppInv, VerifiedHasWallet
  <1> QED
    BY <1>2, <1>3

LEMMA WhatsAppStepInv ==
  ASSUME WhatsAppInv, [WhatsAppNext]_whatsappVars
  PROVE  WhatsAppInv'
  <1>1. CASE UNCHANGED whatsappVars
    BY <1>1 DEF whatsappVars, WhatsAppInv, WhatsAppTypeOK, VerifiedHasWallet, RunsArePaidFor
  <1> QED
    BY <1>1, AnswersInv, WorkerInv, QueueRejectsInv, FaultsInv DEF WhatsAppNext

-----------------------------------------------------------------------------
(***************************************************************************)
(* The batches of notices.  What waits has not been handed over, and waits  *)
(* in the bucket of one type; a bucket is emptied as it is handed over.      *)
(***************************************************************************)

Waits(t, i) == \E k \in DOMAIN buckets[t] : buckets[t][k] = i

WaitingIsNew ==
  \A t \in NoticeTypes, i \in Ids :
    Waits(t, i) => i <= notices /\ handedOver[i] = 0 /\ \A u \in NoticeTypes : Waits(u, i) => u = t

FutureIsNew == \A i \in Ids : i > notices => handedOver[i] = 0

NoticeInv == NoticeTypeOK /\ HandedOverOnce /\ WaitingIsNew /\ FutureIsNew

Batches == [type : NoticeTypes, events : Seq(Ids), at : {"showing", "mailing"}]

LEMMA NoticeInitInv == NoticeInit => NoticeInv
  <1> SUFFICES ASSUME NoticeInit PROVE NoticeInv
    OBVIOUS
  <1>1. <<>> \in Seq(Ids) /\ \A k \in DOMAIN <<>> : FALSE
    BY EmptySeq
  <1>2. NoticeTypeOK
    <2>1. noticePrefs \in Preferences /\ noticePrefs.batchWindow \in BatchWindows
      BY DEF NoticeInit, Preferences
    <2> QED
      BY <1>1, <2>1, NoticeAssumption DEF NoticeInit, NoticeTypeOK
  <1> QED
    BY <1>1, <1>2 DEF NoticeInit, NoticeInv, HandedOverOnce, WaitingIsNew, FutureIsNew, Waits

\* The buckets of the types S are handed over and emptied.
LEMMA FlushedInv ==
  ASSUME NoticeInv, NEW S, S \subseteq NoticeTypes, Flushes(S)
  PROVE  /\ flushed' \subseteq Batches
         /\ handedOver' \in [Ids -> 0 .. 2]
         /\ \A i \in Ids : handedOver'[i] <= 1 /\ (i > notices => handedOver'[i] = 0)
         /\ \A t \in NoticeTypes \ S, i \in Ids : Waits(t, i) => handedOver'[i] = 0
         /\ AfterFlush(buckets, S) \in [NoticeTypes -> Seq(Ids)]
         /\ \A t \in NoticeTypes : AfterFlush(buckets, S)[t] = IF t \in S THEN <<>> ELSE buckets[t]
  <1>1. /\ buckets \in [NoticeTypes -> Seq(Ids)] /\ handedOver \in [Ids -> 0 .. 2]
        /\ flushed \subseteq Batches /\ HandedOverOnce /\ WaitingIsNew /\ FutureIsNew
    BY DEF NoticeInv, NoticeTypeOK, Batches
  <1>2. flushed' \subseteq Batches
    BY <1>1 DEF Flushes, Batches
  <1>3. \A i \in Ids : handedOver'[i] =
          IF handedOver[i] < 2 /\ \E t \in S : Waits(t, i) THEN handedOver[i] + 1 ELSE handedOver[i]
    BY DEF Flushes, Waits
  <1>4. \A i \in Ids : handedOver[i] \in {0, 1}
    BY <1>1 DEF HandedOverOnce
  <1>5. ASSUME NEW i \in Ids
        PROVE  /\ handedOver'[i] \in {0, 1} /\ (i > notices => handedOver'[i] = 0)
               /\ \A t \in NoticeTypes \ S : Waits(t, i) => handedOver'[i] = 0
    <2>1. CASE \E t \in S : Waits(t, i)
      <3>1. PICK t \in S : Waits(t, i)
        BY <2>1
      <3>2. handedOver[i] = 0 /\ i <= notices /\ \A u \in NoticeTypes : Waits(u, i) => u = t
        BY <1>1, <3>1 DEF WaitingIsNew
      <3>3. notices \in Nat /\ i \in Nat
        BY NoticeAssumption DEF NoticeInv, NoticeTypeOK, Ids
      <3> QED
        BY <1>3, <2>1, <3>1, <3>2, <3>3
    <2>2. CASE ~\E t \in S : Waits(t, i)
      <3>1. handedOver'[i] = handedOver[i]
        BY <1>3, <2>2
      <3> QED
        BY <1>1, <1>4, <3>1 DEF WaitingIsNew, FutureIsNew
    <2> QED
      BY <2>1, <2>2
  <1>6. handedOver' \in [Ids -> 0 .. 2]
    <2>1. handedOver' = [i \in Ids |->
            IF handedOver[i] < 2 /\ \E t \in S : \E k \in DOMAIN buckets[t] : buckets[t][k] = i
            THEN handedOver[i] + 1 ELSE handedOver[i]]
      BY DEF Flushes
    <2> QED
      BY <1>5, <2>1
  <1>7. /\ AfterFlush(buckets, S) \in [NoticeTypes -> Seq(Ids)]
        /\ \A t \in NoticeTypes : AfterFlush(buckets, S)[t] = IF t \in S THEN <<>> ELSE buckets[t]
    BY <1>1, EmptySeq DEF AfterFlush
  <1> QED
    BY <1>2, <1>5, <1>6, <1>7

\* A timer, flush, or an event that finds a new window.
LEMMA FlushTypesInv ==
  ASSUME NoticeInv, NEW S, S \subseteq NoticeTypes, FlushTypes(S)
  PROVE  NoticeInv'
  <1>1. /\ Flushes(S) /\ buckets' = AfterFlush(buckets, S) /\ timers' = timers \ S
        /\ UNCHANGED <<noticePrefs, serviceWindow, notices, saves>>
    BY DEF FlushTypes
  <1>2. /\ flushed' \subseteq Batches /\ handedOver' \in [Ids -> 0 .. 2]
        /\ \A i \in Ids : handedOver'[i] <= 1 /\ (i > notices => handedOver'[i] = 0)
        /\ \A t \in NoticeTypes \ S, i \in Ids : Waits(t, i) => handedOver'[i] = 0
        /\ buckets' \in [NoticeTypes -> Seq(Ids)]
        /\ \A t \in NoticeTypes : buckets'[t] = IF t \in S THEN <<>> ELSE buckets[t]
    BY <1>1, FlushedInv
  <1>3. NoticeTypeOK'
    BY <1>1, <1>2 DEF NoticeInv, NoticeTypeOK, Batches
  <1>4. \A t \in NoticeTypes : \A i : Waits(t, i)' => t \notin S /\ Waits(t, i)
    BY <1>2 DEF Waits
  <1>5. WaitingIsNew'
    BY <1>1, <1>2, <1>4 DEF NoticeInv, WaitingIsNew
  <1> QED
    BY <1>1, <1>2, <1>3, <1>5 DEF NoticeInv, HandedOverOnce, FutureIsNew

LEMMA NotifyInv ==
  ASSUME NoticeInv, NEW t \in NoticeTypes, Notify(t)
  PROVE  NoticeInv'
  <1>1. PICK S \in SUBSET NoticeTypes :
          /\ Flushes(S)
          /\ buckets' = [AfterFlush(buckets, S) EXCEPT ![t] = Append(@, notices + 1)]
          /\ timers' = (timers \ S) \cup {t}
    BY DEF Notify, NewTimer
  <1>2. /\ notices < MaxNotices /\ notices' = notices + 1 /\ serviceWindow' = noticePrefs.batchWindow
        /\ UNCHANGED <<noticePrefs, saves>>
    BY DEF Notify
  <1>3. PICK bs : bs = AfterFlush(buckets, S)
    OBVIOUS
  <1>4. /\ flushed' \subseteq Batches /\ handedOver' \in [Ids -> 0 .. 2]
        /\ \A i \in Ids : handedOver'[i] <= 1 /\ (i > notices => handedOver'[i] = 0)
        /\ \A u \in NoticeTypes \ S, i \in Ids : Waits(u, i) => handedOver'[i] = 0
        /\ bs \in [NoticeTypes -> Seq(Ids)]
        /\ \A u \in NoticeTypes : bs[u] = IF u \in S THEN <<>> ELSE buckets[u]
    BY <1>1, <1>3, FlushedInv
  <1>5. notices \in Nat /\ MaxNotices \in Nat /\ notices + 1 \in Ids
    BY <1>2, NoticeAssumption DEF NoticeInv, NoticeTypeOK, Ids
  <1>6. /\ Append(bs[t], notices + 1) \in Seq(Ids)
        /\ \A k \in DOMAIN Append(bs[t], notices + 1) :
             Append(bs[t], notices + 1)[k] = notices + 1 \/ \E j \in DOMAIN bs[t] : bs[t][j] = Append(bs[t], notices + 1)[k]
    <2>1. PICK q : q = bs[t]
      OBVIOUS
    <2>2. q \in Seq(Ids)
      BY <1>4, <2>1
    <2>3. /\ Append(q, notices + 1) \in Seq(Ids) /\ Len(Append(q, notices + 1)) = Len(q) + 1
          /\ \A k \in 1 .. Len(q) : Append(q, notices + 1)[k] = q[k]
          /\ Append(q, notices + 1)[Len(q) + 1] = notices + 1
      BY <1>5, <2>2, AppendProperties
    <2>4. DOMAIN q = 1 .. Len(q) /\ Len(q) \in Nat /\ DOMAIN Append(q, notices + 1) = 1 .. Len(q) + 1
      BY <2>2, <2>3
    <2>5. \A k \in 1 .. Len(q) + 1 : k \in 1 .. Len(q) \/ k = Len(q) + 1
      BY <2>4
    <2> QED
      BY <2>1, <2>3, <2>4, <2>5
  <1>7. /\ buckets' \in [NoticeTypes -> Seq(Ids)]
        /\ \A u \in NoticeTypes : buckets'[u] = IF u = t THEN Append(bs[t], notices + 1) ELSE bs[u]
    BY <1>1, <1>3, <1>4, <1>6
  <1>8. \A u \in NoticeTypes : \A i : Waits(u, i)' =>
          \/ u \notin S /\ Waits(u, i)
          \/ u = t /\ i = notices + 1
    <2> SUFFICES ASSUME NEW u \in NoticeTypes, NEW i, NEW k \in DOMAIN buckets'[u], buckets'[u][k] = i
                 PROVE  \/ u \notin S /\ Waits(u, i)
                        \/ u = t /\ i = notices + 1
      BY DEF Waits
    <2>1. (u = t /\ i = notices + 1) \/ \E j \in DOMAIN bs[u] : bs[u][j] = i
      BY <1>6, <1>7
    <2>2. DOMAIN <<>> = {}
      BY EmptySeq
    <2> QED
      BY <1>4, <2>1, <2>2 DEF Waits
  <1>9. NoticeTypeOK'
    <2>1. noticePrefs.batchWindow \in BatchWindows
      BY DEF NoticeInv, NoticeTypeOK, Preferences
    <2>2. notices' \in 0 .. MaxNotices /\ timers' \subseteq NoticeTypes
      BY <1>1, <1>2, <1>5 DEF NoticeInv, NoticeTypeOK
    <2> QED
      BY <1>2, <1>4, <1>7, <2>1, <2>2 DEF NoticeInv, NoticeTypeOK, Batches
  <1>10. WaitingIsNew'
    <2> SUFFICES ASSUME NEW u \in NoticeTypes, NEW i \in Ids, Waits(u, i)'
                 PROVE  /\ i <= notices + 1 /\ handedOver'[i] = 0
                        /\ \A v \in NoticeTypes : Waits(v, i)' => v = u
      BY <1>2 DEF WaitingIsNew
    <2>1. WaitingIsNew
      BY DEF NoticeInv
    <2>2. i \in Nat
      BY DEF Ids
    <2>3. CASE i = notices + 1
      <3>1. ~Waits(u, i) /\ \A v \in NoticeTypes : ~Waits(v, i)
        BY <1>5, <2>1, <2>3 DEF WaitingIsNew
      <3>2. u = t /\ \A v \in NoticeTypes : Waits(v, i)' => v = t
        BY <1>8, <3>1
      <3> QED
        BY <1>4, <1>5, <2>3, <3>2
    <2>4. CASE i # notices + 1
      <3>1. Waits(u, i) /\ u \notin S /\ \A v \in NoticeTypes : Waits(v, i)' => Waits(v, i)
        BY <1>8, <2>4
      <3>2. i <= notices /\ \A v \in NoticeTypes : Waits(v, i) => v = u
        BY <2>1, <3>1 DEF WaitingIsNew
      <3> QED
        BY <1>4, <1>5, <2>2, <3>1, <3>2
    <2> QED
      BY <2>3, <2>4
  <1>11. FutureIsNew' /\ HandedOverOnce'
    <2>1. \A i \in Ids : i \in Nat /\ (i > notices + 1 => i > notices)
      BY <1>5 DEF Ids
    <2> QED
      BY <1>2, <1>4, <2>1 DEF FutureIsNew, HandedOverOnce
  <1> QED
    BY <1>9, <1>10, <1>11 DEF NoticeInv

\* What changes no bucket and hands nothing over.
LEMMA QuietNoticeInv ==
  ASSUME NoticeInv,
         \/ SavePreferences
         \/ \E t \in NoticeTypes : Ignores(t)
         \/ \E b \in flushed : Delivered(b) \/ Declined(b)
         \/ UNCHANGED noticeVars
  PROVE  NoticeInv'
  <1>1. UNCHANGED <<serviceWindow, buckets, timers, handedOver>>
    BY DEF SavePreferences, Ignores, Delivered, Declined, noticeVars
  <1>2. /\ noticePrefs' \in Preferences /\ flushed' \subseteq Batches
        /\ notices' \in 0 .. MaxNotices /\ saves' \in 0 .. MaxNotices /\ notices' >= notices
    <2>1. /\ noticePrefs \in Preferences /\ flushed \subseteq Batches
          /\ notices \in 0 .. MaxNotices /\ saves \in 0 .. MaxNotices /\ MaxNotices \in Nat
      BY NoticeAssumption DEF NoticeInv, NoticeTypeOK, Batches
    <2>2. \A b \in flushed : [b EXCEPT !.at = "mailing"] \in Batches
      BY <2>1 DEF Batches
    <2>3. CASE SavePreferences
      BY <2>1, <2>3 DEF SavePreferences
    <2>4. CASE \E t \in NoticeTypes : Ignores(t)
      BY <2>1, <2>4 DEF Ignores
    <2>5. CASE \E b \in flushed : Delivered(b) \/ Declined(b)
      BY <2>1, <2>2, <2>5 DEF Delivered, Declined
    <2>6. CASE UNCHANGED noticeVars
      BY <2>1, <2>6 DEF noticeVars
    <2> QED
      BY <2>3, <2>4, <2>5, <2>6
  <1>3. NoticeTypeOK'
    BY <1>1, <1>2 DEF NoticeInv, NoticeTypeOK, Batches
  <1>4. \A t, i : Waits(t, i)' <=> Waits(t, i)
    BY <1>1 DEF Waits
  <1>5. \A i \in Ids : i \in Nat
    BY DEF Ids
  <1>6. notices \in Nat /\ notices' \in Nat
    BY <1>2, NoticeAssumption DEF NoticeInv, NoticeTypeOK
  <1>7. WaitingIsNew' /\ FutureIsNew'
    BY <1>1, <1>2, <1>4, <1>5, <1>6 DEF NoticeInv, WaitingIsNew, FutureIsNew
  <1> QED
    BY <1>1, <1>3, <1>7 DEF NoticeInv, HandedOverOnce

LEMMA NoticeStepInv ==
  ASSUME NoticeInv, [NoticeNext]_noticeVars
  PROVE  NoticeInv'
  BY QuietNoticeInv, NotifyInv, FlushTypesInv DEF NoticeNext, TimerFlushes, FlushAll

(***************************************************************************)
(* What is delivered or asked for once is done once: an intent of the chat  *)
(* runs again only for a stall, a verified user has a wallet, and a notice  *)
(* is in one batch; for any number of messages, faults and notices.         *)
(***************************************************************************)
THEOREM WorkDoneOnce == WhatsAppSpec /\ NoticeSpec => []WorkIsDoneOnce
  <1>1. WhatsAppSpec => []WhatsAppInv
    BY WhatsAppInitInv, WhatsAppStepInv, PTL DEF WhatsAppSpec
  <1>2. NoticeSpec => []NoticeInv
    BY NoticeInitInv, NoticeStepInv, PTL DEF NoticeSpec
  <1>3. WhatsAppInv /\ NoticeInv => WorkIsDoneOnce
    <2> SUFFICES ASSUME WhatsAppInv, NoticeInv PROVE WorkIsDoneOnce
      OBVIOUS
    <2>1. \A m \in Messages : executed[m] \in Nat /\ stalls[m] \in Nat
      BY DEF WhatsAppInv, WhatsAppTypeOK
    <2>2. IntentRunsOnce
      BY <2>1 DEF WhatsAppInv, RunsArePaidFor, IntentRunsOnce
    <2> QED
      BY <2>2 DEF WhatsAppInv, NoticeInv, WorkIsDoneOnce
  <1> QED
    BY <1>1, <1>2, <1>3, PTL

-----------------------------------------------------------------------------
(***************************************************************************)
(* The live portfolio (useRealtimePortfolio.ts).  As long as no call has    *)
(* strayed since the last effect, the sockets and polls of the current      *)
(* generation are for its account.                                          *)
(***************************************************************************)

MaxGeneration == 2 * MaxRefreshes + 2
SocketType == [generation : 1 .. MaxGeneration, context : Portfolios,
               state : {"connecting", "open", "closed"}]
ConnectionTypes == {"websocket", "polling", "disconnected"}

\* A socket or a poll of generation g is for account c.
BelongsTo(x, g, c) == x.generation <= g /\ (x.generation = g => x.context = c)

\* What there is of the current generation is for the account of the last effect.
AllBelong ==
  /\ shownOf \in {activeContext, NoPortfolio}
  /\ \A i \in 1 .. Len(sockets) : BelongsTo(sockets[i], generation, activeContext)
  /\ \A p \in pollsOpen \cup {pollInterval} : BelongsTo(p, generation, activeContext)

RealtimeInv ==
  /\ RealtimeTypeOK
  /\ generation <= 2 * MaxRefreshes + 1
  /\ rendered # activeContext => generation < 2 * MaxRefreshes
  /\ \A i \in 1 .. Len(sockets) : sockets[i].generation <= generation
  /\ \A p \in pollsOpen \cup {pollInterval} : p.generation <= generation
  /\ strayed \/ AllBelong

LEMMA RealtimeTypes ==
  ASSUME RealtimeInv
  PROVE  /\ sockets \in Seq(SocketType) /\ wsRef \in 0 .. Len(sockets) /\ Len(sockets) \in Nat
         /\ generation \in 1 .. MaxGeneration /\ generation \in Nat
         /\ MaxRefreshes \in Nat /\ MaxGeneration = 2 * MaxRefreshes + 2 /\ MaxGeneration \in Nat
         /\ PortfolioPolls = [generation : 1 .. MaxGeneration, context : Portfolios]
         /\ pollsOpen \subseteq PortfolioPolls /\ pollInterval \in PortfolioPolls \cup {PollingOff}
         /\ rendered \in Portfolios /\ activeContext \in Portfolios
         /\ timer \in Portfolios \cup {NoPortfolio} /\ strays \in [Portfolios -> Nat]
         /\ strayed \in BOOLEAN /\ shownOf \in Portfolios \cup {NoPortfolio}
         /\ connectionType \in ConnectionTypes
         /\ \A i \in 1 .. Len(sockets) : /\ sockets[i] \in SocketType
                                         /\ sockets[i].generation \in Nat
                                         /\ sockets[i].generation <= generation
         /\ \A p \in pollsOpen \cup {pollInterval} : p.generation \in Nat /\ p.generation <= generation
  <1>1. sockets \in Seq(SocketType) /\ Len(sockets) \in Nat
    BY DEF RealtimeInv, RealtimeTypeOK, SocketType, MaxGeneration
  <1>2. MaxRefreshes \in Nat /\ MaxGeneration = 2 * MaxRefreshes + 2 /\ MaxGeneration \in Nat
    BY PortfolioAssumption DEF MaxGeneration
  <1>3. \A i \in 1 .. Len(sockets) : sockets[i] \in SocketType
    BY <1>1
  <1>4. \A s \in SocketType : s.generation \in Nat
    BY <1>2 DEF SocketType
  <1>5. PortfolioPolls = [generation : 1 .. MaxGeneration, context : Portfolios]
    BY DEF PortfolioPolls, MaxGeneration
  <1>6. /\ generation \in 1 .. MaxGeneration /\ wsRef \in 0 .. Len(sockets)
        /\ pollsOpen \subseteq PortfolioPolls /\ pollInterval \in PortfolioPolls \cup {PollingOff}
        /\ rendered \in Portfolios /\ activeContext \in Portfolios
        /\ timer \in Portfolios \cup {NoPortfolio} /\ strays \in [Portfolios -> Nat]
        /\ strayed \in BOOLEAN /\ shownOf \in Portfolios \cup {NoPortfolio}
        /\ connectionType \in ConnectionTypes
    BY DEF RealtimeInv, RealtimeTypeOK, MaxGeneration, ConnectionTypes
  <1>7. generation \in Nat /\ \A p \in PortfolioPolls \cup {PollingOff} : p.generation \in Nat
    BY <1>2, <1>5, <1>6 DEF PollingOff
  <1>8. /\ \A i \in 1 .. Len(sockets) : sockets[i].generation <= generation
        /\ \A p \in pollsOpen \cup {pollInterval} : p.generation <= generation
    BY DEF RealtimeInv
  <1>9. \A p \in pollsOpen \cup {pollInterval} : p.generation \in Nat
    BY <1>6, <1>7
  <1> QED
    BY <1>1, <1>2, <1>3, <1>4, <1>5, <1>6, <1>7, <1>8, <1>9

LEMMA RealtimeInitInv == RealtimeInit => RealtimeInv
  <1> SUFFICES ASSUME RealtimeInit PROVE RealtimeInv
    OBVIOUS
  <1>1. PICK c \in Portfolios :
          /\ rendered = c /\ activeContext = c
          /\ sockets = <<[generation |-> 1, context |-> c, state |-> "connecting"]>>
    BY DEF RealtimeInit
  <1>2. PICK s : s = [generation |-> 1, context |-> c, state |-> "connecting"]
    OBVIOUS
  <1>3. MaxRefreshes \in Nat /\ 1 \in 1 .. MaxGeneration
    BY PortfolioAssumption DEF MaxGeneration
  <1>4. s \in SocketType /\ s.generation = 1 /\ s.context = c
    BY <1>2, <1>3 DEF SocketType
  <1>5. sockets \in Seq(SocketType) /\ Len(sockets) = 1 /\ \A i \in 1 .. Len(sockets) : sockets[i] = s
    BY <1>1, <1>2, <1>4
  <1>6. RealtimeTypeOK
    <2>1. wsRef \in 0 .. Len(sockets)
      BY <1>5 DEF RealtimeInit
    <2>2. strays \in [Portfolios -> Nat]
      BY DEF RealtimeInit
    <2> QED
      BY <1>1, <1>3, <1>5, <2>1, <2>2 DEF RealtimeInit, RealtimeTypeOK, SocketType, MaxGeneration
  <1>7. \A p \in pollsOpen \cup {pollInterval} : p.generation = 0
    BY DEF RealtimeInit, PollingOff
  <1>8. AllBelong
    BY <1>1, <1>4, <1>5, <1>7 DEF RealtimeInit, AllBelong, BelongsTo
  <1> QED
    BY <1>1, <1>3, <1>4, <1>5, <1>6, <1>7, <1>8 DEF RealtimeInit, RealtimeInv, MaxGeneration

LEMMA ClosedSockets ==
  ASSUME NEW ss \in Seq(SocketType), NEW i \in 0 .. Len(ss)
  PROVE  /\ Closed(ss, i) \in Seq(SocketType) /\ Len(Closed(ss, i)) = Len(ss)
         /\ \A k \in 1 .. Len(ss) : /\ Closed(ss, i)[k].generation = ss[k].generation
                                    /\ Closed(ss, i)[k].context = ss[k].context
  <1>1. CASE i = 0
    BY <1>1 DEF Closed
  <1>2. CASE i # 0
    <2>1. PICK z : z = [ss[i] EXCEPT !.state = "closed"]
      OBVIOUS
    <2>2. i \in 1 .. Len(ss) /\ ss[i] \in SocketType
      BY <1>2
    <2>3. z \in SocketType /\ z.generation = ss[i].generation /\ z.context = ss[i].context
      BY <2>1, <2>2 DEF SocketType
    <2>4. Closed(ss, i) = [ss EXCEPT ![i] = z]
      BY <1>2, <2>1 DEF Closed
    <2> QED
      BY <2>2, <2>3, <2>4
  <1> QED
    BY <1>1, <1>2

\* What a step may do to the sockets and polls while the generation stays: keep the
\* accounts and generations of what is there, and add what is for account c.
SocketsGoOn(c) ==
  /\ sockets' \in Seq(SocketType) /\ Len(sockets') \in Nat /\ wsRef' \in 0 .. Len(sockets')
  /\ \A i \in 1 .. Len(sockets') :
       \/ /\ i \in 1 .. Len(sockets) /\ sockets'[i].generation = sockets[i].generation
          /\ sockets'[i].context = sockets[i].context
       \/ sockets'[i].generation = generation /\ sockets'[i].context = c
PollsGoOn(c) ==
  /\ pollsOpen' \subseteq PortfolioPolls /\ pollInterval' \in PortfolioPolls \cup {PollingOff}
  /\ \A p \in pollsOpen' \cup {pollInterval'} :
       p \in pollsOpen \cup {pollInterval} \/ (p.generation = generation /\ p.context = c)

LEMMA AccountStays ==
  ASSUME RealtimeInv, NEW c, SocketsGoOn(c), PollsGoOn(c),
         UNCHANGED <<rendered, activeContext, generation>>,
         timer' \in Portfolios \cup {NoPortfolio}, strays' \in [Portfolios -> Nat],
         strayed' \in BOOLEAN, connectionType' \in ConnectionTypes,
         shownOf' \in Portfolios \cup {NoPortfolio},
         strayed' \/ (~strayed /\ c = activeContext /\ shownOf' \in {activeContext, NoPortfolio})
  PROVE  RealtimeInv'
  <1>1. RealtimeTypeOK'
    BY RealtimeTypes
       DEF SocketsGoOn, PollsGoOn, RealtimeInv, RealtimeTypeOK, SocketType, MaxGeneration, ConnectionTypes
  <1>2. generation \in Nat /\ generation <= generation
    BY RealtimeTypes
  <1>3. \A i \in 1 .. Len(sockets') : sockets'[i].generation <= generation
    <2>1. \A i \in 1 .. Len(sockets) : sockets[i].generation <= generation
      BY RealtimeTypes
    <2> QED
      BY <1>2, <2>1 DEF SocketsGoOn
  <1>4. \A p \in pollsOpen' \cup {pollInterval'} : p.generation <= generation
    <2>1. \A p \in pollsOpen \cup {pollInterval} : p.generation <= generation
      BY RealtimeTypes
    <2> QED
      BY <1>2, <2>1 DEF PollsGoOn
  <1>5. ASSUME ~strayed' PROVE AllBelong'
    <2>1. AllBelong /\ c = activeContext
      BY <1>5 DEF RealtimeInv
    <2>2. \A i \in 1 .. Len(sockets') : BelongsTo(sockets'[i], generation, activeContext)
      BY <1>3, <2>1 DEF SocketsGoOn, AllBelong, BelongsTo
    <2>3. \A p \in pollsOpen' \cup {pollInterval'} : BelongsTo(p, generation, activeContext)
      BY <1>4, <2>1 DEF PollsGoOn, AllBelong, BelongsTo
    <2> QED
      BY <1>5, <2>2, <2>3 DEF AllBelong, BelongsTo
  <1> QED
    BY <1>1, <1>3, <1>4, <1>5 DEF RealtimeInv

LEMMA SameConnection ==
  ASSUME RealtimeInv, NEW c, UNCHANGED <<sockets, wsRef>>
  PROVE  SocketsGoOn(c)
  BY RealtimeTypes DEF SocketsGoOn

LEMMA SamePolls ==
  ASSUME RealtimeInv, NEW c, UNCHANGED pollInterval, pollsOpen' \subseteq pollsOpen
  PROVE  PollsGoOn(c)
  BY RealtimeTypes DEF PollsGoOn

\* A call of connectWebSocket for account c adds what is for c, or strays.
LEMMA ConnectsInv ==
  ASSUME RealtimeInv, NEW c \in Portfolios, Connects(c)
  PROVE  /\ connectionType' \in ConnectionTypes
         /\ SocketsGoOn(c) /\ PollsGoOn(c)
         /\ IsOpen => SocketsGoOn(activeContext) /\ PollsGoOn(activeContext)
  <1>1. ASSUME NEW d, UNCHANGED <<sockets, wsRef>> PROVE SocketsGoOn(d)
    BY <1>1, SameConnection
  <1>2. ASSUME NEW d, UNCHANGED <<pollInterval, pollsOpen>> PROVE PollsGoOn(d)
    BY <1>2, SamePolls
  <1>3. ASSUME PollingStarts(generation, c) PROVE PollsGoOn(c)
    <2>1. PICK p : p = [generation |-> generation, context |-> c]
      OBVIOUS
    <2>2. p \in PortfolioPolls /\ p.generation = generation /\ p.context = c
      BY <2>1, RealtimeTypes
    <2>3. pollsOpen' = pollsOpen \cup {p} /\ pollInterval' = p
      BY <1>3, <2>1 DEF PollingStarts
    <2> QED
      BY <2>2, <2>3, RealtimeTypes DEF PollsGoOn
  <1>4. ASSUME SocketMade(generation, c) PROVE SocketsGoOn(c)
    <2>1. PICK s : s = [generation |-> generation, context |-> c, state |-> "connecting"]
      OBVIOUS
    <2>2. s \in SocketType /\ s.generation = generation /\ s.context = c
      BY <2>1, RealtimeTypes DEF SocketType
    <2>3. sockets' = Append(sockets, s) /\ wsRef' = Len(sockets) + 1
      BY <1>4, <2>1 DEF SocketMade
    <2> QED
      BY <2>2, <2>3, RealtimeTypes DEF SocketsGoOn
  <1>5. connectionType' \in ConnectionTypes
    BY RealtimeTypes DEF Connects, PollingStarts, ConnectionTypes
  <1>6. SocketsGoOn(c) /\ PollsGoOn(c)
    BY <1>1, <1>2, <1>3, <1>4 DEF Connects
  <1>7. ASSUME IsOpen PROVE SocketsGoOn(activeContext) /\ PollsGoOn(activeContext)
    BY <1>1, <1>2, <1>7 DEF Connects
  <1> QED
    BY <1>5, <1>6, <1>7

\* A scheduled call fires, its own or a stray one.
LEMMA FiresInv ==
  ASSUME RealtimeInv, NEW c \in Portfolios, Connects(c), Strays(c),
         UNCHANGED <<rendered, activeContext, generation, shownOf>>,
         timer' \in Portfolios \cup {NoPortfolio}, strays' \in [Portfolios -> Nat]
  PROVE  RealtimeInv'
  <1>1. strayed' = (strayed \/ (~IsOpen /\ c # activeContext)) /\ strayed \in BOOLEAN
    BY RealtimeTypes DEF Strays
  <1>2. strayed \/ shownOf \in {activeContext, NoPortfolio}
    BY DEF RealtimeInv, AllBelong
  <1>3. shownOf \in Portfolios \cup {NoPortfolio}
    BY RealtimeTypes
  <1>4. PICK d : /\ SocketsGoOn(d) /\ PollsGoOn(d)
                 /\ strayed' \/ (~strayed /\ d = activeContext)
    <2>1. CASE IsOpen
      BY <1>1, <2>1, ConnectsInv
    <2>2. CASE ~IsOpen
      BY <1>1, <2>2, ConnectsInv
    <2> QED
      BY <2>1, <2>2
  <1> QED
    BY <1>1, <1>2, <1>3, <1>4, ConnectsInv, AccountStays

\* Socket i changes its state.
LEMMA SocketChanges ==
  ASSUME RealtimeInv, NEW c, NEW i \in 1 .. Len(sockets), NEW s \in {"connecting", "open", "closed"},
         sockets' = [sockets EXCEPT ![i].state = s], wsRef' = wsRef
  PROVE  SocketsGoOn(c)
  <1>1. PICK z : z = [sockets[i] EXCEPT !.state = s]
    OBVIOUS
  <1>2. z \in SocketType /\ z.generation = sockets[i].generation /\ z.context = sockets[i].context
    BY <1>1, RealtimeTypes DEF SocketType
  <1>3. sockets' = [sockets EXCEPT ![i] = z]
    BY <1>1
  <1>4. sockets' \in Seq(SocketType) /\ Len(sockets') = Len(sockets)
    <2>1. sockets \in Seq(SocketType) /\ z \in SocketType
      BY <1>2, RealtimeTypes
    <2> QED
      BY <1>3, <2>1
  <1>5. \A k \in 1 .. Len(sockets) : /\ sockets'[k].generation = sockets[k].generation
                                     /\ sockets'[k].context = sockets[k].context
    BY <1>2, <1>3, RealtimeTypes
  <1> QED
    BY <1>4, <1>5, RealtimeTypes DEF SocketsGoOn

\* A new generation, of an effect or of disconnect: nothing that was there has it.
LEMMA NewGeneration ==
  ASSUME RealtimeInv, NEW g \in 1 .. MaxGeneration, g > generation, g <= 2 * MaxRefreshes + 1,
         generation' = g, rendered' = rendered, activeContext' = rendered,
         shownOf' = NoPortfolio, TimerCleared, connectionType' \in ConnectionTypes,
         NEW s \in SocketType, s.generation = g, s.context = rendered,
         NEW p \in PortfolioPolls, p.generation = g, p.context = rendered,
         \/ sockets' = Append(Closed(sockets, wsRef), s) /\ wsRef' = Len(sockets) + 1
         \/ sockets' = Closed(sockets, wsRef) /\ wsRef' = 0,
         pollInterval' \in {p, PollingOff}, pollsOpen' \subseteq pollsOpen \cup {p}
  PROVE  RealtimeInv'
  <1>1. PICK ss : ss = Closed(sockets, wsRef)
    OBVIOUS
  <1>2. /\ ss \in Seq(SocketType) /\ Len(ss) = Len(sockets) /\ Len(ss) \in Nat
        /\ \A k \in 1 .. Len(ss) : ss[k].generation <= generation
    <2>1. sockets \in Seq(SocketType) /\ wsRef \in 0 .. Len(sockets) /\ Len(sockets) \in Nat
      BY RealtimeTypes
    <2>2. \A k \in 1 .. Len(sockets) : sockets[k].generation <= generation
      BY RealtimeTypes
    <2> QED
      BY <1>1, <2>1, <2>2, ClosedSockets
  <1>3. /\ sockets' \in Seq(SocketType) /\ Len(sockets') \in Nat /\ wsRef' \in 0 .. Len(sockets')
        /\ \A k \in 1 .. Len(sockets') : sockets'[k] = s \/ sockets'[k].generation <= generation
    <2>1. CASE sockets' = ss /\ wsRef' = 0
      BY <1>2, <2>1
    <2>2. CASE sockets' = Append(ss, s) /\ wsRef' = Len(sockets) + 1
      <3>1. /\ sockets' \in Seq(SocketType) /\ Len(sockets') = Len(ss) + 1
            /\ \A k \in 1 .. Len(ss) : sockets'[k] = ss[k]
            /\ sockets'[Len(ss) + 1] = s
        BY <1>2, <2>2
      <3>2. wsRef' \in 0 .. Len(sockets') /\ Len(sockets') \in Nat
        BY <1>2, <2>2, <3>1
      <3>3. \A k \in 1 .. Len(sockets') : k \in 1 .. Len(ss) \/ k = Len(ss) + 1
        BY <1>2, <3>1
      <3> QED
        BY <1>2, <3>1, <3>2, <3>3
    <2> QED
      BY <1>1, <2>1, <2>2
  <1>4. /\ pollsOpen' \subseteq PortfolioPolls /\ pollInterval' \in PortfolioPolls \cup {PollingOff}
        /\ \A q \in pollsOpen' \cup {pollInterval'} :
             q = p \/ q = PollingOff \/ q.generation <= generation
    BY RealtimeTypes
  <1>5. /\ timer' = NoPortfolio /\ strayed' = FALSE /\ strays' = strays
    BY DEF TimerCleared
  <1>6. RealtimeTypeOK'
    BY <1>3, <1>4, <1>5, RealtimeTypes DEF RealtimeTypeOK, SocketType, MaxGeneration, ConnectionTypes
  <1>7. /\ \A k \in 1 .. Len(sockets') : sockets'[k].generation \in Int
        /\ \A q \in pollsOpen' \cup {pollInterval'} : q.generation \in Int
    <2>1. \A k \in 1 .. Len(sockets') : sockets'[k] \in SocketType
      BY <1>3
    <2>2. \A z \in SocketType : z.generation \in Int
      BY RealtimeTypes DEF SocketType
    <2>3. \A q \in PortfolioPolls \cup {PollingOff} : q.generation \in Int
      BY DEF PortfolioPolls, PollingOff
    <2> QED
      BY <1>4, <2>1, <2>2, <2>3
  <1>8. g \in Int /\ generation \in Int /\ g > 0
    BY RealtimeTypes
  <1>9. \A k \in 1 .. Len(sockets') : BelongsTo(sockets'[k], g, rendered)
    BY <1>3, <1>7, <1>8 DEF BelongsTo
  <1>10. \A q \in pollsOpen' \cup {pollInterval'} : BelongsTo(q, g, rendered)
    <2>1. PollingOff.generation = 0
      BY DEF PollingOff
    <2> QED
      BY <1>4, <1>7, <1>8, <2>1 DEF BelongsTo
  <1>11. AllBelong'
    BY <1>9, <1>10 DEF AllBelong, BelongsTo
  <1> QED
    BY <1>6, <1>9, <1>10, <1>11 DEF RealtimeInv, BelongsTo

LEMMA EffectInv ==
  ASSUME RealtimeInv, EffectRuns \/ Disconnects
  PROVE  RealtimeInv'
  <1>1. PICK g : /\ generation' = g /\ g \in 1 .. MaxGeneration /\ g <= 2 * MaxRefreshes + 1
                 /\ g > generation /\ (g = generation + 2 \/ ~EffectRuns)
    <2>1. generation < 2 * MaxRefreshes
      BY DEF EffectRuns, Disconnects, RealtimeInv
    <2>2. generation \in 1 .. MaxGeneration /\ MaxRefreshes \in Nat /\ MaxGeneration = 2 * MaxRefreshes + 2
      BY RealtimeTypes
    <2>3. CASE EffectRuns
      <3>1. generation' = generation + 2
        BY <2>3 DEF EffectRuns
      <3> QED
        BY <2>1, <2>2, <3>1
    <2>4. CASE Disconnects
      <3>1. generation' = generation + 1 /\ rendered = activeContext /\ ~EffectRuns
        BY <2>4 DEF EffectRuns, Disconnects
      <3> QED
        BY <2>1, <2>2, <3>1
    <2> QED
      BY <2>3, <2>4
  <1>2. PICK s, p : /\ s = [generation |-> g, context |-> rendered, state |-> "connecting"]
                    /\ p = [generation |-> g, context |-> rendered]
    OBVIOUS
  <1>3. /\ s \in SocketType /\ s.generation = g /\ s.context = rendered
        /\ p \in PortfolioPolls /\ p.generation = g /\ p.context = rendered
    BY <1>1, <1>2, RealtimeTypes DEF SocketType
  <1>4. /\ rendered' = rendered /\ activeContext' = rendered /\ shownOf' = NoPortfolio /\ TimerCleared
    BY DEF EffectRuns, Disconnects
  <1>5. /\ \/ sockets' = Append(Closed(sockets, wsRef), s) /\ wsRef' = Len(sockets) + 1
           \/ sockets' = Closed(sockets, wsRef) /\ wsRef' = 0
        /\ pollInterval' \in {p, PollingOff} /\ pollsOpen' \subseteq pollsOpen \cup {p}
        /\ connectionType' \in ConnectionTypes
    <2>1. CASE EffectRuns
      <3>1. g = generation + 2
        BY <1>1, <2>1
      <3> QED
        BY <1>2, <2>1, <3>1 DEF EffectRuns, PollingStarts, ConnectionTypes
    <2>2. CASE Disconnects
      BY <2>2 DEF Disconnects, ConnectionTypes
    <2> QED
      BY <2>1, <2>2
  <1> QED
    BY <1>1, <1>3, <1>4, <1>5, NewGeneration

LEMMA RealtimeStepInv ==
  ASSUME RealtimeInv, [RealtimeNext]_realtimeVars
  PROVE  RealtimeInv'
  <1>1. CASE UNCHANGED realtimeVars
    BY <1>1 DEF realtimeVars, RealtimeInv, RealtimeTypeOK, AllBelong, BelongsTo
  <1>2. CASE EffectRuns \/ Disconnects
    BY <1>2, EffectInv
  <1>3. CASE TimerFires
    <2>1. timer \in Portfolios
      BY <1>3, RealtimeTypes DEF TimerFires
    <2> QED
      BY <1>3, <2>1, FiresInv, RealtimeTypes DEF TimerFires
  <1>4. ASSUME NEW c \in Portfolios, StrayFires(c) PROVE RealtimeInv'
    <2>1. strays' \in [Portfolios -> Nat]
      BY <1>4, RealtimeTypes DEF StrayFires
    <2> QED
      BY <1>4, <2>1, FiresInv, RealtimeTypes DEF StrayFires
  <1>5. CASE Reconnects
    <2>1. /\ rendered \in Portfolios /\ rendered = activeContext /\ Connects(rendered)
          /\ UNCHANGED <<rendered, activeContext, generation, timer, strays, strayed, shownOf>>
      BY <1>5, RealtimeTypes DEF Reconnects
    <2>2. strayed \/ shownOf \in {activeContext, NoPortfolio}
      BY DEF RealtimeInv, AllBelong
    <2> QED
      BY <2>1, <2>2, ConnectsInv, AccountStays, RealtimeTypes
  <1>6. ASSUME NEW d, UNCHANGED <<pollInterval, pollsOpen>> PROVE PollsGoOn(d)
    BY <1>6, SamePolls
  <1>7. strayed \/ shownOf \in {activeContext, NoPortfolio}
    BY DEF RealtimeInv, AllBelong
  <1>8. CASE PollsAgain
    <2>1. PollsGoOn(activeContext)
      BY <1>8, RealtimeTypes DEF PollsAgain, PollsGoOn, connection
    <2> QED
      BY <1>7, <1>8, <2>1, SameConnection, AccountStays, RealtimeTypes DEF PollsAgain, connection
  <1>9. ASSUME NEW c \in Portfolios, ContextChanges(c) PROVE RealtimeInv'
    BY <1>9, RealtimeTypes DEF ContextChanges, connection, RealtimeInv, RealtimeTypeOK, AllBelong, BelongsTo
  <1>10. ASSUME NEW i \in 1 .. Len(sockets), SocketOpens(i) PROVE RealtimeInv'
    <2>1. connectionType' \in ConnectionTypes
      BY <1>10, RealtimeTypes DEF SocketOpens, ConnectionTypes
    <2>2. SocketsGoOn(activeContext)
      BY <1>10, SocketChanges DEF SocketOpens
    <2>3. /\ UNCHANGED <<rendered, activeContext, generation, timer, strays, strayed, pollInterval,
                         pollsOpen, shownOf>>
      BY <1>10 DEF SocketOpens
    <2> QED
      BY <1>6, <1>7, <2>1, <2>2, <2>3, AccountStays, RealtimeTypes
  <1>11. ASSUME NEW i \in 1 .. Len(sockets), SocketTells(i) PROVE RealtimeInv'
    <2>1. shownOf' = sockets[i].context /\ sockets[i].context \in Portfolios
      BY <1>11, RealtimeTypes DEF SocketTells, SocketType
    <2>2. strayed \/ sockets[i].context = activeContext
      BY <1>11 DEF SocketTells, Current, RealtimeInv, AllBelong, BelongsTo
    <2>3. UNCHANGED <<rendered, activeContext, generation, pollsOpen, connectionType, sockets, wsRef,
                      timer, strays, strayed, pollInterval>>
      BY <1>11 DEF SocketTells, connection
    <2> QED
      BY <1>6, <2>1, <2>2, <2>3, SameConnection, AccountStays, RealtimeTypes
  <1>12. ASSUME NEW i \in 1 .. Len(sockets), SocketCloses(i) PROVE RealtimeInv'
    <2>1. connectionType' \in ConnectionTypes /\ timer' \in Portfolios \cup {NoPortfolio}
      BY <1>12, RealtimeTypes DEF SocketCloses, ConnectionTypes, SocketType
    <2>2. strays' \in [Portfolios -> Nat]
      <3>1. CASE Current(i)
        <4>1. strays' = [c \in Portfolios |-> strays[c] + IF c = timer THEN 1 ELSE 0]
          BY <1>12, <3>1 DEF SocketCloses
        <4>2. \A c \in Portfolios : strays[c] + (IF c = timer THEN 1 ELSE 0) \in Nat
          <5>1. \A c \in Portfolios : strays[c] \in Nat
            BY RealtimeTypes
          <5> QED
            BY <5>1
        <4> QED
          BY <4>1, <4>2, Zenon
      <3>2. CASE ~Current(i)
        BY <1>12, <3>2, RealtimeTypes DEF SocketCloses
      <3> QED
        BY <3>1, <3>2
    <2>3. SocketsGoOn(activeContext)
      BY <1>12, SocketChanges DEF SocketCloses
    <2>4. UNCHANGED <<rendered, activeContext, generation, strayed, pollInterval, pollsOpen, shownOf>>
      BY <1>12 DEF SocketCloses
    <2> QED
      BY <1>6, <1>7, <2>1, <2>2, <2>3, <2>4, AccountStays, RealtimeTypes
  <1>13. ASSUME NEW p \in pollsOpen, PortfolioPolled(p) \/ PortfolioPollFails(p) PROVE RealtimeInv'
    <2>1. /\ pollsOpen' \subseteq pollsOpen
          /\ UNCHANGED <<rendered, activeContext, generation, connectionType, sockets, wsRef, timer,
                         strays, strayed, pollInterval>>
          /\ shownOf' = shownOf \/ (p.generation = generation /\ shownOf' = p.context)
      BY <1>13 DEF PortfolioPolled, PortfolioPollFails, connection, IsFresh
    <2>2. PollsGoOn(activeContext)
      BY <2>1, SamePolls
    <2>3. shownOf' \in Portfolios \cup {NoPortfolio}
      BY <2>1, RealtimeTypes
    <2>4. strayed \/ shownOf' \in {activeContext, NoPortfolio}
      BY <1>7, <2>1 DEF RealtimeInv, AllBelong, BelongsTo
    <2> QED
      BY <2>1, <2>2, <2>3, <2>4, SameConnection, AccountStays, RealtimeTypes
  <1> QED
    BY <1>1, <1>2, <1>3, <1>4, <1>5, <1>8, <1>9, <1>10, <1>11, <1>12, <1>13 DEF RealtimeNext

-----------------------------------------------------------------------------
(***************************************************************************)
(* The wizard of a first visit (OnboardingWizard.tsx).                      *)
(***************************************************************************)

\* Past the wallet step with a wallet.
HasKey(w) == w \in Snapshots /\ (w.step > ConnectStep => w.key # NoWallet)

WizardInv ==
  /\ visible \subseteq Tabs /\ wizard \in [Tabs -> Snapshots] /\ connects \in [Tabs -> SUBSET Snapshots]
  /\ \A t \in visible : HasKey(wizard[t])
  /\ HasKey(savedWizard) /\ onboarded \in BOOLEAN
  /\ completed \in Wallets \cup {"not yet"}

LEMMA NothingHasKey == NothingSaved \in Snapshots /\ HasKey(NothingSaved)
  <1>1. NothingSaved \in Snapshots /\ NothingSaved.step = 1
    BY DEF NothingSaved, Snapshots, LastStep
  <1> QED
    BY <1>1 DEF HasKey, ConnectStep

\* A step number is the first, the wallet's or a later one.
LEMMA StepOf ==
  ASSUME NEW w \in Snapshots
  PROVE  w.step \in {1, 2, 3, 4, 5}
  <1>1. w.step \in 1 .. 5
    BY DEF Snapshots, LastStep
  <1> QED
    BY <1>1

\* HasKey in numbers.
LEMMA KeyAt ==
  ASSUME NEW w \in Snapshots
  PROVE  HasKey(w) <=> (w.step \in {3, 4, 5} => w.key # NoWallet)
  <1>1. w.step > 2 <=> w.step \in {3, 4, 5}
    BY StepOf
  <1> QED
    BY <1>1 DEF HasKey, ConnectStep

LEMMA WizardInitInv == WizardInit => WizardInv
  <1> SUFFICES ASSUME WizardInit PROVE WizardInv
    OBVIOUS
  <1>1. HasKey(NothingSaved) /\ NothingSaved \in Snapshots
    BY NothingHasKey
  <1> QED
    BY <1>1 DEF WizardInit, WizardInv, HasKey

\* A tab and what is saved change.
LEMMA TabChanges ==
  ASSUME WizardInv, NEW t \in Tabs, NEW w \in Snapshots, NEW s, HasKey(s),
         wizard' = [wizard EXCEPT ![t] = w], savedWizard' = s,
         visible' \subseteq visible \cup {t}, t \in visible' => HasKey(w),
         \/ connects' = connects
         \/ \E c \in SUBSET Snapshots : connects' = [connects EXCEPT ![t] = c],
         onboarded' \in BOOLEAN, completed' \in Wallets \cup {"not yet"}
  PROVE  WizardInv'
  <1>1. /\ wizard' \in [Tabs -> Snapshots] /\ connects' \in [Tabs -> SUBSET Snapshots]
        /\ \A u \in Tabs : wizard'[u] = IF u = t THEN w ELSE wizard[u]
    BY DEF WizardInv
  <1>2. visible' \subseteq Tabs /\ \A u \in visible' : HasKey(wizard'[u])
    BY <1>1 DEF WizardInv
  <1> QED
    BY <1>1, <1>2 DEF WizardInv, HasKey

LEMMA WizardStepInv ==
  ASSUME WizardInv, [WizardNext]_wizardVars
  PROVE  WizardInv'
  <1>1. CASE UNCHANGED wizardVars
    BY <1>1 DEF wizardVars, WizardInv, HasKey
  <1>2. CASE WizardNext
    <2>1. PICK t \in Tabs :
            \/ PageLoads(t) \/ GoNext(t) \/ GoPrev(t) \/ ChooseStrategy(t) \/ TypeAmount(t)
            \/ SkipDeposit(t) \/ AskWallet(t) \/ Complete(t) \/ Dismiss(t)
            \/ \E s \in connects[t] : WalletAnswers(t, s) \/ WalletRefuses(t, s)
      BY <1>2 DEF WizardNext
    <2>2. PICK w \in Snapshots : w = wizard[t]
      BY <2>1 DEF WizardInv
    <2>3. /\ w.step \in 1 .. LastStep /\ w.key \in Wallets \cup {NoWallet}
          /\ w.amount \in {"", "some"} /\ w.strategy \in {"Balanced", "Growth"}
          /\ t \in visible => HasKey(w)
      BY <2>2 DEF Snapshots, WizardInv
    <2>4. \A v \in Snapshots, x \in Snapshots :
            ChangesTo(t, v, x) /\ UNCHANGED connects /\ HasKey(v) /\ HasKey(x) => WizardInv'
      BY TabChanges DEF ChangesTo, WizardInv
    <2>5. CASE PageLoads(t)
      <3>1. HasKey(NothingSaved) /\ HasKey(savedWizard) /\ NothingSaved \in Snapshots
        BY NothingHasKey DEF WizardInv
      <3>2. PICK x : x = IF onboarded THEN NothingSaved ELSE savedWizard
        OBVIOUS
      <3>3. HasKey(x) /\ x \in Snapshots
        BY <3>1, <3>2 DEF HasKey
      <3>4. /\ wizard' = [wizard EXCEPT ![t] = x] /\ connects' = [connects EXCEPT ![t] = {}]
            /\ visible' \subseteq visible \cup {t}
            /\ savedWizard' = savedWizard /\ onboarded' = onboarded /\ completed' = completed
        BY <2>5, <3>2 DEF PageLoads, Restored
      <3> QED
        BY <3>1, <3>3, <3>4, TabChanges DEF WizardInv
    <2>6. CASE GoNext(t)
      <3>1. PICK x : x = [w EXCEPT !.step = @ + 1]
        OBVIOUS
      <3>2. MayGoOn(w) /\ ChangesTo(t, x, x) /\ UNCHANGED connects /\ t \in visible
        BY <2>2, <2>6, <3>1 DEF GoNext, ChangesTo
      <3>3. w.step + 1 \in 1 .. LastStep
        BY <3>2, StepOf DEF MayGoOn, LastStep
      <3>4. x.step = w.step + 1 /\ x.key = w.key /\ x \in Snapshots
        BY <3>1, <3>3 DEF Snapshots
      <3>5. w.step \in {2, 3, 4, 5} => w.key # NoWallet
        BY <2>3, <3>2, KeyAt DEF MayGoOn, ConnectStep
      <3>6. HasKey(x)
        <4>1. x.step \in {3, 4, 5} => w.step \in {2, 3, 4, 5}
          BY <3>4, StepOf
        <4> QED
          BY <3>4, <3>5, <4>1, KeyAt
      <3> QED
        BY <2>4, <3>2, <3>4, <3>6
    <2>7. CASE GoPrev(t)
      <3>1. PICK x : x = [w EXCEPT !.step = @ - 1]
        OBVIOUS
      <3>2. w.step > 1 /\ ChangesTo(t, x, x) /\ UNCHANGED connects /\ t \in visible
        BY <2>2, <2>7, <3>1 DEF GoPrev, ChangesTo
      <3>3. w.step - 1 \in 1 .. LastStep
        BY <3>2, StepOf DEF LastStep
      <3>4. x.step = w.step - 1 /\ x.key = w.key /\ x \in Snapshots
        BY <3>1, <3>3 DEF Snapshots
      <3>5. x.step \in {3, 4, 5} => w.step \in {3, 4, 5}
        BY <3>4, StepOf
      <3>6. HasKey(x)
        BY <2>3, <3>2, <3>4, <3>5, KeyAt
      <3> QED
        BY <2>4, <3>2, <3>4, <3>6
    <2>8. CASE ChooseStrategy(t)
      <3>1. PICK s \in {"Balanced", "Growth"} :
              ChangesTo(t, [w EXCEPT !.strategy = s], [w EXCEPT !.strategy = s]) /\ UNCHANGED connects
        BY <2>2, <2>8 DEF ChooseStrategy
      <3>2. PICK x : x = [w EXCEPT !.strategy = s]
        OBVIOUS
      <3>3. x.step = w.step /\ x.key = w.key /\ x \in Snapshots
        BY <3>2 DEF Snapshots
      <3>4. HasKey(x) /\ ChangesTo(t, x, x)
        BY <2>3, <3>1, <3>2, <3>3 DEF HasKey, ChangesTo
      <3> QED
        BY <2>4, <3>1, <3>3, <3>4
    <2>9. CASE TypeAmount(t)
      <3>1. PICK a \in {"", "some"} :
              ChangesTo(t, [w EXCEPT !.amount = a], [w EXCEPT !.amount = a]) /\ UNCHANGED connects
        BY <2>2, <2>9 DEF TypeAmount
      <3>2. PICK x : x = [w EXCEPT !.amount = a]
        OBVIOUS
      <3>3. x.step = w.step /\ x.key = w.key /\ x \in Snapshots
        BY <3>2 DEF Snapshots
      <3>4. HasKey(x) /\ ChangesTo(t, x, x)
        BY <2>3, <3>1, <3>2, <3>3 DEF HasKey, ChangesTo
      <3> QED
        BY <2>4, <3>1, <3>3, <3>4
    <2>10. CASE SkipDeposit(t)
      <3>1. PICK v, x : v = [w EXCEPT !.step = @ + 1, !.amount = ""] /\ x = [w EXCEPT !.step = @ + 1]
        OBVIOUS
      <3>2. w.step = 4 /\ ChangesTo(t, v, x) /\ UNCHANGED connects /\ t \in visible
        BY <2>2, <2>10, <3>1 DEF SkipDeposit, ChangesTo, DepositStep
      <3>3. w.step + 1 = 5 /\ 5 \in 1 .. LastStep /\ "" \in {"", "some"}
        BY <3>2 DEF LastStep
      <3>4. v.key = w.key /\ v \in Snapshots
        BY <3>1, <3>3 DEF Snapshots
      <3>5. x.key = w.key /\ x \in Snapshots
        BY <3>1, <3>3 DEF Snapshots
      <3>6. w.key # NoWallet
        BY <2>3, <3>2, KeyAt
      <3>7. HasKey(v) /\ HasKey(x)
        BY <3>4, <3>5, <3>6 DEF HasKey
      <3> QED
        BY <2>4, <3>2, <3>4, <3>5, <3>7
    <2>11. CASE AskWallet(t)
      BY <2>2, <2>11 DEF AskWallet, WizardInv, HasKey
    <2>12. CASE Complete(t) \/ Dismiss(t)
      <3>1. HasKey(NothingSaved)
        BY NothingHasKey
      <3>2. completed' \in Wallets \cup {"not yet"}
        <4>1. CASE Complete(t)
          <5>1. w.step = 5 /\ t \in visible /\ completed' = w.key
            BY <2>2, <4>1 DEF Complete, Leaves, LastStep
          <5>2. w.key # NoWallet
            BY <2>3, <5>1, KeyAt
          <5> QED
            BY <2>3, <5>1, <5>2
        <4>2. CASE Dismiss(t)
          BY <4>2 DEF Dismiss, WizardInv
        <4> QED
          BY <2>12, <4>1, <4>2
      <3> QED
        BY <2>12, <3>1, <3>2 DEF Complete, Dismiss, Leaves, WizardInv, HasKey
    <2>13. ASSUME NEW s \in connects[t], WalletAnswers(t, s) PROVE WizardInv'
      <3>1. PICK k \in Wallets : /\ wizard' = [wizard EXCEPT ![t].key = k]
                                 /\ savedWizard' = [s EXCEPT !.key = k]
        BY <2>13 DEF WalletAnswers
      <3>2. PICK v, x : v = [w EXCEPT !.key = k] /\ x = [s EXCEPT !.key = k]
        OBVIOUS
      <3>3. s \in Snapshots /\ connects[t] \subseteq Snapshots
        BY <2>13 DEF WizardInv
      <3>4. v \in Snapshots /\ x \in Snapshots /\ v.key = k /\ x.key = k /\ k # NoWallet
        BY <3>2, <3>3, WizardAssumption DEF Snapshots
      <3>5. HasKey(v) /\ HasKey(x)
        BY <3>4 DEF HasKey
      <3>6. wizard' = [wizard EXCEPT ![t] = v] /\ savedWizard' = x
        BY <2>2, <3>1, <3>2
      <3>7. \E c \in SUBSET Snapshots : connects' = [connects EXCEPT ![t] = c]
        BY <2>13, <3>3 DEF WalletAnswers
      <3> QED
        BY <2>13, <3>4, <3>5, <3>6, <3>7, TabChanges DEF WalletAnswers, WizardInv
    <2>14. ASSUME NEW s \in connects[t], WalletRefuses(t, s) PROVE WizardInv'
      BY <2>14 DEF WalletRefuses, WizardInv, HasKey
    <2> QED
      BY <2>1, <2>5, <2>6, <2>7, <2>8, <2>9, <2>10, <2>11, <2>12, <2>13, <2>14
  <1> QED
    BY <1>1, <1>2

-----------------------------------------------------------------------------
(***************************************************************************)
(* The pause banner (VaultPauseBanner.tsx, api/vault/status/route.ts).      *)
(* Every cache keeps an answer for a bounded time, so an answer is at most  *)
(* Lag ticks old when it leaves for the page.  What the page shows can be   *)
(* older only while no later poll has been answered: each poll since is on  *)
(* its way, for MaxDelay ticks at most, or has been lost and counted.       *)
(***************************************************************************)

Lag == 1 + BrowserLag

\* The polls, by the ticks since they were made, that the age n of the status tells
\* to be unanswered and that are not among the answers on the way.
MissingOf(d, n, w) ==
  {j \in (IF d THEN 1 ELSE 0) .. (n - (Lag + MaxDelay) - 1) : \A a \in w : a[2] # j}

PauseInv ==
  /\ PauseTypeOK
  /\ routeHeld <= 1 => routeCopy.age <= routeHeld
  /\ respHeld <= BrowserLag => response.age <= 1 + respHeld
  /\ \A a \in onTheWay : a[1].age <= Lag + a[2]
  /\ Cardinality(MissingOf(due, pageStatus.age, onTheWay)) <= misses

LEMMA PauseTypes ==
  ASSUME PauseInv
  PROVE  /\ BrowserLag \in Nat /\ MaxDelay \in Nat /\ MaxMisses \in Nat
         /\ MaxReloads \in Nat /\ Lag = 1 + BrowserLag /\ Lag \in Nat
         /\ routeCopy = NoStatus \/ routeCopy \in Statuses
         /\ response = NoStatus \/ response \in Statuses
         /\ pageStatus = NoStatus \/ pageStatus \in Statuses
         /\ routeCopy.age \in Nat /\ response.age \in Nat /\ pageStatus.age \in Nat
         /\ routeHeld \in 0 .. 2 /\ respHeld \in 0 .. BrowserLag + 1
         /\ routeHeld \in Nat /\ respHeld \in Nat
         /\ \A a \in onTheWay : /\ a[1] \in Statuses /\ a[2] \in 0 .. MaxDelay
                                /\ a[1].age \in Nat /\ a[2] \in Nat /\ a[1].age <= Lag + a[2]
         /\ dismissed \in BOOLEAN /\ dismissedInTab \in BOOLEAN /\ due \in BOOLEAN
         /\ misses \in 0 .. MaxMisses /\ reloads \in 0 .. MaxReloads
  <1>1. /\ BrowserLag \in Nat /\ MaxDelay \in Nat /\ MaxMisses \in Nat
        /\ MaxReloads \in Nat
    BY BannerLagAssumption
  <1>2. Lag = 1 + BrowserLag /\ Lag \in Nat
    BY <1>1 DEF Lag
  <1>3. NoStatus.age \in Nat /\ \A s \in Statuses : s.age \in Nat
    BY DEF NoStatus, Statuses
  <1>4. \A s \in {routeCopy, response, pageStatus} : s = NoStatus \/ s \in Statuses
    BY DEF PauseInv, PauseTypeOK
  <1>5. /\ routeHeld \in 0 .. 2 /\ respHeld \in 0 .. BrowserLag + 1
        /\ {dismissed, dismissedInTab, due} \subseteq BOOLEAN
        /\ misses \in 0 .. MaxMisses /\ reloads \in 0 .. MaxReloads
    BY DEF PauseInv, PauseTypeOK
  <1>6. \A a \in onTheWay : a[1] \in Statuses /\ a[2] \in 0 .. MaxDelay /\ a[1].age <= Lag + a[2]
    BY DEF PauseInv, PauseTypeOK
  <1> QED
    BY <1>1, <1>2, <1>3, <1>4, <1>5, <1>6

LEMMA MissingFinite ==
  ASSUME Lag \in Nat, MaxDelay \in Nat, NEW d \in BOOLEAN, NEW n \in Nat, NEW w
  PROVE  /\ IsFiniteSet(MissingOf(d, n, w)) /\ Cardinality(MissingOf(d, n, w)) \in Nat
         /\ n <= Lag + MaxDelay => Cardinality(MissingOf(d, n, w)) = 0
  <1> DEFINE lo == IF d THEN 1 ELSE 0
             hi == n - (Lag + MaxDelay) - 1
  <1>1. lo \in Int /\ hi \in Int /\ 0 <= lo
    OBVIOUS
  <1>2. MissingOf(d, n, w) \subseteq lo .. hi
    BY DEF MissingOf
  <1>3. n <= Lag + MaxDelay => hi < lo
    OBVIOUS
  <1> HIDE DEF lo, hi
  <1>4. n <= Lag + MaxDelay => MissingOf(d, n, w) = {}
    BY <1>1, <1>2, <1>3
  <1>5. IsFiniteSet(MissingOf(d, n, w))
    BY <1>1, <1>2, FS_Interval, FS_Subset
  <1> QED
    BY <1>4, <1>5, FS_CardinalityType, FS_EmptySet

LEMMA NothingMissing ==
  ASSUME Lag \in Nat, MaxDelay \in Nat
  PROVE  Cardinality(MissingOf(TRUE, 0, {})) = 0
  <1>1. 0 <= Lag + MaxDelay /\ 0 \in Nat /\ TRUE \in BOOLEAN
    OBVIOUS
  <1>2. \A w : Cardinality(MissingOf(TRUE, 0, w)) = 0
    BY <1>1, MissingFinite
  <1> QED
    BY <1>2

\* A tick shifts the polls that are missing.
LEMMA MissingTick ==
  ASSUME Lag \in Nat, MaxDelay \in Nat, NEW n \in Nat, NEW m \in Nat, m <= n + 1, NEW w, NEW v,
         \A a \in w : a[2] \in Nat /\ \E b \in v : b[2] = a[2] + 1
  PROVE  Cardinality(MissingOf(TRUE, m, v)) <= Cardinality(MissingOf(FALSE, n, w))
  <1> DEFINE S == MissingOf(TRUE, m, v)
             T == MissingOf(FALSE, n, w)
             f == [j \in S |-> j - 1]
  <1>1. ASSUME NEW j \in S PROVE j \in Int /\ j - 1 \in T
    <2>1. j \in 1 .. (m - (Lag + MaxDelay) - 1) /\ \A b \in v : b[2] # j
      BY DEF MissingOf
    <2>2. j \in Int /\ j - 1 \in 0 .. (n - (Lag + MaxDelay) - 1) /\ (j - 1) + 1 = j
      BY <2>1
    <2>3. \A a \in w : a[2] # j - 1
      BY <2>1, <2>2
    <2> QED
      BY <2>2, <2>3 DEF MissingOf
  <1> HIDE DEF S, T
  <1>2. f \in [S -> T]
    BY <1>1
  <1>3. \A i, j \in S : f[i] = f[j] => i = j
    BY <1>1
  <1>4. f \in Injection(S, T)
    BY <1>2, <1>3 DEF Injection, IsInjective
  <1>5. IsFiniteSet(T)
    BY MissingFinite DEF T
  <1> QED
    BY <1>4, <1>5, FS_Injection DEF S, T

\* One answer less on the way is at most one poll more that is missing.
LEMMA MissingLoses ==
  ASSUME Lag \in Nat, MaxDelay \in Nat, NEW d \in BOOLEAN, NEW n \in Nat, NEW w, NEW a \in w
  PROVE  Cardinality(MissingOf(d, n, w \ {a})) <= Cardinality(MissingOf(d, n, w)) + 1
  <1> DEFINE S == MissingOf(d, n, w \ {a})
             T == MissingOf(d, n, w)
  <1>1. S \subseteq T \cup {a[2]}
    BY DEF MissingOf
  <1>2. IsFiniteSet(T) /\ Cardinality(T) \in Nat /\ Cardinality(S) \in Nat
    BY MissingFinite
  <1> HIDE DEF S, T
  <1>3. IsFiniteSet(T \cup {a[2]}) /\ Cardinality(T \cup {a[2]}) <= Cardinality(T) + 1
    <2>1. PICK e : e = a[2]
      OBVIOUS
    <2>2. /\ IsFiniteSet(T \cup {e})
          /\ \/ Cardinality(T \cup {e}) = Cardinality(T)
             \/ Cardinality(T \cup {e}) = Cardinality(T) + 1
      BY <1>2, FS_AddElement
    <2>3. Cardinality(T \cup {e}) <= Cardinality(T) + 1
      BY <1>2, <2>2
    <2> QED
      BY <2>1, <2>2, <2>3
  <1>4. Cardinality(S) <= Cardinality(T \cup {a[2]})
    BY <1>1, <1>3, FS_Subset
  <1>5. Cardinality(T \cup {a[2]}) \in Nat
    BY <1>3, FS_CardinalityType
  <1>6. Cardinality(S) <= Cardinality(T) + 1
    BY <1>2, <1>3, <1>4, <1>5
  <1> QED
    BY <1>6 DEF S, T

\* A poll that is made is on its way.
LEMMA MissingAsks ==
  ASSUME Lag \in Nat, MaxDelay \in Nat, NEW n \in Nat, NEW w, NEW s
  PROVE  MissingOf(FALSE, n, w \cup {<<s, 0>>}) \subseteq MissingOf(TRUE, n, w)
  <1> SUFFICES ASSUME NEW j \in MissingOf(FALSE, n, w \cup {<<s, 0>>})
               PROVE  j \in MissingOf(TRUE, n, w)
    OBVIOUS
  <1>1. /\ j \in 0 .. (n - (Lag + MaxDelay) - 1) /\ \A a \in w : a[2] # j
        /\ <<s, 0>>[2] # j
    BY DEF MissingOf
  <1>2. j # 0
    BY <1>1
  <1>3. j \in 1 .. (n - (Lag + MaxDelay) - 1)
    BY <1>1, <1>2
  <1> QED
    BY <1>1, <1>3 DEF MissingOf

\* No answer is on its way for longer than MaxDelay: an old status counts the losses.
LEMMA OldStatusCounts ==
  ASSUME PauseInv
  PROVE  StatusIsRecent
  <1>1. PICK n, d, w : n = pageStatus.age /\ d = due /\ w = onTheWay
    OBVIOUS
  <1>2. /\ n \in Nat /\ d \in BOOLEAN /\ MaxDelay \in Nat /\ Lag \in Nat /\ misses \in Nat
        /\ \A a \in w : a[2] \in 0 .. MaxDelay
    BY <1>1, PauseTypes
  <1> DEFINE S == (MaxDelay + 1) .. (n - (Lag + MaxDelay) - 1)
             T == MissingOf(d, n, w)
  <1>3. S \subseteq T
    <2> SUFFICES ASSUME NEW j \in S PROVE j \in T
      OBVIOUS
    <2>1. j \in Int /\ j > MaxDelay
      BY <1>2
    <2>2. j \in 1 .. (n - (Lag + MaxDelay) - 1) /\ j \in 0 .. (n - (Lag + MaxDelay) - 1)
      BY <1>2
    <2>3. \A a \in w : a[2] # j
      BY <1>2, <2>1
    <2> QED
      BY <1>2, <2>2, <2>3 DEF MissingOf
  <1>4. IsFiniteSet(T) /\ Cardinality(T) \in Nat /\ Cardinality(T) <= misses
    BY <1>1, <1>2, MissingFinite DEF PauseInv
  <1>5. MaxDelay + 1 <= n - (Lag + MaxDelay) - 1
          => Cardinality(S) = n - (Lag + MaxDelay) - 1 - (MaxDelay + 1) + 1
    <2>1. MaxDelay + 1 \in Int /\ n - (Lag + MaxDelay) - 1 \in Int
      BY <1>2
    <2> QED
      BY <2>1, FS_Interval
  <1> HIDE DEF S, T
  <1>6. Cardinality(S) <= Cardinality(T)
    BY <1>3, <1>4, FS_Subset
  <1>7. n <= Lag + 2 * MaxDelay + 1 + misses
    BY <1>2, <1>4, <1>5, <1>6
  <1>8. Recent = Lag + 2 * MaxDelay + 1
    BY PauseTypes DEF Recent
  <1> QED
    BY <1>1, <1>2, <1>7, <1>8 DEF StatusIsRecent

LEMMA PauseInitInv == PauseInit => PauseInv
  <1> SUFFICES ASSUME PauseInit PROVE PauseInv
    OBVIOUS
  <1>1. /\ BrowserLag \in Nat /\ MaxDelay \in Nat /\ MaxMisses \in Nat
        /\ MaxReloads \in Nat /\ Lag \in Nat
    BY BannerLagAssumption DEF Lag
  <1>2. NoStatus.age = 0
    BY DEF NoStatus
  <1>3. /\ 0 \in 0 .. 2 /\ 0 \in 0 .. BrowserLag + 1 /\ 0 \in 0 .. MaxMisses /\ 0 \in 0 .. MaxReloads
    BY <1>1
  <1>4. PauseTypeOK
    BY <1>3 DEF PauseInit, PauseTypeOK
  <1>5. Cardinality(MissingOf(TRUE, 0, {})) = 0
    BY <1>1, NothingMissing
  <1>6. /\ routeCopy.age = 0 /\ response.age = 0 /\ pageStatus.age = 0 /\ due = TRUE
        /\ onTheWay = {} /\ routeHeld = 0 /\ respHeld = 0 /\ misses = 0
    BY <1>2 DEF PauseInit
  <1>7. /\ routeCopy.age <= routeHeld /\ response.age <= 1 + respHeld
    BY <1>1, <1>6
  <1>8. Cardinality(MissingOf(due, pageStatus.age, onTheWay)) <= misses
    <2>1. due = TRUE /\ pageStatus.age = 0 /\ onTheWay = {} /\ misses = 0 /\ 0 <= 0
      BY <1>6
    <2> QED
      BY <1>5, <2>1
  <1>9. \A a \in onTheWay : a[1].age <= Lag + a[2]
    BY <1>6
  <1> QED
    BY <1>4, <1>7, <1>8, <1>9 DEF PauseInv

\* What the route answers, and what it keeps.
LEMMA RouteInv ==
  ASSUME PauseInv, NEW s \in AnyAnswer, Route(s)
  PROVE  /\ s \in Statuses /\ s.age \in Nat /\ s.age <= 1
         /\ routeCopy' = NoStatus \/ routeCopy' \in Statuses
         /\ routeHeld' \in 0 .. 2
         /\ routeHeld' <= 1 => routeCopy'.age <= routeHeld'
  <1>0. /\ routeHeld \in 0 .. 2
        /\ routeCopy = NoStatus \/ routeCopy \in Statuses
    BY PauseTypes
  <1>1. CASE MayBeFresh /\ s = routeCopy /\ routeHeld' = Kept /\ UNCHANGED routeCopy
    <2>1. s \in Statuses /\ s.age \in Nat /\ routeHeld' = routeHeld /\ routeHeld <= 1
      BY <1>1, PauseTypes DEF MayBeFresh, Kept
    <2>2. routeHeld <= 1 => routeCopy.age <= routeHeld
      BY DEF PauseInv
    <2>3. s.age <= 1
      BY <1>0, <1>1, <2>1, <2>2
    <2> QED
      BY <1>0, <1>1, <2>1, <2>2, <2>3
  <1>2. CASE MayHaveExpired /\ s \in FetchVaultStatus /\ routeCopy' = s /\ routeHeld' \in 0 .. 2
    <2>1. s \in Statuses /\ s.age = 0
      BY <1>2 DEF FetchVaultStatus, Statuses
    <2>2. routeHeld' \in 0 .. 2 /\ routeHeld' \in Nat
      BY <1>2
    <2>3. s.age \in Nat /\ s.age <= 1 /\ s.age <= routeHeld'
      BY <1>0, <2>1, <2>2
    <2> QED
      BY <1>2, <2>1, <2>2, <2>3
  <1> QED
    BY <1>1, <1>2 DEF Route

LEMMA FetchStatusInv ==
  ASSUME PauseInv, FetchStatus
  PROVE  PauseInv'
  <1>1. PICK s : /\ s \in Statuses /\ s.age \in Nat /\ s.age <= Lag
                 /\ onTheWay' = onTheWay \cup {<<s, 0>>}
                 /\ routeCopy' = NoStatus \/ routeCopy' \in Statuses
                 /\ routeHeld' \in 0 .. 2
                 /\ routeHeld' <= 1 => routeCopy'.age <= routeHeld'
                 /\ response' = NoStatus \/ response' \in Statuses
                 /\ respHeld' \in 0 .. BrowserLag + 1
                 /\ respHeld' <= BrowserLag => response'.age <= 1 + respHeld'
    <2>1. ASSUME NEW s \in AnyAnswer, Route(s), response' = s, respHeld' = 0,
                 onTheWay' = onTheWay \cup {<<s, 0>>}
          PROVE  /\ s \in Statuses /\ s.age \in Nat /\ s.age <= Lag
                 /\ onTheWay' = onTheWay \cup {<<s, 0>>}
                 /\ routeCopy' = NoStatus \/ routeCopy' \in Statuses
                 /\ routeHeld' \in 0 .. 2
                 /\ routeHeld' <= 1 => routeCopy'.age <= routeHeld'
                 /\ response' = NoStatus \/ response' \in Statuses
                 /\ respHeld' \in 0 .. BrowserLag + 1
                 /\ respHeld' <= BrowserLag => response'.age <= 1 + respHeld'
      <3>1. /\ s \in Statuses /\ s.age \in Nat /\ s.age <= 1
            /\ routeCopy' = NoStatus \/ routeCopy' \in Statuses
            /\ routeHeld' \in 0 .. 2
            /\ routeHeld' <= 1 => routeCopy'.age <= routeHeld'
        BY <2>1, RouteInv
      <3>2. s.age <= Lag /\ 0 \in 0 .. BrowserLag + 1 /\ s.age <= 1 + 0
        <4>1. BrowserLag \in Nat /\ Lag = 1 + BrowserLag
          BY PauseTypes
        <4> QED
          BY <3>1, <4>1
      <3> QED
        BY <2>1, <3>1, <3>2
    <2>2. CASE /\ response # NoStatus /\ respHeld <= BrowserLag
               /\ onTheWay' = onTheWay \cup {<<response, 0>>}
               /\ UNCHANGED <<routeCopy, routeHeld, response, respHeld>>
      <3>1. response.age <= 1 + respHeld
        BY <2>2 DEF PauseInv
      <3>2. response \in Statuses /\ response.age <= Lag /\ response.age \in Nat
        <4>1. /\ BrowserLag \in Nat /\ Lag = 1 + BrowserLag
              /\ response.age \in Nat /\ respHeld \in Nat
          BY PauseTypes
        <4>2. response \in Statuses
          BY <2>2, PauseTypes
        <4> QED
          BY <2>2, <3>1, <4>1, <4>2
      <3>3. /\ routeCopy = NoStatus \/ routeCopy \in Statuses
            /\ routeHeld \in 0 .. 2 /\ respHeld \in 0 .. BrowserLag + 1
            /\ response = NoStatus \/ response \in Statuses
        BY PauseTypes
      <3>4. /\ routeHeld <= 1 => routeCopy.age <= routeHeld
            /\ respHeld <= BrowserLag => response.age <= 1 + respHeld
        BY DEF PauseInv
      <3> QED
        BY <2>2, <3>2, <3>3, <3>4
    <2> QED
      BY <2>1, <2>2 DEF FetchStatus
  <1>2. /\ due = TRUE /\ due' = FALSE /\ pageStatus' = pageStatus
        /\ dismissed' = dismissed /\ dismissedInTab' = dismissedInTab /\ misses' = misses /\ reloads' = reloads
    BY PauseTypes DEF FetchStatus
  <1>3. PICK p : p = <<s, 0>>
    OBVIOUS
  <1>4. /\ p[1] = s /\ p[2] = 0 /\ 0 \in 0 .. MaxDelay /\ s.age <= Lag + 0
    <2>1. MaxDelay \in Nat /\ Lag \in Nat
      BY PauseTypes
    <2> QED
      BY <1>1, <1>3, <2>1
  <1>5. \A a \in onTheWay' : a[1] \in Statuses /\ a[2] \in 0 .. MaxDelay /\ a[1].age <= Lag + a[2]
    <2>1. \A a \in onTheWay : a[1] \in Statuses /\ a[2] \in 0 .. MaxDelay /\ a[1].age <= Lag + a[2]
      BY PauseTypes
    <2>2. onTheWay' = onTheWay \cup {p}
      BY <1>1, <1>3
    <2>3. p[1] \in Statuses /\ p[2] \in 0 .. MaxDelay /\ p[1].age <= Lag + p[2]
      BY <1>1, <1>4
    <2> QED
      BY <2>1, <2>2, <2>3
  <1>6. PauseTypeOK'
    BY <1>1, <1>2, <1>5, PauseTypes DEF PauseTypeOK
  <1>7. Cardinality(MissingOf(due', pageStatus'.age, onTheWay')) <= misses'
    <2>1. PICK n, w : n = pageStatus.age /\ w = onTheWay
      OBVIOUS
    <2>2. Lag \in Nat /\ MaxDelay \in Nat /\ n \in Nat /\ misses \in Nat
      BY <2>1, PauseTypes
    <2>3. Cardinality(MissingOf(TRUE, n, w)) <= misses
      BY <1>2, <2>1 DEF PauseInv
    <2>4. MissingOf(FALSE, n, w \cup {p}) \subseteq MissingOf(TRUE, n, w)
      BY <1>3, <2>2, MissingAsks
    <2>5. /\ IsFiniteSet(MissingOf(TRUE, n, w)) /\ Cardinality(MissingOf(TRUE, n, w)) \in Nat
          /\ Cardinality(MissingOf(FALSE, n, w \cup {p})) \in Nat
      BY <2>2, MissingFinite
    <2>6. Cardinality(MissingOf(FALSE, n, w \cup {p})) <= Cardinality(MissingOf(TRUE, n, w))
      BY <2>4, <2>5, FS_Subset
    <2>7. Cardinality(MissingOf(FALSE, n, w \cup {p})) <= misses
      <3>1. PICK x, y : /\ x = Cardinality(MissingOf(FALSE, n, w \cup {p}))
                        /\ y = Cardinality(MissingOf(TRUE, n, w))
        OBVIOUS
      <3>2. x \in Nat /\ y \in Nat /\ misses \in Nat /\ x <= y /\ y <= misses
        BY <2>2, <2>3, <2>5, <2>6, <3>1
      <3>3. x <= misses
        BY <3>2
      <3> QED
        BY <3>1, <3>3
    <2> QED
      BY <1>1, <1>2, <1>3, <2>1, <2>7
  <1> QED
    BY <1>1, <1>5, <1>6, <1>7 DEF PauseInv

LEMMA PauseTickInv ==
  ASSUME PauseInv, PauseTick
  PROVE  PauseInv'
  <1>1. /\ due = FALSE /\ due' = TRUE /\ routeHeld' = Up(routeHeld, 2)
        /\ respHeld' = Up(respHeld, BrowserLag + 1)
        /\ routeCopy' = Older(routeCopy) /\ response' = Older(response)
        /\ pageStatus' = Older(pageStatus)
        /\ dismissed' = dismissed /\ dismissedInTab' = dismissedInTab /\ misses' = misses /\ reloads' = reloads
        /\ \A a \in onTheWay : a[2] < MaxDelay
        /\ onTheWay' = {<<Older(a[1]), a[2] + 1>> : a \in onTheWay}
    BY PauseTypes DEF PauseTick
  <1>2. ASSUME NEW s, s = NoStatus \/ s \in Statuses
        PROVE  /\ Older(s) = NoStatus \/ Older(s) \in Statuses
               /\ s \in Statuses => Older(s) \in Statuses
               /\ Older(s).age \in Nat /\ s.age \in Nat /\ Older(s).age <= s.age + 1
    <2>1. NoStatus.age = 0
      BY DEF NoStatus
    <2>2. CASE s = NoStatus
      BY <2>1, <2>2 DEF Older
    <2>3. CASE s # NoStatus
      <3>1. PICK z : z = [s EXCEPT !.age = @ + 1]
        OBVIOUS
      <3>2. s.age \in Nat /\ z.age = s.age + 1 /\ z \in Statuses
        BY <1>2, <2>3, <3>1 DEF Statuses
      <3>3. Older(s) = z
        BY <2>3, <3>1 DEF Older
      <3> QED
        BY <3>2, <3>3
    <2> QED
      BY <2>2, <2>3
  <1>3. PICK c, r, n : c = Older(routeCopy) /\ r = Older(response) /\ n = Older(pageStatus)
    OBVIOUS
  <1>4. /\ c = NoStatus \/ c \in Statuses
        /\ r = NoStatus \/ r \in Statuses
        /\ n = NoStatus \/ n \in Statuses
        /\ c.age \in Nat /\ c.age <= routeCopy.age + 1
        /\ r.age \in Nat /\ r.age <= response.age + 1
        /\ n.age \in Nat /\ n.age <= pageStatus.age + 1
    BY <1>2, <1>3, PauseTypes
  <1>6. /\ routeHeld' \in 0 .. 2
        /\ routeHeld' <= 1 => c.age <= routeHeld'
    <2>1. routeHeld' = IF routeHeld < 2 THEN routeHeld + 1 ELSE routeHeld
      BY <1>1 DEF Up
    <2>2. routeHeld <= 1 => routeCopy.age <= routeHeld
      BY DEF PauseInv
    <2>3. routeHeld \in {0, 1, 2} /\ routeCopy.age \in Nat
      BY PauseTypes
    <2>4. c.age \in Nat /\ c.age <= routeCopy.age + 1
      BY <1>4
    <2>5. CASE routeHeld = 0
      BY <2>1, <2>2, <2>3, <2>4, <2>5
    <2>6. CASE routeHeld = 1 \/ routeHeld = 2
      BY <2>1, <2>6
    <2> QED
      BY <2>3, <2>5, <2>6
  <1>7. /\ respHeld' \in 0 .. BrowserLag + 1
        /\ respHeld' <= BrowserLag => r.age <= 1 + respHeld'
    <2>1. respHeld' = IF respHeld < BrowserLag + 1 THEN respHeld + 1 ELSE respHeld
      BY <1>1 DEF Up
    <2>2. respHeld <= BrowserLag => response.age <= 1 + respHeld
      BY DEF PauseInv
    <2>3. /\ respHeld \in 0 .. BrowserLag + 1 /\ respHeld \in Nat /\ response.age \in Nat
          /\ BrowserLag \in Nat
      BY PauseTypes
    <2>4. r.age \in Nat /\ r.age <= response.age + 1
      BY <1>4
    <2>5. CASE respHeld <= BrowserLag
      <3>1. respHeld' = respHeld + 1
        BY <2>1, <2>3, <2>5
      <3> QED
        BY <2>2, <2>3, <2>4, <2>5, <3>1
    <2>6. CASE ~(respHeld <= BrowserLag)
      <3>1. respHeld = BrowserLag + 1 /\ respHeld' = BrowserLag + 1 /\ ~(respHeld' <= BrowserLag)
        BY <2>1, <2>3, <2>6
      <3> QED
        BY <2>3, <3>1
    <2> QED
      BY <2>5, <2>6
  <1>8. \A b \in onTheWay' : b[1] \in Statuses /\ b[2] \in 0 .. MaxDelay /\ b[1].age <= Lag + b[2]
    <2> SUFFICES ASSUME NEW b \in onTheWay'
                 PROVE  b[1] \in Statuses /\ b[2] \in 0 .. MaxDelay /\ b[1].age <= Lag + b[2]
      OBVIOUS
    <2>1. PICK a \in onTheWay : b = <<Older(a[1]), a[2] + 1>>
      BY <1>1
    <2>2. PICK s, o : s = a[1] /\ o = Older(s)
      OBVIOUS
    <2>3. /\ s \in Statuses /\ a[2] \in 0 .. MaxDelay /\ s.age <= Lag + a[2] /\ a[2] < MaxDelay
      BY <1>1, <2>2, PauseTypes
    <2>4. o \in Statuses /\ o.age \in Nat /\ s.age \in Nat /\ o.age <= s.age + 1
      BY <1>2, <2>2, <2>3
    <2>5. b[1] = o /\ b[2] = a[2] + 1
      BY <2>1, <2>2
    <2>6. Lag \in Nat /\ MaxDelay \in Nat
      BY PauseTypes
    <2>7. a[2] + 1 \in 0 .. MaxDelay /\ o.age <= Lag + (a[2] + 1)
      BY <2>3, <2>4, <2>6
    <2> QED
      BY <2>4, <2>5, <2>7
  <1>9. PauseTypeOK'
    BY <1>1, <1>3, <1>4, <1>6, <1>7, <1>8, PauseTypes DEF PauseTypeOK
  <1>10. Cardinality(MissingOf(due', pageStatus'.age, onTheWay')) <= misses'
    <2>1. PICK m, w, v : m = pageStatus.age /\ w = onTheWay /\ v = {<<Older(a[1]), a[2] + 1>> : a \in w}
      OBVIOUS
    <2>2. /\ Lag \in Nat /\ MaxDelay \in Nat /\ m \in Nat /\ n.age \in Nat /\ n.age <= m + 1
          /\ misses \in Nat
      BY <1>4, <2>1, PauseTypes
    <2>3. \A a \in w : a[2] \in Nat /\ \E b \in v : b[2] = a[2] + 1
      <3> SUFFICES ASSUME NEW a \in w PROVE a[2] \in Nat /\ \E b \in v : b[2] = a[2] + 1
        OBVIOUS
      <3>1. <<Older(a[1]), a[2] + 1>> \in v /\ <<Older(a[1]), a[2] + 1>>[2] = a[2] + 1
        BY <2>1
      <3>2. a[2] \in Nat
        BY <2>1, PauseTypes
      <3> QED
        BY <3>1, <3>2
    <2>4. Cardinality(MissingOf(FALSE, m, w)) <= misses
      BY <1>1, <2>1 DEF PauseInv
    <2>5. PICK k : k = n.age
      OBVIOUS
    <2>6. k \in Nat /\ k <= m + 1
      BY <2>2, <2>5
    <2>7. Cardinality(MissingOf(TRUE, k, v)) <= Cardinality(MissingOf(FALSE, m, w))
      BY <2>2, <2>3, <2>6, MissingTick
    <2>8. Cardinality(MissingOf(TRUE, k, v)) \in Nat /\ Cardinality(MissingOf(FALSE, m, w)) \in Nat
      BY <2>2, <2>6, MissingFinite
    <2>9. Cardinality(MissingOf(TRUE, k, v)) <= misses
      <3>1. PICK x, y : /\ x = Cardinality(MissingOf(TRUE, k, v))
                        /\ y = Cardinality(MissingOf(FALSE, m, w))
        OBVIOUS
      <3>2. x \in Nat /\ y \in Nat /\ misses \in Nat /\ x <= y /\ y <= misses
        BY <2>2, <2>4, <2>7, <2>8, <3>1
      <3>3. x <= misses
        BY <3>2
      <3> QED
        BY <3>1, <3>3
    <2>10. due' = TRUE /\ pageStatus'.age = k /\ onTheWay' = v /\ misses' = misses
      BY <1>1, <1>3, <2>1, <2>5
    <2> QED
      BY <2>9, <2>10
  <1> QED
    BY <1>1, <1>3, <1>6, <1>7, <1>8, <1>9, <1>10 DEF PauseInv

LEMMA PauseStepInv ==
  ASSUME PauseInv, [PauseNext]_pauseVars
  PROVE  PauseInv'
  <1>1. CASE UNCHANGED pauseVars
    BY <1>1 DEF pauseVars, PauseInv, PauseTypeOK
  <1>2. CASE FetchStatus
    BY <1>2, FetchStatusInv
  <1>3. CASE OthersAsk
    <2>1. PICK s \in AnyAnswer : Route(s)
      BY <1>3 DEF OthersAsk
    <2>2. /\ routeCopy' = NoStatus \/ routeCopy' \in Statuses
          /\ routeHeld' \in 0 .. 2
          /\ routeHeld' <= 1 => routeCopy'.age <= routeHeld'
      BY <2>1, RouteInv
    <2>3. UNCHANGED <<response, respHeld, onTheWay, pageStatus, dismissed, dismissedInTab, due,
                      misses, reloads>>
      BY <1>3 DEF OthersAsk
    <2>4. PauseTypeOK'
      BY <2>2, <2>3, PauseTypes DEF PauseTypeOK
    <2> QED
      BY <2>2, <2>3, <2>4 DEF PauseInv
  <1>9. CASE BrowserRevalidates
    <2>1. PICK s \in AnyAnswer : Route(s) /\ response' = s /\ respHeld' = 0
      BY <1>9 DEF BrowserRevalidates
    <2>2. /\ s \in Statuses /\ s.age \in Nat /\ s.age <= 1
          /\ routeCopy' = NoStatus \/ routeCopy' \in Statuses
          /\ routeHeld' \in 0 .. 2
          /\ routeHeld' <= 1 => routeCopy'.age <= routeHeld'
      BY <2>1, RouteInv
    <2>3. UNCHANGED <<onTheWay, pageStatus, dismissed, dismissedInTab, due, misses, reloads>>
      BY <1>9 DEF BrowserRevalidates
    <2>4. respHeld' \in 0 .. BrowserLag + 1 /\ response'.age <= 1 + respHeld'
      BY <2>1, <2>2, PauseTypes
    <2>5. PauseTypeOK'
      BY <2>1, <2>2, <2>3, <2>4, PauseTypes DEF PauseTypeOK
    <2> QED
      BY <2>2, <2>3, <2>4, <2>5 DEF PauseInv
  <1>4. CASE StatusAnswers
    <2>1. PICK a \in onTheWay : onTheWay' = onTheWay \ {a} /\ pageStatus' = a[1]
      BY <1>4 DEF StatusAnswers
    <2>2. /\ misses' = 0 /\ dismissed' \in BOOLEAN
          /\ UNCHANGED <<routeCopy, routeHeld, response, respHeld, dismissedInTab, due, reloads>>
      BY <1>4, PauseTypes DEF StatusAnswers
    <2>3. a[1] \in Statuses /\ a[1].age \in Nat /\ a[1].age <= Lag + MaxDelay
      <3>1. /\ a[1] \in Statuses /\ a[1].age \in Nat /\ a[2] \in 0 .. MaxDelay
            /\ a[1].age <= Lag + a[2] /\ Lag \in Nat /\ MaxDelay \in Nat
        BY PauseTypes
      <3>2. a[1].age <= Lag + MaxDelay
        BY <3>1
      <3> QED
        BY <3>1, <3>2
    <2>4. PauseTypeOK'
      <3>1. 0 \in 0 .. MaxMisses
        BY PauseTypes
      <3> QED
        BY <2>1, <2>2, <2>3, <3>1, PauseTypes DEF PauseTypeOK
    <2>5. PICK n, w : n = a[1].age /\ w = onTheWay \ {a}
      OBVIOUS
    <2>6. Cardinality(MissingOf(due, n, w)) = 0
      BY <2>3, <2>5, MissingFinite, PauseTypes
    <2>7. Cardinality(MissingOf(due', pageStatus'.age, onTheWay')) <= misses'
      BY <2>1, <2>2, <2>5, <2>6
    <2> QED
      BY <2>1, <2>2, <2>4, <2>7 DEF PauseInv
  <1>5. CASE StatusFails
    <2>1. PICK a \in onTheWay : onTheWay' = onTheWay \ {a}
      BY <1>5 DEF StatusFails
    <2>2. /\ misses < MaxMisses /\ misses' = misses + 1
          /\ UNCHANGED <<routeCopy, routeHeld, response, respHeld, pageStatus, dismissed,
                         dismissedInTab, due, reloads>>
      BY <1>5 DEF StatusFails
    <2>3. PauseTypeOK'
      <3>1. misses' \in 0 .. MaxMisses
        <4>1. misses \in 0 .. MaxMisses /\ MaxMisses \in Nat
          BY PauseTypes
        <4> QED
          BY <2>2, <4>1
      <3> QED
        BY <2>1, <2>2, <3>1, PauseTypes DEF PauseTypeOK
    <2>4. PICK n, w : n = pageStatus.age /\ w = onTheWay
      OBVIOUS
    <2>5. n \in Nat /\ due \in BOOLEAN /\ misses \in Nat /\ Lag \in Nat /\ MaxDelay \in Nat
      BY <2>4, PauseTypes
    <2>6. Cardinality(MissingOf(due, n, w \ {a})) <= Cardinality(MissingOf(due, n, w)) + 1
      BY <2>1, <2>4, <2>5, MissingLoses
    <2>7. Cardinality(MissingOf(due, n, w)) <= misses
      BY <2>4 DEF PauseInv
    <2>8. Cardinality(MissingOf(due, n, w)) \in Nat /\ Cardinality(MissingOf(due, n, w \ {a})) \in Nat
      BY <2>5, MissingFinite
    <2>9. Cardinality(MissingOf(due, n, w \ {a})) <= misses + 1
      BY <2>5, <2>6, <2>7, <2>8
    <2>10. Cardinality(MissingOf(due', pageStatus'.age, onTheWay')) <= misses'
      BY <2>1, <2>2, <2>4, <2>9
    <2> QED
      BY <2>1, <2>2, <2>3, <2>10 DEF PauseInv
  <1>6. CASE HandleDismiss
    <2>1. /\ dismissed' = TRUE /\ dismissedInTab' = TRUE
          /\ UNCHANGED <<routeCopy, routeHeld, response, respHeld, onTheWay, pageStatus, due,
                         misses, reloads>>
      BY <1>6 DEF HandleDismiss
    <2>2. PauseTypeOK'
      BY <2>1, PauseTypes DEF PauseTypeOK
    <2> QED
      BY <2>1, <2>2 DEF PauseInv
  <1>7. CASE Reload
    <2>1. /\ reloads < MaxReloads /\ reloads' = reloads + 1
          /\ pageStatus' = NoStatus /\ onTheWay' = {} /\ dismissed' = dismissedInTab /\ due' = TRUE
          /\ misses' = 0 /\ UNCHANGED <<routeCopy, routeHeld, response, respHeld, dismissedInTab>>
      BY <1>7 DEF Reload
    <2>2. PauseTypeOK'
      <3>1. reloads' \in 0 .. MaxReloads /\ 0 \in 0 .. MaxMisses
        <4>1. reloads \in 0 .. MaxReloads /\ MaxReloads \in Nat /\ MaxMisses \in Nat
          BY PauseTypes
        <4> QED
          BY <2>1, <4>1
      <3> QED
        BY <2>1, <3>1, PauseTypes DEF PauseTypeOK
    <2>3. Cardinality(MissingOf(TRUE, 0, {})) = 0
      BY NothingMissing, PauseTypes
    <2>4. NoStatus.age = 0
      BY DEF NoStatus
    <2>5. due' = TRUE /\ pageStatus'.age = 0 /\ onTheWay' = {} /\ misses' = 0 /\ 0 <= 0
      BY <2>1, <2>4
    <2>6. Cardinality(MissingOf(due', pageStatus'.age, onTheWay')) <= misses'
      BY <2>3, <2>5
    <2> QED
      BY <2>1, <2>2, <2>6 DEF PauseInv
  <1>8. CASE PauseTick
    BY <1>8, PauseTickInv
  <1> QED
    BY <1>1, <1>2, <1>3, <1>4, <1>5, <1>6, <1>7, <1>8, <1>9 DEF PauseNext

\* The page's flag is never set without the tab's.
DismissedInTab == dismissed => dismissedInTab

LEMMA DismissedStep ==
  ASSUME DismissedInTab, [PauseNext]_pauseVars
  PROVE  DismissedInTab'
  <1>1. CASE StatusAnswers
    BY <1>1, Zenon DEF StatusAnswers, DismissedInTab
  <1>2. CASE HandleDismiss
    BY <1>2, Zenon DEF HandleDismiss, DismissedInTab
  <1>3. CASE Reload
    BY <1>3, Zenon DEF Reload, DismissedInTab
  <1>4. CASE UNCHANGED <<dismissed, dismissedInTab>>
    BY <1>4 DEF DismissedInTab
  <1> QED
    BY <1>1, <1>2, <1>3, <1>4, Zenon
       DEF PauseNext, pauseVars, FetchStatus, BrowserRevalidates, OthersAsk, StatusFails, PauseTick

-----------------------------------------------------------------------------
(* The rates of the APY card.                                              *)

ApyCardInv ==
  /\ ApyCardTypeOK /\ RatesGoForward
  /\ cachedData <= apyTime /\ \A g \in gets : g.now <= apyTime
  /\ ~routeDied => \A r \in reply : r <= cachedData

LEMMA ApyCardInitInv == ApyCardInit => ApyCardInv
  <1> SUFFICES ASSUME ApyCardInit PROVE ApyCardInv
    OBVIOUS
  <1>1. ApyLife \in Nat
    BY ApyCardAssumption
  <1>2. ApyCardTypeOK
    <2>1. /\ apyTime \in Nat /\ cachedData \in Nat /\ cacheExpiry \in Nat /\ apyData \in Nat
          /\ routeDied \in BOOLEAN /\ gets = {} /\ reply = {}
      BY DEF ApyCardInit
    <2> QED
      BY <2>1 DEF ApyCardTypeOK
  <1>3. RatesGoForward
    BY <1>1 DEF ApyCardInit, RatesGoForward
  <1> QED
    BY <1>2, <1>3 DEF ApyCardInit, ApyCardInv

\* Requests that settle, or are no longer awaited, began when they began.
LEMMA GetsBegan ==
  ASSUME ApyCardInv
  PROVE  /\ \A awaited \in BOOLEAN :
              /\ Asked(awaited) \subseteq [now : Nat, awaited : BOOLEAN]
              /\ \A g \in Asked(awaited) : g.now <= apyTime
         /\ \A g \in gets : Settled(g) => /\ gets' \subseteq [now : Nat, awaited : BOOLEAN]
                                         /\ \A h \in gets' : h.now <= apyTime
  <1>1. \A g \in gets : LET h == [g EXCEPT !.awaited = FALSE] IN
          h \in [now : Nat, awaited : BOOLEAN] /\ h.now <= apyTime
    BY DEF ApyCardInv, ApyCardTypeOK
  <1>2. gets \subseteq [now : Nat, awaited : BOOLEAN] /\ \A g \in gets : g.now <= apyTime
    BY DEF ApyCardInv, ApyCardTypeOK
  <1> QED
    BY <1>1, <1>2 DEF Asked, Settled

LEMMA ApyCardStepInv ==
  ASSUME ApyCardInv, [ApyCardNext]_apyCardVars
  PROVE  ApyCardInv'
  <1>1. /\ {apyTime, cachedData, cacheExpiry, apyData} \subseteq Nat /\ reply \subseteq Nat
        /\ gets \subseteq [now : Nat, awaited : BOOLEAN] /\ routeDied \in BOOLEAN
        /\ ApyLife \in Nat
        /\ cacheExpiry <= cachedData + ApyLife /\ cachedData <= apyTime
        /\ \A g \in gets : g.now <= apyTime
        /\ ~routeDied => apyData <= cachedData /\ \A r \in reply : apyData <= r /\ r <= cachedData
    BY ApyCardAssumption DEF ApyCardInv, ApyCardTypeOK, RatesGoForward
  <1>2. CASE UNCHANGED apyCardVars
    BY <1>1, <1>2 DEF apyCardVars, ApyCardInv, ApyCardTypeOK, RatesGoForward
  <1>3. CASE ApyTimePasses
    BY <1>1, <1>3 DEF ApyTimePasses, ApyCardInv, ApyCardTypeOK, RatesGoForward
  <1>4. CASE RouteDies
    BY <1>1, <1>4 DEF RouteDies, ApyCardInv, ApyCardTypeOK, RatesGoForward
  <1>5. ASSUME NEW awaited \in BOOLEAN, GetsApy(awaited) PROVE ApyCardInv'
    <2>1. reply' = reply \/ reply' = {} \/ reply' = {cachedData}
      BY <1>5 DEF GetsApy, HandsOut
    <2>2. gets' \subseteq [now : Nat, awaited : BOOLEAN] /\ \A g \in gets' : g.now <= apyTime
      <3>1. gets' = Asked(awaited) \/ gets' = Asked(awaited) \cup {[now |-> apyTime, awaited |-> awaited]}
        BY <1>5 DEF GetsApy
      <3>2. apyTime \in Nat
        BY <1>1
      <3> QED
        BY <3>1, <3>2, GetsBegan
    <2>3. UNCHANGED <<apyTime, cachedData, cacheExpiry, apyData, routeDied>>
      BY <1>5 DEF GetsApy
    <2>4. reply' \subseteq Nat
      BY <1>1, <2>1
    <2>5. ASSUME ~routeDied, NEW r \in reply' PROVE apyData <= r /\ r <= cachedData
      <3>1. r \in reply \/ r = cachedData
        BY <2>5, <2>1
      <3>2. apyData <= cachedData /\ cachedData <= cachedData
        BY <1>1, <2>5
      <3> QED
        BY <1>1, <2>5, <3>1, <3>2
    <2> QED
      BY <1>1, <2>2, <2>3, <2>4, <2>5 DEF ApyCardInv, ApyCardTypeOK, RatesGoForward
  <1>6. ASSUME NEW g \in gets, FetchesLiveApy(g) PROVE ApyCardInv'
    <2>1. gets' \subseteq [now : Nat, awaited : BOOLEAN] /\ \A h \in gets' : h.now <= apyTime
      BY <1>6, GetsBegan DEF FetchesLiveApy
    <2>2. cachedData' = apyTime /\ cacheExpiry' = g.now + ApyLife /\ g.now \in Nat /\ g.now <= apyTime
      BY <1>1, <1>6 DEF FetchesLiveApy
    <2>3. reply' = reply \/ reply' = {apyTime}
      BY <1>6 DEF FetchesLiveApy, HandsOut
    <2>4. UNCHANGED <<apyTime, apyData, routeDied>>
      BY <1>6 DEF FetchesLiveApy
    <2>5. cacheExpiry' <= cachedData' + ApyLife /\ {cachedData', cacheExpiry'} \subseteq Nat
      BY <1>1, <2>2
    <2>6. reply' \subseteq Nat
      BY <1>1, <2>3
    <2>7. ASSUME ~routeDied
          PROVE  apyData <= cachedData' /\ \A r \in reply' : apyData <= r /\ r <= cachedData'
      <3>1. apyData <= apyTime /\ apyTime <= apyTime
        BY <1>1, <2>7
      <3>2. ASSUME NEW r \in reply PROVE apyData <= r /\ r <= apyTime
        BY <1>1, <2>7, <3>2
      <3> QED
        BY <2>2, <2>3, <3>1, <3>2
    <2> QED
      BY <1>1, <2>1, <2>2, <2>4, <2>5, <2>6, <2>7 DEF ApyCardInv, ApyCardTypeOK, RatesGoForward
  <1>7. ASSUME NEW g \in gets, AgentIsAway(g) PROVE ApyCardInv'
    <2>1. gets' \subseteq [now : Nat, awaited : BOOLEAN] /\ \A h \in gets' : h.now <= apyTime
      BY <1>7, GetsBegan DEF AgentIsAway
    <2>2. reply' = reply \/ reply' = {cachedData}
      BY <1>7 DEF AgentIsAway, HandsOut
    <2>3. UNCHANGED <<apyTime, cachedData, cacheExpiry, apyData, routeDied>>
      BY <1>7 DEF AgentIsAway
    <2>4. reply' \subseteq Nat
      BY <1>1, <2>2
    <2>5. ASSUME ~routeDied, NEW r \in reply' PROVE apyData <= r /\ r <= cachedData
      <3>1. r \in reply \/ r = cachedData
        BY <2>5, <2>2
      <3>2. apyData <= cachedData /\ cachedData <= cachedData
        BY <1>1, <2>5
      <3> QED
        BY <1>1, <2>5, <3>1, <3>2
    <2> QED
      BY <1>1, <2>1, <2>3, <2>4, <2>5 DEF ApyCardInv, ApyCardTypeOK, RatesGoForward
  <1>8. ASSUME NEW r \in reply, CardHears(r) PROVE ApyCardInv'
    BY <1>1, <1>8 DEF CardHears, ApyCardInv, ApyCardTypeOK, RatesGoForward
  <1> QED
    BY <1>2, <1>3, <1>4, <1>5, <1>6, <1>7, <1>8 DEF ApyCardNext

-----------------------------------------------------------------------------
(***************************************************************************)
(* The portfolio is that of the account it is shown for, the wizard asks    *)
(* for a wallet before it goes on, the banner's status is as recent as the  *)
(* caches allow and announced, and rates only go forward: for any number of *)
(* accounts, sockets, tabs and polls.                                       *)
(***************************************************************************)
THEOREM ShownCurrent ==
  RealtimeSpec /\ WizardSpec /\ PauseSpec /\ ApyCardSpec => []ShownIsCurrent
  <1>1. RealtimeInv => RealtimeTypeOK /\ ShowsItsAccount
    BY DEF RealtimeInv, ShowsItsAccount, AllBelong
  <1>2. WizardInv => WizardTypeOK /\ PastConnectHasKey
    <2> SUFFICES ASSUME WizardInv PROVE WizardTypeOK /\ PastConnectHasKey
      OBVIOUS
    <2>1. completed # NoWallet
      BY WizardAssumption DEF WizardInv
    <2> QED
      BY <2>1 DEF WizardInv, WizardTypeOK, PastConnectHasKey, HasKey
  <1>3. PauseInv => PauseTypeOK /\ StatusIsRecent
    BY OldStatusCounts DEF PauseInv
  <1>4. RealtimeInv /\ WizardInv /\ PauseInv /\ DismissedInTab /\ ApyCardInv => ShownIsCurrent
    <2>1. DismissedInTab => ClosedIsAnnounced
      BY DEF DismissedInTab, ClosedIsAnnounced, Announced
    <2> QED
      BY <1>1, <1>2, <1>3, <2>1 DEF ShownIsCurrent, ApyCardInv
  <1>5. RealtimeSpec => []RealtimeInv
    BY RealtimeInitInv, RealtimeStepInv, PTL DEF RealtimeSpec
  <1>6. WizardSpec => []WizardInv
    BY WizardInitInv, WizardStepInv, PTL DEF WizardSpec
  <1>7. PauseSpec => []PauseInv
    BY PauseInitInv, PauseStepInv, PTL DEF PauseSpec
  <1>8. PauseSpec => []DismissedInTab
    <2>1. PauseInit => DismissedInTab
      BY DEF PauseInit, DismissedInTab
    <2> QED
      BY <2>1, DismissedStep, PTL DEF PauseSpec
  <1>9. ApyCardSpec => []ApyCardInv
    BY ApyCardInitInv, ApyCardStepInv, PTL DEF ApyCardSpec
  <1> QED
    BY <1>4, <1>5, <1>6, <1>7, <1>8, <1>9, PTL
================================================================================

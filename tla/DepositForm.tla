------------------------------ MODULE DepositForm ------------------------------
(***************************************************************************)
(* The deposit dialog of the dashboard (DepositForm.tsx with vaultHelpers.ts):*)
(* what it sends, and what it shows before anything is signed.  The two halves*)
(* share no state.                                                         *)
(***************************************************************************)
EXTENDS Naturals, Sequences

(***************************************************************************)
(* The deposit dialog (DepositForm.tsx) and the two transactions it sends   *)
(* (executeDeposit in vaultHelpers.ts): set_user_strategy, then deposit,    *)
(* each built on the account's sequence number, signed in Freighter, sent   *)
(* and polled for 30 seconds.  The wallet may change account meanwhile.     *)
(* Estimates of shares, which are only shown, are left out.                 *)
(***************************************************************************)

CONSTANTS
  Accounts,
  MaxAttempts    \* bound of the runs: confirmed deposits

ASSUME DepositAssumption == MaxAttempts \in Nat

VARIABLES
  formView,      \* view
  showPreview,
  userPublicKey, \* the property the dialog was rendered with
  walletKey,     \* the wallet store, which the property follows
  attempt,       \* the call of executeDeposit under way
  depositAttempts,
  accountSeq,    \* the ledger: sequence number of each account
  ledgerTxs      \* transactions sent, in the order they were sent

depositVars == <<formView, showPreview, userPublicKey, walletKey, attempt, depositAttempts,
                 accountSeq, ledgerTxs>>
dialog == <<formView, showPreview, userPublicKey, walletKey>>
ledger == <<accountSeq, ledgerTxs>>

\* An attempt works for the account of the moment it was confirmed.
NoAttempt(a) == [user |-> a, sends |-> "nothing", at |-> "none", seq |-> 0]

DepositTypeOK ==
  /\ formView \in {"form", "signing", "success", "error"}
  /\ showPreview \in BOOLEAN
  /\ userPublicKey \in Accounts /\ walletKey \in Accounts
  /\ attempt \in [user : Accounts, sends : {"nothing", "strategy", "deposit"},
                  at : {"none", "building", "signing", "polling", "raised"}, seq : Nat]
  /\ depositAttempts \in 0 .. MaxAttempts
  /\ accountSeq \in [Accounts -> Nat]
  /\ ledgerTxs \in Seq([sends : {"strategy", "deposit"}, user : Accounts, seq : Nat,
                        attempt : 1 .. MaxAttempts,
                        fate : {"sent", "landed", "failed", "dropped"}])

DepositInit ==
  /\ formView = "form" /\ showPreview = FALSE
  /\ \E a \in Accounts : userPublicKey = a /\ walletKey = a /\ attempt = NoAttempt(a)
  /\ depositAttempts = 0
  /\ accountSeq = [a \in Accounts |-> 0] /\ ledgerTxs = <<>>

-----------------------------------------------------------------------------
(* The dialog. *)

\* onSubmit, with a valid amount; the preview lies over the form.
ReviewDeposit ==
  /\ formView = "form" /\ ~showPreview /\ showPreview' = TRUE
  /\ UNCHANGED <<formView, userPublicKey, walletKey, attempt, depositAttempts>> /\ UNCHANGED ledger

\* handleConfirmDeposit
ConfirmDeposit ==
  /\ showPreview /\ walletKey = userPublicKey /\ depositAttempts < MaxAttempts
  /\ showPreview' = FALSE /\ formView' = "signing"
  /\ attempt' = [user |-> userPublicKey, sends |-> "strategy", at |-> "building", seq |-> 0]
  /\ depositAttempts' = depositAttempts + 1
  /\ UNCHANGED <<userPublicKey, walletKey>> /\ UNCHANGED ledger

ConfirmForOtherAccount ==
  /\ showPreview /\ walletKey # userPublicKey
  /\ showPreview' = FALSE /\ formView' = "error" /\ attempt' = NoAttempt(userPublicKey)
  /\ UNCHANGED <<userPublicKey, walletKey, depositAttempts>> /\ UNCHANGED ledger

\* The buttons of the preview, of the success view (Done) and of the error view
\* (Close, Try Again); there is no way out of the signing view.
CancelsPreview == formView = "form" /\ showPreview
AfterSuccess == formView = "success"
AfterError == formView = "error"

\* handleRetry, handleClose
BackToForm ==
  /\ CancelsPreview \/ AfterSuccess \/ AfterError
  /\ formView' = "form" /\ showPreview' = FALSE
  /\ UNCHANGED <<userPublicKey, walletKey, attempt, depositAttempts>> /\ UNCHANGED ledger

WalletChanges ==
  /\ \E a \in Accounts \ {walletKey} : walletKey' = a
  /\ UNCHANGED <<formView, showPreview, userPublicKey, attempt, depositAttempts>> /\ UNCHANGED ledger

\* The dialog is rendered for the new account, and the effect runs.
AccountChanges ==
  /\ walletKey # userPublicKey /\ userPublicKey' = walletKey
  /\ showPreview' = FALSE
  /\ formView' = IF formView = "signing" THEN formView ELSE "form"
  /\ UNCHANGED <<walletKey, attempt, depositAttempts>> /\ UNCHANGED ledger

-----------------------------------------------------------------------------
(* executeDeposit. *)

Raises == formView' = "error" /\ attempt' = [attempt EXCEPT !.sends = "nothing", !.at = "raised", !.seq = 0]
Stays == UNCHANGED <<showPreview, userPublicKey, walletKey, depositAttempts>>

\* buildAndSignTx: the sequence number is read, and the call simulated.
BuildTx ==
  /\ attempt.at = "building"
  /\ attempt' = [attempt EXCEPT !.at = "signing", !.seq = accountSeq[attempt.user] + 1]
  /\ Stays /\ UNCHANGED formView /\ UNCHANGED ledger

\* The simulation fails, the user declines, or the network refuses it at once.
TxRefused ==
  /\ attempt.at \in {"building", "signing"}
  /\ Raises /\ Stays /\ UNCHANGED ledger

SendTx ==
  /\ attempt.at = "signing"
  /\ ledgerTxs' = Append(ledgerTxs, [sends |-> attempt.sends, user |-> attempt.user,
                       seq |-> attempt.seq, attempt |-> depositAttempts, fate |-> "sent"])
  /\ attempt' = [attempt EXCEPT !.at = "polling"]
  /\ Stays /\ UNCHANGED <<formView, accountSeq>>

Fate == ledgerTxs[Len(ledgerTxs)].fate

\* Mutant of TxConfirmed: a transaction that was not found counts as confirmed.
ConfirmedUnlessRefused == Fate # "failed"
\* submitAndConfirm returns for SUCCESS only.
TxConfirmed == Fate = "landed"

DepositFollows == [attempt EXCEPT !.sends = "deposit", !.at = "building", !.seq = 0]

StrategyConfirmed ==
  /\ attempt.at = "polling" /\ attempt.sends = "strategy" /\ TxConfirmed
  /\ attempt' = DepositFollows
  /\ Stays /\ UNCHANGED formView /\ UNCHANGED ledger

DepositConfirmed ==
  /\ attempt.at = "polling" /\ attempt.sends = "deposit" /\ TxConfirmed
  /\ attempt' = NoAttempt(attempt.user) /\ formView' = "success"
  /\ Stays /\ UNCHANGED ledger

\* FAILED, still NOT_FOUND after 30 seconds, or a call of the network that rejects:
\* sendTransaction whose answer is lost, or getTransaction.  But for FAILED, nothing
\* is known of the transaction: it may have landed, or still land.
PollGivesUp ==
  /\ attempt.at = "polling"
  /\ Raises
  /\ Stays /\ UNCHANGED ledger

-----------------------------------------------------------------------------
(* The network. *)

DepositSettles(i, fate) == ledgerTxs' = [ledgerTxs EXCEPT ![i].fate = fate]

\* A transaction takes the next sequence number of its account, or none.
Lands(i) ==
  LET tx == ledgerTxs[i] IN
  /\ tx.fate = "sent" /\ tx.seq = accountSeq[tx.user] + 1
  /\ accountSeq' = [accountSeq EXCEPT ![tx.user] = @ + 1]
  /\ DepositSettles(i, "landed") \/ DepositSettles(i, "failed")
  /\ UNCHANGED dialog /\ UNCHANGED <<attempt, depositAttempts>>

Drops(i) ==
  /\ ledgerTxs[i].fate = "sent" /\ DepositSettles(i, "dropped")
  /\ UNCHANGED dialog /\ UNCHANGED <<attempt, depositAttempts, accountSeq>>

PollEnds == StrategyConfirmed \/ DepositConfirmed \/ PollGivesUp

DepositNext ==
  \/ ReviewDeposit \/ ConfirmDeposit \/ ConfirmForOtherAccount \/ BackToForm
  \/ WalletChanges \/ AccountChanges
  \/ BuildTx \/ TxRefused \/ SendTx \/ PollEnds
  \/ \E i \in DOMAIN ledgerTxs : Lands(i) \/ Drops(i)

\* The 30 seconds of a poll pass.
DepositFairness == WF_depositVars(PollEnds)

DepositSpec == DepositInit /\ [][DepositNext]_depositVars /\ DepositFairness

-----------------------------------------------------------------------------
(* Properties. *)

Landed(k, what) ==
  \E i \in DOMAIN ledgerTxs : /\ ledgerTxs[i].attempt = k /\ ledgerTxs[i].sends = what
                              /\ ledgerTxs[i].fate = "landed"

(***************************************************************************)
(* "Success means ledger confirmation" (TRANSACTION_PROGRESS_VOCABULARY.md  *)
(* 5.2): the dialog reports success only for an attempt both of whose       *)
(* transactions have landed, late landings of earlier attempts aside.       *)
(***************************************************************************)
SuccessMeansLanded ==
  formView = "success" => Landed(depositAttempts, "strategy") /\ Landed(depositAttempts, "deposit")

(***************************************************************************)
(* No deposit reaches the ledger before the strategy chosen with it has.    *)
(***************************************************************************)
StrategyFirst ==
  \A i \in DOMAIN ledgerTxs :
    ledgerTxs[i].sends = "deposit" /\ ledgerTxs[i].fate = "landed" =>
      \E j \in 1 .. i : /\ ledgerTxs[j].sends = "strategy" /\ ledgerTxs[j].fate = "landed"
                        /\ ledgerTxs[j].attempt = ledgerTxs[i].attempt
                        /\ ledgerTxs[j].seq < ledgerTxs[i].seq

(***************************************************************************)
(* A transaction that the network loses does not keep the dialog waiting.   *)
(***************************************************************************)
PollsEnd == attempt.at = "polling" ~> attempt.at # "polling"

-----------------------------------------------------------------------------
(***************************************************************************)
(* What the deposit dialog shows before anything is signed (DepositForm.tsx *)
(* with vaultHelpers.ts): the wallet's balance, asked for when the dialog   *)
(* opens or the account changes, and an estimate of the shares, asked for   *)
(* when the amount has rested.  Answers arrive in any order.                *)
(***************************************************************************)

CONSTANTS
  FormUsers,    \* accounts of the wallet
  Nobody,       \* no account is connected
  MaxEstimates, \* estimates asked for in a behaviour
  MaxOpenings   \* balances asked for in a behaviour

ASSUME PreviewAssumption ==
  Nobody \notin FormUsers /\ MaxEstimates \in Nat /\ MaxOpenings \in Nat

VARIABLES
  formOpen,      \* isOpen
  formUser,      \* userPublicKey
  formAmount,    \* watchedAmount; 0: empty or not a number
  modalShown,    \* showPreview
  estimateDue,   \* does the timer of 600 ms run?
  askedEstimates, \* estimates asked for: number, account and amount
  asks,
  estimate,      \* estimatedShares: the account and amount it was made for
  estimating,    \* previewLoading
  raced,         \* has the timer run out while an estimate was under way?
  balanceOf,     \* the account usdcBalance was read for
  balanceAsked,  \* reads of the balance: account, and whether cancelled is set
  balanceLoading,
  openings

previewVars == <<formOpen, formUser, formAmount, modalShown, estimateDue, askedEstimates, asks, estimate,
                 estimating, raced, balanceOf, balanceAsked, balanceLoading, openings>>
estimates == <<askedEstimates, asks, estimating, raced>>
balances == <<balanceOf, balanceAsked, balanceLoading, openings>>

FormAmounts == {10, 20}
Connected == FormUsers \cup {Nobody}
NoEstimate == [user |-> Nobody, amount |-> 0]
EstimateFor(u, n) == [user |-> u, amount |-> n]

PreviewTypeOK ==
  /\ {formOpen, modalShown, estimateDue, estimating, raced, balanceLoading} \subseteq BOOLEAN
  /\ formUser \in Connected /\ formAmount \in {0} \cup FormAmounts
  /\ askedEstimates \subseteq (1 .. MaxEstimates) \X [user : FormUsers, amount : FormAmounts]
  /\ asks \in 0 .. MaxEstimates /\ openings \in 0 .. MaxOpenings
  /\ estimate \in {NoEstimate} \cup [user : FormUsers, amount : FormAmounts]
  /\ balanceOf \in Connected
  /\ balanceAsked \subseteq (1 .. MaxOpenings) \X FormUsers \X BOOLEAN

PreviewInit ==
  /\ formOpen = FALSE /\ formUser \in Connected /\ formAmount = 0 /\ modalShown = FALSE
  /\ estimateDue = TRUE /\ askedEstimates = {} /\ asks = 0 /\ estimate = NoEstimate
  /\ estimating = FALSE /\ raced = FALSE
  /\ balanceOf = Nobody /\ balanceAsked = {} /\ balanceLoading = FALSE /\ openings = 0

-----------------------------------------------------------------------------
(* The balance. *)

Cancelled == {<<r[1], r[2], TRUE>> : r \in balanceAsked}

\* The effect runs for dialog `open' and account u, after the cleanup of its last run.
LoadBalance(open, u) ==
  IF open /\ u # Nobody
    THEN /\ openings < MaxOpenings /\ openings' = openings + 1
         /\ balanceAsked' = Cancelled \cup {<<openings', u, FALSE>>}
         /\ balanceLoading' = TRUE
    ELSE balanceAsked' = Cancelled /\ UNCHANGED <<balanceLoading, openings>>

Heeds(r) == ~r[3]

\* The balance, or 0 when it cannot be read.
BalanceAnswers ==
  /\ \E r \in balanceAsked :
       /\ balanceAsked' = balanceAsked \ {r}
       /\ balanceOf' = IF Heeds(r) THEN r[2] ELSE balanceOf
       /\ balanceLoading' = IF Heeds(r) THEN FALSE ELSE balanceLoading
  /\ UNCHANGED <<formOpen, formUser, formAmount, modalShown, estimateDue, estimate, openings>>
  /\ UNCHANGED estimates

-----------------------------------------------------------------------------
(* The dialog. *)

OpenForm ==
  /\ ~formOpen /\ formOpen' = TRUE
  /\ LoadBalance(TRUE, formUser)
  /\ UNCHANGED <<formUser, formAmount, modalShown, estimateDue, estimate, balanceOf>>
  /\ UNCHANGED estimates

\* handleClose: an amount that is cleared starts the timer.
CloseForm ==
  /\ formOpen /\ formOpen' = FALSE
  /\ formAmount' = 0 /\ modalShown' = FALSE /\ estimate' = NoEstimate
  /\ estimateDue' = (estimateDue \/ formAmount # 0)
  /\ LoadBalance(FALSE, formUser)
  /\ UNCHANGED <<formUser, balanceOf>> /\ UNCHANGED estimates

\* A change of the amount starts the timer anew.
AmountBecomes(n) ==
  /\ formOpen /\ ~modalShown
  /\ formAmount' = n /\ estimateDue' = (estimateDue \/ n # formAmount)
  /\ UNCHANGED <<formOpen, formUser, modalShown, estimate>>
  /\ UNCHANGED estimates /\ UNCHANGED balances

\* The field.
EnterAmount == \E n \in {0} \cup FormAmounts : AmountBecomes(n)

\* handleMax: what has been read of the balance, also while it is read anew.
FillMax == \E n \in {0} \cup FormAmounts : (balanceOf = Nobody => n = 0) /\ AmountBecomes(n)

\* The button is disabled without a positive amount.
MaySubmit == formAmount # 0

ShowModal ==
  /\ formOpen /\ ~modalShown /\ MaySubmit /\ modalShown' = TRUE
  /\ UNCHANGED <<formOpen, formUser, formAmount, estimateDue, estimate>>
  /\ UNCHANGED estimates /\ UNCHANGED balances

CancelModal ==
  /\ modalShown /\ modalShown' = FALSE
  /\ UNCHANGED <<formOpen, formUser, formAmount, estimateDue, estimate>>
  /\ UNCHANGED estimates /\ UNCHANGED balances

AsksAgain == TRUE

\* The three effects that depend on the account.
FormUserChanges ==
  /\ \E u \in Connected \ {formUser} : formUser' = u /\ LoadBalance(formOpen, u)
  /\ modalShown' = FALSE /\ estimate' = NoEstimate /\ estimateDue' = AsksAgain
  /\ UNCHANGED <<formOpen, formAmount, balanceOf>> /\ UNCHANGED estimates

-----------------------------------------------------------------------------
(* The estimate. *)

\* fetchPreview, when the timer has run out.
AskEstimate ==
  /\ estimateDue /\ estimateDue' = FALSE
  /\ IF formAmount = 0 \/ formUser = Nobody
       THEN estimate' = NoEstimate /\ UNCHANGED <<askedEstimates, asks, estimating>>
       ELSE /\ asks < MaxEstimates /\ asks' = asks + 1
            /\ askedEstimates' = askedEstimates \cup {<<asks', EstimateFor(formUser, formAmount)>>}
            /\ estimating' = TRUE /\ UNCHANGED estimate
  /\ raced' = (raced \/ askedEstimates # {})
  /\ UNCHANGED <<formOpen, formUser, formAmount, modalShown>> /\ UNCHANGED balances

\* The simulation ends, with shares or with an error.
EstimateAnswers ==
  /\ \E q \in askedEstimates : askedEstimates' = askedEstimates \ {q} /\ estimate' \in {q[2], NoEstimate}
  /\ estimating' = FALSE
  /\ UNCHANGED <<formOpen, formUser, formAmount, modalShown, estimateDue, asks, raced>>
  /\ UNCHANGED balances

PreviewNext ==
  \/ OpenForm \/ CloseForm \/ EnterAmount \/ FillMax \/ ShowModal \/ CancelModal \/ FormUserChanges
  \/ BalanceAnswers \/ AskEstimate \/ EstimateAnswers

PreviewSpec == PreviewInit /\ [][PreviewNext]_previewVars

EstimateShown == modalShown /\ estimate # NoEstimate /\ ~estimating

-----------------------------------------------------------------------------
(* Properties. *)

\* The balance that is shown, and that MAX fills in, was read for the connected
\* account, in whatever order the reads of several accounts are answered.
BalanceIsTheUsers ==
  formOpen /\ formUser # Nobody /\ ~balanceLoading => balanceOf = formUser

\* When no estimate is under way as the timer runs out, the one at rest is that of the amount and the
\* account the dialog has: none is left over from before a change.
RestingEstimateIsCurrent ==
  ~estimateDue /\ askedEstimates = {} /\ ~raced =>
    estimate \in {NoEstimate, EstimateFor(formUser, formAmount)}

(***************************************************************************)
(* The dialog tells the truth: success is reported of what has landed, in   *)
(* its order, and balances and estimates are the user's own.                *)
(***************************************************************************)
DialogTellsTruth ==
  /\ DepositTypeOK /\ SuccessMeansLanded /\ StrategyFirst
  /\ PreviewTypeOK /\ BalanceIsTheUsers /\ RestingEstimateIsCurrent
================================================================================

------------------------------ MODULE Reconcile ------------------------------
(***************************************************************************)
(* The deposits and withdrawals tables, and the two who read them: the      *)
(* reconciliation job (reconcile.ts), which compares net shares with        *)
(* get_shares, a page of addresses a run, and the REST API (api.ts), which  *)
(* adds the tables up one after the other, for the balance of a user and    *)
(* for the total of all of them.  Users log in and transactions are         *)
(* recorded by the same API while either reads.                             *)
(*                                                                         *)
(* The call of get_shares is built from the wrong bytes: the address and    *)
(* the vault's id are read as base64 and hex, and the call is parsed from   *)
(* XDR it is not.  Building it throws, and an address whose query failed    *)
(* counts as one with no shares: no run ever sees the chain.                *)
(***************************************************************************)
EXTENDS Integers, FiniteSets, FiniteSetsExt

CONSTANTS
  Addresses,     \* stellar addresses, ordered as numbers
  PageSize,      \* limit
  ShareAmounts,  \* shares of a row
  MaxRows,       \* rows of the two tables in a behaviour
  MaxPinFailures \* failed reads of the latest ledger

ASSUME ReconcileAssumption ==
  /\ Addresses \subseteq Nat \ {0} /\ PageSize \in Nat \ {0}
  /\ ShareAmounts \subseteq Nat /\ MaxRows \in Nat /\ MaxPinFailures \in Nat

VARIABLES
  rows,        \* rows of each address, and of everybody, in the two tables, and the
               \* shares they add up to
  known,       \* addresses in the users table
  startAfter,  \* the last address of the run before; 0: from the beginning
  pass,        \* the run under way
  swept,       \* addresses the runs since the beginning have compared
  wanted,      \* addresses known at the beginning
  pinFailures,
  asked        \* the balance, or the total, that is being asked for

reconcileVars == <<rows, known, startAfter, pass, swept, wanted, pinFailures, asked>>

Kind == {"deposit", "withdrawal"}
Counts == [Kind -> [count : Nat, shares : Nat]]

\* positions: net shares read; left: addresses still to compare; mismatches: those
\* the run reports.
NoPass == [busy |-> FALSE, positions |-> <<>>, left |-> {}, mismatches |-> {}]

\* GET /stats adds the whole tables up.
Everybody == -1
Askers == Addresses \cup {Everybody}

\* user: whose balance, 0: nobody's; deposited: what the first table added up to; least:
\* the least the tables have left the user since.
BalanceRequests == [user : Askers \cup {0}, deposited : Nat, least : Int]
NoRequest == [user |-> 0, deposited |-> 0, least |-> 0]

ReconcileTypeOK ==
  /\ rows \in [Askers -> Counts]
  /\ known \subseteq Addresses /\ swept \subseteq Addresses /\ wanted \subseteq Addresses
  /\ startAfter \in Addresses \cup {0}
  /\ DOMAIN pass.positions \subseteq Addresses
  /\ pass.left \subseteq DOMAIN pass.positions
  /\ pass.mismatches \subseteq DOMAIN pass.positions \ pass.left
  /\ pinFailures \in 0 .. MaxPinFailures

NoRows == [k \in Kind |-> [count |-> 0, shares |-> 0]]
ReconcileInit ==
  /\ rows = [a \in Askers |-> NoRows]
  /\ known = {} /\ startAfter = 0 /\ pass = NoPass
  /\ swept = {} /\ wanted = {} /\ pinFailures = 0 /\ asked = NoRequest

\* users LEFT JOIN deposits LEFT JOIN withdrawals: each deposit comes once
\* per withdrawal, and each withdrawal once per deposit.
Times(n) == IF n = 0 THEN 1 ELSE n
NetShares(a) ==
  rows[a]["deposit"].shares * Times(rows[a]["withdrawal"].count)
    - rows[a]["withdrawal"].shares * Times(rows[a]["deposit"].count)

FirstOf(S) == {a \in S : Cardinality({b \in S : b < a}) < PageSize}

\* Mutant of After: the page starts a page further.
AfterByOffset == {a \in known : Cardinality({b \in known : b < a})
                                  >= Cardinality({b \in known : b <= startAfter})
                                       + IF startAfter = 0 THEN 0 ELSE 1}
After == {a \in known : a > startAfter}

\* loadDbPositions.
BeginPass ==
  /\ ~pass.busy
  /\ LET page == FirstOf(After)
     IN  pass' = [NoPass EXCEPT !.busy = TRUE, !.left = page,
                    !.positions = [a \in page |-> NetShares(a)]]
  /\ swept' = IF startAfter = 0 THEN {} ELSE swept
  /\ wanted' = IF startAfter = 0 THEN known ELSE wanted
  /\ UNCHANGED <<rows, known, startAfter, pinFailures, asked>>

\* getLatestLedger rejects: there is no result, and the operator tries again.
PinFails ==
  /\ pass.busy /\ pass.left = DOMAIN pass.positions
  /\ pinFailures < MaxPinFailures /\ pinFailures' = pinFailures + 1
  /\ pass' = NoPass
  /\ UNCHANGED <<rows, known, startAfter, swept, wanted, asked>>

\* What getOnchainShares returns from its catch.
OnchainShares == 0

Compares(a) ==
  /\ pass.left # {} /\ a = Min(pass.left)
  /\ pass' = [pass EXCEPT !.left = @ \ {a},
                !.mismatches = IF pass.positions[a] # OnchainShares THEN @ \cup {a} ELSE @]
  /\ swept' = swept \cup {a}
  /\ UNCHANGED <<rows, known, startAfter, wanted, pinFailures, asked>>

\* The operator's next run starts after the last address, or anew after a
\* page that was not full.
EndPass ==
  /\ pass.busy /\ pass.left = {}
  /\ startAfter' = IF Cardinality(DOMAIN pass.positions) < PageSize THEN 0
                   ELSE Max(DOMAIN pass.positions)
  /\ pass' = NoPass
  /\ UNCHANGED <<rows, known, swept, wanted, pinFailures, asked>>

RowCount(a) == rows[a]["deposit"].count + rows[a]["withdrawal"].count

\* POST /auth/login: a row for an address that has none.
LogsIn(a) ==
  /\ known' = known \cup {a}
  /\ UNCHANGED <<rows, startAfter, pass, swept, wanted, pinFailures, asked>>

\* What the tables leave a user.
Held(r, a) == r[a]["deposit"].shares - r[a]["withdrawal"].shares
Lower(x, y) == IF x < y THEN x ELSE y

WithRow(c, k, s) == [c EXCEPT ![k] = [count |-> @.count + 1, shares |-> @.shares + s]]

\* POST /transactions, the commit.  A hash that is recorded already, or an audit row that
\* fails, rolls everything back.
RecordTransaction(a, k, s) ==
  /\ RowCount(Everybody) < MaxRows
  /\ a \in known /\ s > 0
  /\ rows' = [b \in Askers |-> IF b \in {a, Everybody} THEN WithRow(rows[b], k, s) ELSE rows[b]]
  /\ asked' = IF asked.user \in {a, Everybody}
                THEN [asked EXCEPT !.least = Lower(@, Held(rows', asked.user))] ELSE asked
  /\ UNCHANGED <<known, startAfter, pass, swept, wanted, pinFailures>>

\* GET /balance of a user, GET /stats of everybody: the first table.
AddsDeposits(a) ==
  /\ asked = NoRequest /\ a \in known \cup {Everybody}
  /\ asked' = [user |-> a, deposited |-> rows[a]["deposit"].shares, least |-> Held(rows, a)]
  /\ UNCHANGED <<rows, known, startAfter, pass, swept, wanted, pinFailures>>

FromZero(n) == IF n < 0 THEN 0 ELSE n

\* What the second table makes of it: balance, tvl.
Balance == FromZero(asked.deposited - rows[asked.user]["withdrawal"].shares)

\* The second table and the answer, or a query that fails.
AnswersBalance ==
  /\ asked # NoRequest /\ asked' = NoRequest
  /\ UNCHANGED <<rows, known, startAfter, pass, swept, wanted, pinFailures>>

ReconcileNext ==
  \/ BeginPass \/ PinFails \/ EndPass \/ AnswersBalance
  \/ \E a \in Askers : AddsDeposits(a)
  \/ \E a \in Addresses : \/ Compares(a) \/ LogsIn(a)
                          \/ \E k \in Kind, s \in ShareAmounts : RecordTransaction(a, k, s)

ReconcileSpec == ReconcileInit /\ [][ReconcileNext]_reconcileVars

(***************************************************************************)
(* A run reports the addresses it has compared whose rows did not cancel    *)
(* out when the run began, whatever the chain holds and whatever is written *)
(* meanwhile: every depositor who never withdrew, and nobody without rows.  *)
(***************************************************************************)
ReportsWhatRowsLeave ==
  pass.mismatches = {a \in DOMAIN pass.positions \ pass.left : pass.positions[a] # 0}

(***************************************************************************)
(* Runs that continue after one another compare every address that was in   *)
(* the table when the first began, although addresses are added between.    *)
(***************************************************************************)
SweepMissesNobody ==
  pass.busy /\ pass.left = {} /\ Cardinality(DOMAIN pass.positions) < PageSize
    => wanted \subseteq swept

(***************************************************************************)
(* The two sums of a balance, or of the total of all users, are of          *)
(* different moments.  The answer is never more than any moment between     *)
(* them left: what is withdrawn while the request is under way is not shown *)
(* as held, and a deposit in that time counts against nobody.               *)
(***************************************************************************)
NeverMoreThanHeld ==
  /\ asked \in BalanceRequests
  /\ asked # NoRequest => Balance <= FromZero(asked.least)

(***************************************************************************)
(* The tables are read right, in spite of what is written under the reader: *)
(* sweeps reach everybody, and balances do not exceed what there was.       *)
(***************************************************************************)
TablesReadRight ==
  ReconcileTypeOK /\ ReportsWhatRowsLeave /\ SweepMissesNobody /\ NeverMoreThanHeld
================================================================================

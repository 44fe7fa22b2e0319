------------------------------ MODULE AdminPanel -------------------------------
(***************************************************************************)
(* The owner's pages (packages/admin-panel): app/page.tsx, the dashboard,   *)
(* and app/upgrade/page.tsx.  Either asks the contract for its owner and    *)
(* the network for its ledger whenever wallet, network or contract change;  *)
(* the page of upgrades reads the ledger again every 30 seconds, so that    *)
(* the time left of an upgrade stays right.  Reads overlap, fail, and       *)
(* answer in any order, also after the network has been changed.            *)
(*                                                                         *)
(* The owner is asked for with a key made for the occasion.  The generated  *)
(* client fetches the account of that key to simulate the call, and the     *)
(* network has no such account: the answer is always an error, `owner'      *)
(* stays null, and no panel is mounted by either page.                      *)
(***************************************************************************)
EXTENDS Naturals

CONSTANTS
  PageNetworks,  \* NETWORKS: testnet, mainnet
  MaxLedger,     \* ledgers a network closes
  MaxChanges     \* changes of the wallet, the network or the contract

ASSUME PageAssumption == MaxLedger \in Nat \ {0} /\ MaxChanges \in Nat

VARIABLES
  page,          \* which of the two pages this is
  network,       \* the store's
  inits,         \* networks for which an effect awaits the owner
  ledgerReads,   \* reads of getLatestLedger under way
  currentLedger, \* the ledger on the page, and whose it is
  chainLedger,   \* the latest ledger of each network
  pageChanges

pageVars == <<page, network, inits, ledgerReads, currentLedger, chainLedger, pageChanges>>

LedgerReads == [of : PageNetworks, ledger : 0 .. MaxLedger]
LatestOf(n) == [of |-> n, ledger |-> chainLedger[n]]

PageTypeOK ==
  /\ page \in {"dashboard", "upgrade"}
  /\ network \in PageNetworks /\ inits \subseteq PageNetworks
  /\ ledgerReads \subseteq LedgerReads /\ currentLedger \in LedgerReads
  /\ chainLedger \in [PageNetworks -> 1 .. MaxLedger] /\ pageChanges \in 0 .. MaxChanges

PageInit ==
  /\ page \in {"dashboard", "upgrade"}
  /\ network \in PageNetworks /\ inits = {network} /\ ledgerReads = {}
  /\ currentLedger = [of |-> network, ledger |-> 0]
  /\ chainLedger = [n \in PageNetworks |-> 1] /\ pageChanges = 0

-----------------------------------------------------------------------------

\* The effect runs again; nothing calls off the one before.
PageChanges ==
  /\ pageChanges < MaxChanges /\ pageChanges' = pageChanges + 1
  /\ \E n \in PageNetworks : network' = n /\ inits' = inits \cup {n}
  /\ UNCHANGED <<page, ledgerReads, currentLedger, chainLedger>>

\* get_owner rejects; the effect goes on to the ledger of the network it began with.
OwnerUnknown ==
  /\ \E n \in inits : inits' = inits \ {n} /\ ledgerReads' = ledgerReads \cup {LatestOf(n)}
  /\ UNCHANGED <<page, network, currentLedger, chainLedger, pageChanges>>

\* Mutant of HasInterval: the interval is missing.
NoInterval == FALSE
\* The page of upgrades has the interval.
HasInterval == page = "upgrade"

PollLedger ==
  /\ HasInterval
  /\ ledgerReads' = ledgerReads \cup {LatestOf(network)}
  /\ UNCHANGED <<page, network, inits, currentLedger, chainLedger, pageChanges>>

LedgerAnswers(r) ==
  /\ r \in ledgerReads /\ ledgerReads' = ledgerReads \ {r}
  /\ currentLedger' = r
  /\ UNCHANGED <<page, network, inits, chainLedger, pageChanges>>

LedgerFails ==
  /\ \E r \in ledgerReads : ledgerReads' = ledgerReads \ {r}
  /\ UNCHANGED <<page, network, inits, currentLedger, chainLedger, pageChanges>>

NetworkCloses ==
  /\ \E n \in PageNetworks : /\ chainLedger[n] < MaxLedger
                             /\ chainLedger' = [chainLedger EXCEPT ![n] = @ + 1]
  /\ UNCHANGED <<page, network, inits, ledgerReads, currentLedger, pageChanges>>

PageNext ==
  \/ PageChanges \/ OwnerUnknown \/ PollLedger \/ LedgerFails \/ NetworkCloses
  \/ \E r \in LedgerReads : LedgerAnswers(r)

\* The interval fires, and a read made often enough is answered in the end.
PageFairness == WF_pageVars(PollLedger) /\ SF_pageVars(LedgerAnswers(LatestOf(network)))

PageSpec == PageInit /\ [][PageNext]_pageVars /\ PageFairness

-----------------------------------------------------------------------------
(* Properties. *)

(***************************************************************************)
(* "Refresh ledger number every 30 s so the banner time remaining stays     *)
(* accurate" (upgrade/page.tsx:73): an answer that was overtaken, or came   *)
(* from the network chosen before, does not stay on the page.               *)
(***************************************************************************)
PageLedgerConverges == page = "upgrade" => []<>(currentLedger = LatestOf(network))
================================================================================

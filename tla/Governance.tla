------------------------------- MODULE Governance -------------------------------
(***************************************************************************)
(* Who governs the vault (vault/src/lib.rs): the agent and the code are    *)
(* replaced by the owner through proposals with a timelock, the standby    *)
(* agent and the guardian at once, the owner in two steps.                 *)
(***************************************************************************)
EXTENDS Naturals

CONSTANTS
  Keys,          \* addresses
  WasmHashes,    \* WASM hashes
  Nothing,       \* an absent entry of the storage
  Timelock,      \* AGENT_TIMELOCK_LEDGERS, UPGRADE_TIMELOCK_LEDGERS
  MaxLedger      \* bound of the runs

ASSUME GovernanceAssumption ==
  /\ Nothing \notin Keys \cup WasmHashes
  /\ Timelock \in Nat /\ MaxLedger \in Nat

VARIABLES
  now,           \* ledger sequence
  keys,          \* Owner, PendingOwner, Agent, StandbyAgent, Guardian
  proposal,      \* PendingAgent and PendingUpgradeHash with their expiries
  code,          \* the WASM hash that runs
  contractPaused,
  noticeAt       \* when the latest proposals were made

governanceVars == <<now, keys, proposal, code, contractPaused, noticeAt>>

Roles == {"owner", "pendingOwner", "agent", "standby", "guardian"}
Proposals == {"agent", "upgrade"}
None  == [value |-> Nothing, expiry |-> 0]
Subjects == [agent |-> Keys, upgrade |-> WasmHashes]

GovernanceTypeOK ==
  /\ now \in 0..MaxLedger
  /\ keys \in [Roles -> Keys \cup {Nothing}]
  /\ \A k \in Proposals : 
       \/ proposal[k] = None
       \/ proposal[k].value \in Subjects[k] /\ proposal[k].expiry \in Nat
  /\ code \in WasmHashes /\ contractPaused \in BOOLEAN
  /\ noticeAt \in [Proposals -> 0..MaxLedger]

GovernanceInit ==
  /\ now = 0
  /\ \E o \in Keys, a \in Keys : keys = [r \in Roles |->
       CASE r = "owner" -> o [] r = "agent" -> a [] OTHER -> Nothing]
  /\ proposal = [k \in Proposals |-> None]
  /\ code \in WasmHashes /\ contractPaused = FALSE
  /\ noticeAt = [k \in Proposals |-> 0]

IsPending(k) == proposal[k] # None
Set(r, v)  == keys' = [keys EXCEPT ![r] = v]
others     == <<now, code, contractPaused>>

-----------------------------------------------------------------------------
(* Proposals with a timelock. *)

Expiry(k) == now + Timelock

\* Mutant of Propose: a proposal replaces the one under way and keeps its expiry.
ProposeAnother(k, v) ==
  /\ proposal' = [proposal EXCEPT ![k] =
       [value |-> v, expiry |-> IF IsPending(k) THEN @.expiry ELSE Expiry(k)]]
  /\ noticeAt' = [noticeAt EXCEPT ![k] = IF IsPending(k) THEN @ ELSE now]
  /\ UNCHANGED <<now, keys, code, contractPaused>>

Propose(k, v) ==
  /\ ~IsPending(k)
  /\ proposal' = [proposal EXCEPT ![k] = [value |-> v, expiry |-> Expiry(k)]]
  /\ noticeAt' = [noticeAt EXCEPT ![k] = now]
  /\ UNCHANGED <<now, keys, code, contractPaused>>

UpdateAgent(v)     == Propose("agent", v)
ScheduleUpgrade(h) == ~contractPaused /\ Propose("upgrade", h)

Withdraw(k) ==
  /\ IsPending(k)
  /\ proposal' = [proposal EXCEPT ![k] = None]
  /\ UNCHANGED <<keys, noticeAt>> /\ UNCHANGED others

CancelAgentUpdate == Withdraw("agent")
CancelUpgrade     == Withdraw("upgrade")

Ripe(k) == IsPending(k) /\ now >= proposal[k].expiry

ConfirmAgentUpdate ==
  /\ Ripe("agent")
  /\ Set("agent", proposal["agent"].value)
  /\ proposal' = [proposal EXCEPT !["agent"] = None]
  /\ UNCHANGED noticeAt /\ UNCHANGED others

\* The guardian, if there is one, signs as well.
ExecuteUpgrade ==
  /\ ~contractPaused /\ Ripe("upgrade")
  /\ code' = proposal["upgrade"].value
  /\ proposal' = [proposal EXCEPT !["upgrade"] = None]
  /\ UNCHANGED <<now, keys, contractPaused, noticeAt>>

-----------------------------------------------------------------------------
(* Changes that take effect at once. *)

Appoints(r, v) == /\ Set(r, v)
                  /\ UNCHANGED <<proposal, noticeAt>> /\ UNCHANGED others

UpdateStandbyAgent(v) == v # keys["agent"] /\ Appoints("standby", v)

SwitchToStandbyAgent ==
  /\ keys["standby"] # Nothing
  /\ keys' = [keys EXCEPT !["agent"] = keys["standby"], !["standby"] = keys["agent"]]
  /\ UNCHANGED <<proposal, noticeAt>> /\ UNCHANGED others

SetGuardian(v)    == Appoints("guardian", v)
RemoveGuardian    == Appoints("guardian", Nothing)

TransferOwnership(v) == Appoints("pendingOwner", v)
AcceptOwnership ==
  /\ keys["pendingOwner"] # Nothing
  /\ keys' = [keys EXCEPT !["owner"] = keys["pendingOwner"], !["pendingOwner"] = Nothing]
  /\ UNCHANGED <<proposal, noticeAt>> /\ UNCHANGED others
CancelOwnershipTransfer == keys["pendingOwner"] # Nothing /\ Appoints("pendingOwner", Nothing)

\* External to the module: the ledger closes, the vault is paused or resumed.
NextLedger ==
  /\ now < MaxLedger
  /\ now' = now + 1
  /\ UNCHANGED <<keys, proposal, code, contractPaused, noticeAt>>
PauseOrResume ==
  /\ contractPaused' = ~contractPaused
  /\ UNCHANGED <<now, keys, proposal, code, noticeAt>>

GovernanceNext ==
  \/ \E v \in Keys : \/ UpdateAgent(v) \/ UpdateStandbyAgent(v)
                     \/ SetGuardian(v) \/ TransferOwnership(v)
  \/ \E h \in WasmHashes : ScheduleUpgrade(h)
  \/ CancelAgentUpdate \/ CancelUpgrade \/ ConfirmAgentUpdate \/ ExecuteUpgrade
  \/ SwitchToStandbyAgent \/ RemoveGuardian \/ AcceptOwnership \/ CancelOwnershipTransfer
  \/ NextLedger \/ PauseOrResume

GovernanceSpec == GovernanceInit /\ [][GovernanceNext]_governanceVars

-----------------------------------------------------------------------------
(* Properties. *)

\* Whoever watches the chain sees an upgrade for the whole delay before it runs,
\* and a new agent too unless it stood by: no sequence of proposals, withdrawals
\* and changes of the owner shortens the notice.
NoticeIsGiven ==
  [][/\ code' # code => now >= noticeAt["upgrade"] + Timelock
     /\ keys'["agent"] # keys["agent"]
          => \/ keys'["agent"] = keys["standby"]
             \/ now >= noticeAt["agent"] + Timelock]_governanceVars

\* An upgrade implements the abstract timelock: proposals, withdrawals and the
\* pause leave no other way for new code to come into force.
Upgrade == INSTANCE TimelockedChange WITH
  Values <- WasmHashes, NoValue <- Nothing, Delay <- Timelock,
  time <- now, announced <- proposal["upgrade"].value, since <- noticeAt["upgrade"],
  inForce <- code
UpgradeIsTimelocked == Upgrade!LockSpec
================================================================================

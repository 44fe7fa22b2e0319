--------------------------------- MODULE Custody ---------------------------------
(***************************************************************************)
(* Custodial keypairs (agent/src/custodialKeypair.ts): a key is drawn, its  *)
(* secret sealed, address and secret written to the user's row in one       *)
(* statement, and an audit entry added whose failure is swallowed.  A       *)
(* rotation reads the row, logs, and generates.  To sign, the secret of the *)
(* row is loaded and opened.  Several calls for one user may overlap.  A    *)
(* keypair is a number.  The row holds the only copy of a sealed secret:    *)
(* once a keypair is replaced, its secret is gone and the audit log is all  *)
(* that can still name its address.                                         *)
(***************************************************************************)
EXTENDS Naturals

CONSTANTS
  Keepers,     \* calls that may be under way
  MaxKeys      \* bound of the runs: keypairs drawn

ASSUME CustodyAssumption == MaxKeys \in Nat

VARIABLES
  keeper,      \* calls of generateCustodialKeypair and rotateCustodialKeypair
  drawn,       \* keypairs drawn so far
  row,         \* keypair of the user's stellar_address and encrypted_secret, 0 for NULL
  replaced,    \* keypairs a later statement took the place of
  rotated,     \* those replaced by a rotation that had read them
  named,       \* keypairs whose address the audit log names
  unlogged,    \* those whose keypair_generated entry failed or died with the process
  unannounced  \* those whose keypair_rotation_started entry failed

custodyVars == <<keeper, drawn, row, replaced, rotated, named, unlogged, unannounced>>
users == <<row, replaced, rotated>>
audit == <<named, unlogged, unannounced>>

Keypairs == 0 .. MaxKeys
IdleKeeper == [at |-> "idle", rotates |-> FALSE, old |-> 0, key |-> 0]

CustodyTypeOK ==
  /\ keeper \in [Keepers -> [at : {"idle", "reading", "announcing", "sealing", "writing",
                                   "logging", "loading", "opening", "returned",
                                   "rejected"},
                             rotates : BOOLEAN, old : Keypairs, key : Keypairs]]
  /\ drawn \in Keypairs
  /\ row \in Keypairs
  /\ {replaced, rotated, named, unlogged, unannounced} \subseteq SUBSET Keypairs

CustodyInit ==
  /\ keeper = [k \in Keepers |-> IdleKeeper] /\ drawn = 0
  /\ row = 0 /\ replaced = {} /\ rotated = {}
  /\ named = {} /\ unlogged = {} /\ unannounced = {}

Moves(k, to) == keeper' = [keeper EXCEPT ![k].at = to]
Free(k) == keeper[k].at \in {"idle", "returned", "rejected"}

\* writeAuditLog, which swallows its failure.
Logs(a, missed) == \/ named' = named \cup {a} /\ UNCHANGED missed
                   \/ missed' = missed \cup {a} /\ UNCHANGED named

-----------------------------------------------------------------------------
(* rotateCustodialKeypair. *)

BeginRotation(k) ==
  /\ Free(k) /\ drawn < MaxKeys
  /\ keeper' = [keeper EXCEPT ![k] = [IdleKeeper EXCEPT !.at = "reading", !.rotates = TRUE]]
  /\ UNCHANGED drawn /\ UNCHANGED users /\ UNCHANGED audit

ReadsRow(k) ==
  /\ keeper[k].at = "reading"
  /\ keeper' = [keeper EXCEPT ![k].at = "announcing", ![k].old = row]
  /\ UNCHANGED drawn /\ UNCHANGED users /\ UNCHANGED audit

Draws(k, rotates, old) ==
  /\ drawn < MaxKeys /\ drawn' = drawn + 1
  /\ keeper' = [keeper EXCEPT ![k] = [IdleKeeper EXCEPT !.at = "sealing", !.rotates = rotates,
                                        !.old = old, !.key = drawn']]

\* keypair_rotation_started, which holds the old public key only
AnnouncesRotation(k) ==
  /\ keeper[k].at = "announcing"
  /\ Logs(keeper[k].old, unannounced) /\ UNCHANGED unlogged
  /\ Draws(k, TRUE, keeper[k].old)
  /\ UNCHANGED users

-----------------------------------------------------------------------------
(* generateCustodialKeypair. *)

BeginGeneration(k) ==
  /\ Free(k) /\ Draws(k, FALSE, 0)
  /\ UNCHANGED users /\ UNCHANGED audit

SealsSecret(k) ==
  /\ keeper[k].at = "sealing" /\ Moves(k, "writing")
  /\ UNCHANGED drawn /\ UNCHANGED users /\ UNCHANGED audit

WritesRow(k) ==
  /\ keeper[k].at = "writing" /\ Moves(k, "logging")
  /\ row' = keeper[k].key
  /\ replaced' = replaced \cup ({row} \ {0})
  /\ rotated' = IF keeper[k].rotates /\ keeper[k].old = row
                THEN rotated \cup ({row} \ {0}) ELSE rotated
  /\ UNCHANGED drawn /\ UNCHANGED audit

\* keypair_generated.  Mutant: a rotation leaves the entry to its own, later one.
LogsFirstKeys(k) ==
  /\ UNCHANGED unannounced
  /\ IF keeper[k].rotates THEN UNCHANGED <<named, unlogged>> ELSE Logs(keeper[k].key, unlogged)
LogsGenerated(k) == Logs(keeper[k].key, unlogged) /\ UNCHANGED unannounced

\* The finally block calls fill on a string, which has no such method: the
\* error takes the place of the value, and a rotation does not log its end.
AfterLogging(k) == Moves(k, "rejected")

EndsGeneration(k) ==
  /\ keeper[k].at = "logging"
  /\ LogsGenerated(k) /\ AfterLogging(k)
  /\ UNCHANGED drawn /\ UNCHANGED users

-----------------------------------------------------------------------------
(* loadEncryptedSecret and decryptKeypairForSigning; the entry they add to  *)
(* the audit log names no address.                                          *)

BeginSigning(k) ==
  /\ Free(k) /\ keeper' = [keeper EXCEPT ![k] = [IdleKeeper EXCEPT !.at = "loading"]]
  /\ UNCHANGED drawn /\ UNCHANGED users /\ UNCHANGED audit

LoadsSecret(k) ==
  /\ keeper[k].at = "loading"
  /\ keeper' = [keeper EXCEPT ![k].at = IF row = 0 THEN "returned" ELSE "opening",
                               ![k].key = row]
  /\ UNCHANGED drawn /\ UNCHANGED users /\ UNCHANGED audit

OpensSecret(k) ==
  /\ keeper[k].at = "opening" /\ Moves(k, "returned")
  /\ UNCHANGED drawn /\ UNCHANGED users /\ UNCHANGED audit

-----------------------------------------------------------------------------
(* Failures. *)

\* KMS, or the database, fails.
CustodyFails(k) ==
  /\ keeper[k].at \in {"reading", "sealing", "writing", "loading", "opening"} /\ Moves(k, "rejected")
  /\ UNCHANGED drawn /\ UNCHANGED users /\ UNCHANGED audit

\* The process dies: no entry is written for a row that was.
KeeperDies ==
  /\ \E k \in Keepers : ~Free(k)
  /\ keeper' = [k \in Keepers |-> IF Free(k) THEN keeper[k] ELSE IdleKeeper]
  /\ unlogged' = unlogged \cup {keeper[k].key : k \in {x \in Keepers : keeper[x].at = "logging"}}
  /\ UNCHANGED <<drawn, named, unannounced>> /\ UNCHANGED users

CustodyNext ==
  \/ KeeperDies
  \/ \E k \in Keepers :
       \/ BeginRotation(k) \/ ReadsRow(k) \/ AnnouncesRotation(k)
       \/ BeginGeneration(k) \/ SealsSecret(k) \/ WritesRow(k) \/ EndsGeneration(k)
       \/ BeginSigning(k) \/ LoadsSecret(k) \/ OpensSecret(k)
       \/ CustodyFails(k)

CustodySpec == CustodyInit /\ [][CustodyNext]_custodyVars

-----------------------------------------------------------------------------
(* Properties. *)

(***************************************************************************)
(* An address that stood in the user's row and was replaced is named by the *)
(* audit log, unless the entry of its own generation is about to be         *)
(* written, failed, or died with the process.  The entry names an address   *)
(* only: nothing keeps the sealed secret that the statement overwrote.      *)
(***************************************************************************)
ReplacedIsNamed ==
  \A a \in replaced :
    a \in named \cup unlogged \/ \E k \in Keepers : keeper[k].at = "logging" /\ keeper[k].key = a

(***************************************************************************)
(* A rotation that replaces the address it read has a second chance to name *)
(* it: the address is missing only when the announcement failed too.  A     *)
(* call that comes between the reading and the writing takes that chance    *)
(* away, for the rotation then replaces an address it never read.           *)
(***************************************************************************)
RotatedIsAnnounced == rotated \subseteq named \cup unannounced

(***************************************************************************)
(* No address that was the user's is forgotten without a failed entry: the  *)
(* log of custodialKeypair.ts under overlapping calls, errors and deaths.   *)
(***************************************************************************)
AddressesNamed == CustodyTypeOK /\ ReplacedIsNamed /\ RotatedIsAnnounced
================================================================================

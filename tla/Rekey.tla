------------------------------- MODULE Rekey -------------------------------
(***************************************************************************)
(* The offline data-encryption-key (DEK) rotation of a db-keystore         *)
(* backend: `basil keystore rekey` and `basil keystore rekey --resume`,    *)
(* the broker that opens the same database, and the `basil bundle`         *)
(* maintenance commands that re-seal the bundle holding the DEK.           *)
(*                                                                         *)
(* Two directories hold the durable state: the database directory (dir)    *)
(* and the sealed bundle's directory (vault).  Each has a current content, *)
(* what a process sees, and a set of exposed contents: the ones a power    *)
(* loss may leave.  A directory operation adds its result to the exposed   *)
(* set, fsync of the directory leaves only the current content there; the  *)
(* operations reach the disk in the order they were issued, as a           *)
(* journalling file system does.  A killed process leaves the current      *)
(* content alone and loses its flock locks.                                *)
(*                                                                         *)
(* A ciphertext file is a record naming the DEK that opens it, the last    *)
(* committed write it contains, and the nonce it was encrypted under; its  *)
(* BLAKE3 hash is modelled by the record itself.  Likewise for a sealed    *)
(* bundle, whose nonce changes at every re-seal.                           *)
(***************************************************************************)
EXTENDS Integers

CONSTANTS
  Clis,       \* processes running `basil keystore rekey` or `basil bundle`
  Maints,     \* those among Clis that run bundle maintenance commands
  Agents,     \* broker processes
  Deks,       \* data-encryption keys
  None,       \* an absent file
  MaxNonce,   \* bound on the encryptions and seals of a behaviour
  MaxWrites   \* bound on the writes the agents commit

File == [dek : Deks, val : Nat, id : Nat]
Wal == [dek : Deks, val : Nat]
Bundle == [epoch : Nat, dek : Deks, rev : Nat]
Marker == [cand : File, old : File, pre : Bundle, post : Bundle]
Dir == [db : File, wal : Wal \cup {None}, staging : BOOLEAN,
        cand : File \cup {None}, marker : Marker \cup {None}]
Vault == [bundle : Bundle, seen : Nat]
Job == [cand : File \cup {None}, old : File \cup {None},
        pre : Bundle \cup {None}, post : Bundle \cup {None}]

ASSUME RekeyAssumption ==
  /\ Maints \subseteq Clis
  /\ MaxNonce \in Nat /\ MaxWrites \in Nat
  /\ None \notin File /\ None \notin Wal /\ None \notin Bundle
  /\ None \notin Marker

VARIABLES
  dir, exposed,      \* the database directory and its contents after a power loss
  vault, vexposed,   \* the bundle directory likewise
  pc, job,           \* per Cli: where it is, and the transition it works on
  agent,             \* per agent: its state and the DEK it unlocked
  committed,         \* the last write acknowledged to a client (history)
  nonce              \* the next unused nonce

vars == <<dir, exposed, vault, vexposed, pc, job, agent, committed, nonce>>
fsVars == <<dir, exposed>>
vaultVars == <<vault, vexposed>>
cliVars == <<pc, job>>

NoJob == [cand |-> None, old |-> None, pre |-> None, post |-> None]

MaintPcs == {"m_write", "m_written", "m_sidecar", "m_done"}
(* Where the holder of the bundle's maintenance lock can be. *)
BundlePcs == MaintPcs \cup
  {"mkdir", "stage", "publish", "published", "commit", "committed", "sidecar",
   "sidecar_written", "swap", "unlinked", "rename", "renamed", "finish",
   "unstaged", "unmark", "unmarked", "r_sidecar", "r_written", "r_act",
   "rb_unlinked", "rb_rmdir"}
Pcs == BundlePcs \cup {"idle", "fresh", "resume"}
AgentStates == {"down", "unlocked", "locked", "serving"}

(* The two advisory locks, both non-blocking flocks: a rekey takes the    *)
(* database lock exclusively for its whole run, then the bundle's; an     *)
(* agent holds the bundle's shared until its store is open and the        *)
(* database's shared while its store is open.                             *)
HoldsRekeyLock(c) == pc[c] \notin MaintPcs \cup {"idle"}
HoldsBundleLock(c) == pc[c] \in BundlePcs
HoldsStartupGuard(a) == agent[a].st \in {"unlocked", "locked"}
HoldsStoreLock(a) == agent[a].st \in {"locked", "serving"}

RekeyLockFree ==
  /\ \A c \in Clis : ~HoldsRekeyLock(c)
  /\ \A a \in Agents : ~HoldsStoreLock(a)
BundleLockFree ==
  /\ \A c \in Clis : ~HoldsBundleLock(c)
  /\ \A a \in Agents : ~HoldsStartupGuard(a)

(* What a reader of the database sees: the write-ahead log's content when *)
(* there is one, and only when the log and the file share a key.          *)
WalFits(d) == d.wal # None => d.wal.dek = d.db.dek
Content(d) == IF d.wal = None THEN d.db.val ELSE d.wal.val

-----------------------------------------------------------------------------
(* Directory operations. *)

Change(d) == dir' = d /\ exposed' = exposed \cup {d}
Store(v) == vault' = v /\ vexposed' = vexposed \cup {v}
Goto(c, l) == pc' = [pc EXCEPT ![c] = l]
Exit(c) == pc' = [pc EXCEPT ![c] = "idle"] /\ job' = [job EXCEPT ![c] = NoJob]

(* fsync of the database directory, and where the run goes from there. *)
DirSync == [published   |-> "commit",  unlinked |-> "rename",
            renamed     |-> "finish",  unstaged |-> "unmark",
            rb_unlinked |-> "rb_rmdir"]

SyncDir(c) ==
  /\ pc[c] \in DOMAIN DirSync
  /\ exposed' = {dir}
  /\ Goto(c, DirSync[pc[c]])
  /\ UNCHANGED <<dir, vaultVars, job, agent, committed, nonce>>

(* The final fsync, after which the run reports success and drops its     *)
(* locks.                                                                 *)
SyncAndExit(c) ==
  /\ pc[c] = "unmarked"
  /\ exposed' = {dir}
  /\ Exit(c)
  /\ UNCHANGED <<dir, vaultVars, agent, committed, nonce>>

(* write_name's last step: fsync of the bundle's directory. *)
VaultSync == [committed |-> "sidecar", sidecar_written |-> "swap",
              r_written |-> "r_act",   m_written |-> "m_sidecar"]

(* Faulty form of SyncVault: the rename is not followed by an fsync. *)
SyncVault_NoFsync(c) ==
  /\ pc[c] \in DOMAIN VaultSync
  /\ Goto(c, VaultSync[pc[c]])
  /\ UNCHANGED <<vaultVars, fsVars, job, agent, committed, nonce>>

SyncVault(c) ==
  /\ pc[c] \in DOMAIN VaultSync
  /\ vexposed' = {vault}
  /\ Goto(c, VaultSync[pc[c]])
  /\ UNCHANGED <<vault, fsVars, job, agent, committed, nonce>>

-----------------------------------------------------------------------------
(* The checks a run makes before a step.  A failed check is a typed error *)
(* that ends the run, and nothing is undone.                              *)

FreshAllowed == dir.marker = None /\ BundleLockFree /\ vault.seen <= vault.bundle.epoch

(* phase_for_authenticated_bundle: the marker names the exact bundle       *)
(* before and after the transition.                                       *)
RollsBack(m, b) == b = m.pre
RollsForward(m, b) == b = m.post
ResumeAllowed ==
  /\ dir.marker # None
  /\ BundleLockFree
  /\ RollsBack(dir.marker, vault.bundle) \/ RollsForward(dir.marker, vault.bundle)
  /\ vault.seen <= vault.bundle.epoch

SwapAllowed(c) ==
  /\ dir.marker # None /\ dir.marker.cand = job[c].cand
  /\ dir.marker.old = job[c].old
  /\ dir.staging /\ dir.cand = job[c].cand
FinishAllowed == dir.marker # None /\ dir.db = dir.marker.cand /\ dir.cand = None
BackAllowed(c) == dir.marker = job[c] /\ dir.db = dir.marker.old
(* Faulty form of ForwardAllowed: a crash after the rename is taken for    *)
(* tampering.                                                             *)
ForwardAllowed_NeedsCandidate(c) == dir.marker = job[c] /\ dir.cand = dir.marker.cand

ForwardAllowed(c) ==
  /\ dir.marker = job[c]
  /\ dir.cand \in {dir.marker.cand, None}
  /\ dir.cand = None => dir.db = dir.marker.cand

Permitted(c) ==
  CASE pc[c] = "fresh"   -> FreshAllowed
    [] pc[c] = "resume"  -> ResumeAllowed
    [] pc[c] = "mkdir"   -> ~dir.staging
    [] pc[c] = "stage"   -> dir.db.dek = job[c].pre.dek /\ WalFits(dir)
    [] pc[c] = "publish" -> dir.marker = None
    [] pc[c] = "swap"    -> SwapAllowed(c)
    [] pc[c] = "finish"  -> FinishAllowed
    [] pc[c] = "unmark"  -> dir.marker # None
    [] pc[c] = "r_act"   -> IF RollsBack(job[c], vault.bundle)
                              THEN BackAllowed(c) ELSE ForwardAllowed(c)
    [] OTHER             -> TRUE

(* A failed step returns, which drops the locks; only rekey_to_staging    *)
(* cleans up behind itself.                                               *)
Abandon(c) ==
  /\ IF pc[c] = "stage"
       THEN /\ dir' = [dir EXCEPT !.staging = FALSE, !.cand = None]
            /\ exposed' = {dir'}
       ELSE UNCHANGED fsVars
  /\ Exit(c)
  /\ UNCHANGED <<vaultVars, agent, committed, nonce>>

Refuse(c) == ~Permitted(c) /\ Abandon(c)

-----------------------------------------------------------------------------
(* A fresh rekey. *)

StartFresh(c) ==
  /\ pc[c] = "idle" /\ RekeyLockFree /\ nonce < MaxNonce
  /\ Goto(c, "fresh")
  /\ UNCHANGED <<fsVars, vaultVars, job, agent, committed, nonce>>

(* prepare_db_keystore_rekey: under the bundle lock, re-seal the bundle    *)
(* with the replacement DEK at the next epoch, in memory.                 *)
Prepare(c) ==
  /\ pc[c] = "fresh" /\ FreshAllowed /\ nonce < MaxNonce
  /\ \E k \in Deks :
       job' = [job EXCEPT ![c] =
                [NoJob EXCEPT !.pre = vault.bundle,
                              !.post = [epoch |-> vault.bundle.epoch + 1,
                                        dek |-> k, rev |-> nonce]]]
  /\ nonce' = nonce + 1
  /\ Goto(c, "mkdir")
  /\ UNCHANGED <<fsVars, vaultVars, agent, committed>>

MakeStaging(c) ==
  /\ pc[c] = "mkdir" /\ Permitted(c)
  /\ Change([dir EXCEPT !.staging = TRUE])
  /\ Goto(c, "stage")
  /\ UNCHANGED <<vaultVars, job, agent, committed, nonce>>

(* rekey_to_staging: copy every record into a candidate under the new     *)
(* DEK, verify it against the source, hash both.                          *)
StageCandidate(c) ==
  /\ pc[c] = "stage" /\ Permitted(c)
  /\ LET cand == [dek |-> job[c].post.dek, val |-> Content(dir), id |-> job[c].post.rev]
     IN  /\ Change([dir EXCEPT !.cand = cand])
         /\ job' = [job EXCEPT ![c].cand = cand, ![c].old = dir.db]
  /\ Goto(c, "publish")
  /\ UNCHANGED <<vaultVars, agent, committed, nonce>>

(* write_intent_marker: the complete marker is linked in one step. *)
PublishMarker(c) ==
  /\ pc[c] = "publish" /\ Permitted(c)
  /\ Change([dir EXCEPT !.marker = job[c]])
  /\ Goto(c, "published")
  /\ UNCHANGED <<vaultVars, job, agent, committed, nonce>>

(* commit_bundle: the rename of the re-sealed bundle is the commit point. *)
CommitBundle(c) ==
  /\ pc[c] = "commit"
  /\ Store([vault EXCEPT !.bundle = job[c].post])
  /\ Goto(c, "committed")
  /\ UNCHANGED <<fsVars, job, agent, committed, nonce>>

WriteEpochSidecar(c) ==
  /\ pc[c] = "sidecar"
  /\ Store([vault EXCEPT !.seen = job[c].post.epoch])
  /\ Goto(c, "sidecar_written")
  /\ UNCHANGED <<fsVars, job, agent, committed, nonce>>

(* swap_candidate: unlink the old -wal and -tshm, sync, then rename the    *)
(* candidate over the database and sync again.                            *)
UnlinkSidecars(c) ==
  /\ pc[c] = "swap" /\ Permitted(c)
  /\ Change([dir EXCEPT !.wal = None])
  /\ Goto(c, "unlinked")
  /\ UNCHANGED <<vaultVars, job, agent, committed, nonce>>

RenameCandidate(c) ==
  /\ pc[c] = "rename"
  /\ Change([dir EXCEPT !.db = dir.cand, !.cand = None])
  /\ Goto(c, "renamed")
  /\ UNCHANGED <<vaultVars, job, agent, committed, nonce>>

(* finish_rekey: remove and sync the staging directory, then remove the    *)
(* marker last and sync again.                                            *)
RemoveStaging(c) ==
  /\ \/ pc[c] = "finish" /\ Permitted(c)
     \/ pc[c] = "rb_rmdir"
  /\ Change([dir EXCEPT !.staging = FALSE])
  /\ Goto(c, "unstaged")
  /\ UNCHANGED <<vaultVars, job, agent, committed, nonce>>

UnlinkMarker(c) ==
  /\ pc[c] = "unmark" /\ Permitted(c)
  /\ Change([dir EXCEPT !.marker = None])
  /\ Goto(c, "unmarked")
  /\ UNCHANGED <<vaultVars, job, agent, committed, nonce>>

-----------------------------------------------------------------------------
(* Recovery with --resume. *)

StartResume(c) ==
  /\ pc[c] = "idle" /\ RekeyLockFree
  /\ Goto(c, "resume")
  /\ UNCHANGED <<fsVars, vaultVars, job, agent, committed, nonce>>

(* Read the marker, authenticate the bundle under its lock, select the    *)
(* phase and check the epoch sidecar.                                     *)
ReadMarker(c) ==
  /\ pc[c] = "resume" /\ ResumeAllowed
  /\ job' = [job EXCEPT ![c] = dir.marker]
  /\ Goto(c, "r_sidecar")
  /\ UNCHANGED <<fsVars, vaultVars, agent, committed, nonce>>

(* The sidecar is rewritten before either direction: its fsync is also     *)
(* what makes a half-written commit of the bundle durable.                *)
ResumeSidecar(c) ==
  /\ pc[c] = "r_sidecar"
  /\ Store([vault EXCEPT !.seen = vault.bundle.epoch])
  /\ Goto(c, "r_written")
  /\ UNCHANGED <<fsVars, job, agent, committed, nonce>>

(* Faulty form of RollBack: the candidate is discarded in either phase. *)
RollBack_AnyPhase(c) ==
  /\ pc[c] = "r_act" /\ Permitted(c)
  /\ Change([dir EXCEPT !.cand = None])
  /\ Goto(c, "rb_unlinked")
  /\ UNCHANGED <<vaultVars, job, agent, committed, nonce>>

(* roll_back: discard the candidate; the live database is untouched. *)
RollBack(c) ==
  /\ pc[c] = "r_act" /\ RollsBack(job[c], vault.bundle) /\ Permitted(c)
  /\ Change([dir EXCEPT !.cand = None])
  /\ Goto(c, "rb_unlinked")
  /\ UNCHANGED <<vaultVars, job, agent, committed, nonce>>

(* roll_forward: complete the swap, or only the cleanup when the rename    *)
(* already consumed the candidate.                                        *)
RollForward(c) ==
  /\ pc[c] = "r_act" /\ ~RollsBack(job[c], vault.bundle) /\ Permitted(c)
  /\ Goto(c, IF dir.cand # None THEN "swap" ELSE "finish")
  /\ UNCHANGED <<fsVars, vaultVars, job, agent, committed, nonce>>

-----------------------------------------------------------------------------
(* Bundle maintenance: add-slot, set-backend, deposit, allow, promote.     *)
(* Each re-seals under the maintenance lock and keeps the db-keystore DEK; *)
(* promote advances the epoch.  None looks for a rekey's intent marker.   *)

StartMaintenance(c) ==
  /\ c \in Maints /\ pc[c] = "idle" /\ BundleLockFree /\ nonce < MaxNonce
  /\ \E step \in {0, 1} :
       job' = [job EXCEPT ![c] =
                [NoJob EXCEPT !.pre = vault.bundle,
                              !.post = [epoch |-> vault.bundle.epoch + step,
                                        dek |-> vault.bundle.dek, rev |-> nonce]]]
  /\ nonce' = nonce + 1
  /\ Goto(c, "m_write")
  /\ UNCHANGED <<fsVars, vaultVars, agent, committed>>

WriteMaintained(c) ==
  /\ pc[c] = "m_write"
  /\ Store([vault EXCEPT !.bundle = job[c].post])
  /\ Goto(c, "m_written")
  /\ UNCHANGED <<fsVars, job, agent, committed, nonce>>

(* deposit, allow and deposit-key leave the epoch alone and end here; the  *)
(* others write the sidecar.                                              *)
SkipSidecar(c) ==
  /\ pc[c] = "m_sidecar" /\ job[c].post.epoch = job[c].pre.epoch
  /\ Exit(c)
  /\ UNCHANGED <<fsVars, vaultVars, agent, committed, nonce>>

WriteMaintSidecar(c) ==
  /\ pc[c] = "m_sidecar"
  /\ Store([vault EXCEPT !.seen = job[c].post.epoch])
  /\ Goto(c, "m_done")
  /\ UNCHANGED <<fsVars, job, agent, committed, nonce>>

EndMaintenance(c) ==
  /\ pc[c] = "m_done"
  /\ vexposed' = {vault}
  /\ Exit(c)
  /\ UNCHANGED <<vault, fsVars, agent, committed, nonce>>

-----------------------------------------------------------------------------
(* The broker. *)

SetAgent(a, s, k) == agent' = [agent EXCEPT ![a] = [st |-> s, dek |-> k]]

(* open_bundle_at_startup: under the shared guard, refuse an epoch below   *)
(* the sidecar, advance the sidecar otherwise, recover the DEK.            *)
Unlock(a) ==
  /\ agent[a].st = "down"
  /\ \A c \in Clis : ~HoldsBundleLock(c)
  /\ vault.seen <= vault.bundle.epoch
  /\ IF vault.seen < vault.bundle.epoch
       THEN /\ vault' = [vault EXCEPT !.seen = vault.bundle.epoch]
            /\ vexposed' = {vault'}
       ELSE UNCHANGED vaultVars
  /\ SetAgent(a, "unlocked", vault.bundle.dek)
  /\ UNCHANGED <<fsVars, cliVars, committed, nonce>>

(* guard_store_open: the shared lock first, the marker after it. *)
LockStore(a) ==
  /\ agent[a].st = "unlocked"
  /\ \A c \in Clis : ~HoldsRekeyLock(c)
  /\ SetAgent(a, "locked", agent[a].dek)
  /\ UNCHANGED <<fsVars, vaultVars, cliVars, committed, nonce>>

(* Faulty form of StoreOpens: the fence is not consulted. *)
StoreOpens_NoFence(a) == dir.db.dek = agent[a].dek /\ WalFits(dir)

(* SecretStore::open succeeds only with the key of the database; then the *)
(* startup guard is dropped.                                              *)
StoreOpens(a) == dir.marker = None /\ dir.db.dek = agent[a].dek /\ WalFits(dir)
OpenStore(a) ==
  /\ agent[a].st = "locked" /\ StoreOpens(a)
  /\ SetAgent(a, "serving", agent[a].dek)
  /\ UNCHANGED <<fsVars, vaultVars, cliVars, committed, nonce>>

(* The lock is taken, the marker is there, or the key does not fit: the    *)
(* broker exits.                                                          *)
RefuseStart(a) ==
  /\ \/ agent[a].st = "unlocked" /\ \E c \in Clis : HoldsRekeyLock(c)
     \/ agent[a].st = "locked" /\ ~StoreOpens(a)
  /\ SetAgent(a, "down", agent[a].dek)
  /\ UNCHANGED <<fsVars, vaultVars, cliVars, committed, nonce>>

(* A write commits to the write-ahead log and is synced; syncing a file    *)
(* also commits the directory operations issued before it.                *)
Put(a) ==
  /\ agent[a].st = "serving" /\ committed < MaxWrites
  /\ committed' = committed + 1
  /\ dir' = [dir EXCEPT !.wal = [dek |-> agent[a].dek, val |-> committed + 1]]
  /\ exposed' = {dir'}
  /\ UNCHANGED <<vaultVars, cliVars, agent, nonce>>

(* The database engine moves the log into the file. *)
Checkpoint(a) ==
  /\ agent[a].st = "serving" /\ dir.wal # None /\ nonce < MaxNonce
  /\ dir' = [dir EXCEPT !.db = [dek |-> agent[a].dek, val |-> dir.wal.val, id |-> nonce],
                        !.wal = None]
  /\ exposed' = {dir'}
  /\ nonce' = nonce + 1
  /\ UNCHANGED <<vaultVars, cliVars, agent, committed>>

(* A shutdown or a kill. *)
StopAgent(a) ==
  /\ agent[a].st # "down"
  /\ SetAgent(a, "down", agent[a].dek)
  /\ UNCHANGED <<fsVars, vaultVars, cliVars, committed, nonce>>

-----------------------------------------------------------------------------
(* Faults. *)

(* A system call of the step fails before it changes anything. *)
IoError(c) == pc[c] # "idle" /\ Abandon(c)

KillCli(c) ==
  /\ pc[c] # "idle"
  /\ Exit(c)
  /\ UNCHANGED <<fsVars, vaultVars, agent, committed, nonce>>

PowerLoss ==
  /\ \E d \in exposed : dir' = d /\ exposed' = {d}
  /\ \E v \in vexposed : vault' = v /\ vexposed' = {v}
  /\ pc' = [c \in Clis |-> "idle"]
  /\ job' = [c \in Clis |-> NoJob]
  /\ agent' = [a \in Agents |-> [agent[a] EXCEPT !.st = "down"]]
  /\ UNCHANGED <<committed, nonce>>

(* The operator removes a stale staging directory, as StagingExists asks. *)
CleanStaging ==
  /\ dir.staging /\ dir.marker = None
  /\ \A c \in Clis : ~HoldsRekeyLock(c)
  /\ dir' = [dir EXCEPT !.staging = FALSE, !.cand = None]
  /\ exposed' = {dir'}
  /\ UNCHANGED <<vaultVars, cliVars, agent, committed, nonce>>

-----------------------------------------------------------------------------
Init ==
  /\ \E k \in Deks :
       /\ dir = [db |-> [dek |-> k, val |-> 0, id |-> 0], wal |-> None,
                 staging |-> FALSE, cand |-> None, marker |-> None]
       /\ vault = [bundle |-> [epoch |-> 1, dek |-> k, rev |-> 0], seen |-> 1]
       /\ agent = [a \in Agents |-> [st |-> "down", dek |-> k]]
  /\ exposed = {dir}
  /\ vexposed = {vault}
  /\ pc = [c \in Clis |-> "idle"]
  /\ job = [c \in Clis |-> NoJob]
  /\ committed = 0
  /\ nonce = 1

Fresh(c) ==
  \/ StartFresh(c) \/ Prepare(c) \/ MakeStaging(c) \/ StageCandidate(c)
  \/ PublishMarker(c) \/ CommitBundle(c) \/ WriteEpochSidecar(c)
(* The steps of a run once it is under way, a refusal included. *)
Proceed(c) ==
  \/ SyncDir(c) \/ SyncAndExit(c) \/ SyncVault(c)
  \/ UnlinkSidecars(c) \/ RenameCandidate(c) \/ RemoveStaging(c) \/ UnlinkMarker(c)
  \/ ResumeSidecar(c) \/ RollBack(c) \/ RollForward(c) \/ Refuse(c)
Maintenance(c) ==
  \/ StartMaintenance(c) \/ WriteMaintained(c) \/ SkipSidecar(c)
  \/ WriteMaintSidecar(c) \/ EndMaintenance(c)
Cli(c) == Fresh(c) \/ StartResume(c) \/ ReadMarker(c) \/ Proceed(c) \/ Maintenance(c)
Agent(a) ==
  \/ Unlock(a) \/ LockStore(a) \/ OpenStore(a) \/ RefuseStart(a)
  \/ Put(a) \/ Checkpoint(a) \/ StopAgent(a)
Quiet ==
  \/ \E c \in Clis : Cli(c)
  \/ \E a \in Agents : Agent(a)
  \/ CleanStaging
Fault == (\E c \in Clis : IoError(c) \/ KillCli(c)) \/ PowerLoss

Next == Quiet \/ Fault

Spec == Init /\ [][Next]_vars

-----------------------------------------------------------------------------
(* Properties. *)

(* Type correctness of the directories, the runs and the agents. *)
TypeOK ==
  /\ dir \in Dir /\ exposed \subseteq Dir /\ dir \in exposed
  /\ vault \in Vault /\ vexposed \subseteq Vault /\ vault \in vexposed
  /\ pc \in [Clis -> Pcs] /\ job \in [Clis -> Job]
  /\ agent \in [Agents -> [st : AgentStates, dek : Deks]]
  /\ committed \in Nat /\ nonce \in Nat

(* The DEK a bundle carries opens the committed data: from the live        *)
(* database, or, behind the intent marker, from the staged candidate that  *)
(* roll_forward would swap in.                                            *)
LiveReadable(d, b) == d.db.dek = b.dek /\ WalFits(d) /\ Content(d) = committed
CandidateReadable(d, b) ==
  /\ d.marker # None /\ d.staging /\ d.cand = d.marker.cand
  /\ d.cand.dek = b.dek /\ d.cand.val = committed

(* Whatever a power loss leaves of the two directories, every committed    *)
(* write can still be read with the DEK of the surviving bundle; without a *)
(* marker, directly from the live database.                               *)
DataSurvives ==
  \A d \in exposed, v \in vexposed :
    LiveReadable(d, v.bundle) \/ CandidateReadable(d, v.bundle)

(* A power loss never leaves the new database beside the log of the old    *)
(* one, which the engine would replay under the wrong key.                *)
NoForeignLog == \A d \in exposed : WalFits(d)

(* Whatever a power loss leaves, as long as no maintenance command has     *)
(* re-sealed the bundle, --resume finds a phase whose hash checks pass.    *)
Recoverable ==
  \A d \in exposed, v \in vexposed :
    d.marker # None =>
      /\ v.bundle = d.marker.pre => d.db = d.marker.old
      /\ v.bundle = d.marker.post =>
           \/ d.staging /\ d.cand = d.marker.cand
           \/ d.cand = None /\ d.db = d.marker.cand

(* A broker that serves uses the key of the live database and of every     *)
(* bundle that may survive, with no rekey under way and no fence in place. *)
ServingConsistent ==
  \A a \in Agents : agent[a].st = "serving" =>
    /\ dir.marker = None /\ dir.db.dek = agent[a].dek /\ WalFits(dir)
    /\ \A v \in vexposed : v.bundle.dek = agent[a].dek
    /\ \A c \in Clis : ~HoldsRekeyLock(c)

(* The epoch sidecar is never ahead of the bundle beside it, whatever a    *)
(* power loss leaves: the broker would refuse to start.                   *)
SidecarNotAhead == \A v \in vexposed : v.seen <= v.bundle.epoch

(* A power loss while the intent marker is being removed leaves no staging *)
(* directory without its marker: the fence goes last.                     *)
FenceRemovedLast ==
  \A c \in Clis : pc[c] = "unmarked" =>
    \A d \in exposed : d.marker = None => ~d.staging /\ d.cand = None

(* A marker can always be resolved by --resume: the bundle beside it is    *)
(* the one before or the one after the recorded transition.               *)
ResumeAlwaysApplies ==
  dir.marker # None =>
    RollsBack(dir.marker, vault.bundle) \/ RollsForward(dir.marker, vault.bundle)

-----------------------------------------------------------------------------
(* The inductive invariant behind the safety properties. *)

(* The locks exclude each other. *)
LocksExclude ==
  /\ \A c, e \in Clis : HoldsRekeyLock(c) /\ HoldsRekeyLock(e) => c = e
  /\ \A c, e \in Clis : HoldsBundleLock(c) /\ HoldsBundleLock(e) => c = e
  /\ \A c \in Clis, a \in Agents : HoldsRekeyLock(c) => ~HoldsStoreLock(a)
  /\ \A c \in Clis, a \in Agents : HoldsBundleLock(c) => ~HoldsStartupGuard(a)

(* The four shapes a database directory can have behind a marker m: both   *)
(* files in place, rolled back, its log gone, and swapped.                 *)
Staged(d, m) ==
  /\ d.db = m.old /\ WalFits(d) /\ Content(d) = committed
  /\ d.staging /\ d.cand = m.cand
Discarded(d, m) ==
  d.db = m.old /\ WalFits(d) /\ Content(d) = committed /\ d.cand = None
LogGone(d, m) == d.db = m.old /\ d.wal = None /\ d.staging /\ d.cand = m.cand
Swapped(d, m) == d.db = m.cand /\ d.wal = None /\ d.cand = None

(* What a marker, or a run about to publish one, records. *)
Binds(m) ==
  /\ m.cand.dek = m.post.dek /\ m.old.dek = m.pre.dek /\ m.cand.val = committed
  /\ m.pre.rev < nonce /\ m.post.rev < nonce /\ m.pre.rev # m.post.rev

(* The shapes that agree with a bundle b.  The shapes after the commit      *)
(* point exclude the old bundle, those of a roll-back the new one.         *)
Agrees(d, b) ==
  IF d.marker = None
    THEN LiveReadable(d, b)
    ELSE LET m == d.marker
         IN  /\ Binds(m)
             /\ \/ Staged(d, m) /\ b.dek \in {m.pre.dek, m.post.dek}
                \/ Discarded(d, m) /\ b.dek = m.pre.dek /\ b # m.post
                \/ LogGone(d, m) /\ b.dek = m.post.dek /\ b # m.pre
                \/ Swapped(d, m) /\ b.dek = m.post.dek /\ b # m.pre

(* Any two states that a power loss may leave of the directories agree.    *)
DirsAgree ==
  /\ \A d \in exposed, v \in vexposed : Agrees(d, v.bundle)
  /\ \A v \in vexposed : v.bundle.rev < nonce

(* What a run knows at each of its steps. *)
Planning == {"mkdir", "stage", "publish", "published", "commit", "m_write"}
Rewriting == {"committed", "sidecar", "sidecar_written", "m_written", "m_sidecar", "m_done"}
Marking == {"published", "commit", "committed", "sidecar", "sidecar_written"}
Resuming == {"r_sidecar", "r_written", "r_act"}
Swapping == {"swap", "unlinked", "rename", "renamed"}
Cleaning == {"rb_unlinked", "rb_rmdir", "unstaged", "unmark"}
RunKnows(c) ==
  /\ pc[c] \in BundlePcs => job[c].pre \in Bundle /\ job[c].post \in Bundle
  /\ pc[c] \in Planning =>
       /\ job[c].pre = vault.bundle
       /\ job[c].pre.epoch <= job[c].post.epoch
       /\ job[c].post.rev < nonce /\ job[c].pre.rev # job[c].post.rev
  /\ pc[c] = "m_write" =>
       /\ job[c].post.dek = job[c].pre.dek
       /\ \A d \in exposed : d.marker # None =>
            job[c].post.rev \notin {d.marker.pre.rev, d.marker.post.rev}
  /\ pc[c] \in Rewriting => vault.bundle = job[c].post
  /\ pc[c] \in {"mkdir", "stage", "publish"} => dir.marker = None
  /\ pc[c] = "stage" => dir.staging
  /\ pc[c] = "publish" =>
       job[c] \in Marker /\ Binds(job[c]) /\ Staged(dir, job[c])
  /\ pc[c] \in Marking => job[c] \in Marker /\ dir.marker = job[c] /\ Staged(dir, job[c])
  /\ pc[c] \in {"commit", "committed", "sidecar", "sidecar_written"} => exposed = {dir}
  /\ pc[c] \in {"sidecar", "sidecar_written"} => \A v \in vexposed : v.bundle = job[c].post
  /\ pc[c] \in Resuming =>
       /\ job[c] \in Marker /\ dir.marker = job[c]
       /\ vault.bundle \in {job[c].pre, job[c].post}
  /\ pc[c] = "r_act" => vexposed = {vault}
  /\ pc[c] \in Swapping =>
       /\ job[c] \in Marker /\ dir.marker = job[c]
       /\ \A v \in vexposed : v.bundle = job[c].post
  /\ pc[c] \in {"unlinked", "rename"} => LogGone(dir, job[c])
  /\ pc[c] = "rename" => exposed = {dir}
  /\ pc[c] = "renamed" => Swapped(dir, job[c])
  /\ pc[c] = "finish" => job[c] \in Marker /\ dir.marker = job[c]
  /\ pc[c] \in Cleaning => job[c] \in Marker /\ dir.marker = job[c] /\ dir.cand = None
  /\ pc[c] \in {"unstaged", "unmark", "unmarked"} => ~dir.staging /\ dir.cand = None
  /\ pc[c] = "unmark" => exposed = {dir}
  /\ pc[c] = "unmarked" => \A d \in exposed : ~d.staging /\ d.cand = None

AgentKnows(a) ==
  agent[a].st = "serving" => dir.marker = None /\ dir.db.dek = agent[a].dek

(* The inductive invariant: every safety property above follows from it.   *)
IndInv ==
  /\ TypeOK
  /\ LocksExclude
  /\ DirsAgree
  /\ SidecarNotAhead
  /\ \A c \in Clis : RunKnows(c)
  /\ \A a \in Agents : AgentKnows(a)
=============================================================================

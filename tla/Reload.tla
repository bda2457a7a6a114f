------------------------------- MODULE Reload -------------------------------
(* Hot reload of the serving generation.  A SIGHUP task and admin Reload   *)
(* RPCs each read the bootstrap, the catalog and the policy it names,      *)
(* validate the result against the serving generation, and swap it in.     *)
(* Files are edited at any moment.                                         *)
(*                                                                         *)
(* A file's stamp is its fingerprint (device, inode, length, mtime,        *)
(* ctime): every edit gives a stamp the file has never had.                *)
EXTENDS Integers

CONSTANTS
  Hup,            \* the SIGHUP task
  Rpcs,           \* admin Reload RPCs
  Cancellable,    \* the RPCs whose client may go away
  Cfg,            \* path of the bootstrap
  Docs,           \* paths of catalogs and policies
  Contents,       \* Contents[p]: what a file may hold
  Original,       \* the files at startup
  Loadable,       \* pairs of a catalog and a policy that pass load()
  MaxEdits,       \* bound on edits
  MaxTriggers,    \* bound on signals and RPCs
  None            \* no holder, no value, no key

Paths == {Cfg} \cup Docs
Jobs == Rpcs \cup {Hup}
Bootstraps == Contents[Cfg]
Values == UNION {Contents[p] : p \in Paths}
File == [val : Values, stamp : Nat]
(* A catalog is what reloads compare: the routing shape, the name of its   *)
(* nixCache identity (None without one) and the enrolled public key (None  *)
(* while pending).                                                         *)
ASSUME ConstantsOK ==
  /\ Hup \notin Rpcs /\ Cancellable \subseteq Rpcs /\ Cfg \notin Docs
  /\ None \notin Jobs \cup Values \cup Nat \cup File \cup [Paths -> File]
  /\ \A b \in Bootstraps : b.catalog \in Docs /\ b.policy \in Docs
  /\ Original \in [Paths -> Values]
  /\ \A p \in Paths : Original[p] \in Contents[p]
  /\ <<Original[Original[Cfg].catalog], Original[Original[Cfg].policy]>>
       \in Loadable
  /\ \A pair \in Loadable : pair[1].key # None => pair[1].name # None
  /\ MaxEdits \in Nat /\ MaxTriggers \in Nat

VARIABLES
  disk,      \* the files: content and stamp
  edits,     \* edits so far, the source of stamps
  serving,   \* the ArcSwap'd Generation
  tombs,     \* nix_cache_enrolled_tombstones
  lock,      \* live_reload_lock: its holder, or None
  job,       \* the reload attempts
  pending,   \* a SIGHUP that the task has not received
  active,    \* a transport is open on the listeners a bootstrap configures
  triggers,  \* signals and RPCs so far
  owed,      \* history: a SIGHUP sent since the last edit awaits its reload
  audited    \* history: generations with an "applied" audit record

files == <<disk, edits>>
reload == <<lock, job>>
vars == <<disk, edits, serving, tombs, lock, job, pending, active, triggers,
          owed, audited>>

NoRead == [p \in Paths |-> None]
Generation == [id : Nat, boot : Values, catalog : Values, policy : Values,
               at : [Paths -> File]]
Stages == {"idle", "waiting", "fingerprint", "read", "verify",
           "compare", "recheck", "install", "retire", "record", "refresh"}
(* One attempt: the documents of the phase it is in and those of the phase *)
(* still to visit, the fingerprints it holds, what it has read, the        *)
(* generation it compared with, and as history the files at the moment     *)
(* its last fingerprint was taken, and whether it began after the last     *)
(* signal.                                                                 *)
Job == [pc : Stages, phase : {"bootstrap", "documents", "final"},
        todo : SUBSET Paths, print : [Paths -> Nat \cup {None}],
        read : [Paths -> File \cup {None}], base : Nat,
        at : [Paths -> File] \cup {None}, fresh : BOOLEAN]
IdleJob == [pc |-> "idle", phase |-> "bootstrap", todo |-> {},
            print |-> NoRead, read |-> NoRead, base |-> 0, at |-> None,
            fresh |-> FALSE]
At(j, pc) == job[j].pc = pc
Boot(j) == job[j].read[Cfg].val
Named(b) == {b.catalog, b.policy}
Catalog(j) == job[j].read[Boot(j).catalog].val
Policy(j) == job[j].read[Boot(j).policy].val

-----------------------------------------------------------------------------
(* Triggers. *)

(* An editor or a deployment replaces or rewrites one file. *)
Edit ==
  /\ edits < MaxEdits
  /\ edits' = edits + 1
  /\ \E p \in Paths : \E v \in Contents[p] :
       disk' = [disk EXCEPT ![p] = [val |-> v, stamp |-> edits + 1]]
  /\ owed' = FALSE
  /\ UNCHANGED <<serving, tombs, reload, pending, active, triggers, audited>>

(* kill -HUP.  Signals sent before the task comes back for one coalesce. *)
Signal ==
  /\ triggers < MaxTriggers
  /\ triggers' = triggers + 1
  /\ pending' = TRUE
  /\ owed' = TRUE
  /\ job' = [job EXCEPT ![Hup].fresh = FALSE]
  /\ UNCHANGED <<files, serving, tombs, lock, active, audited>>

(* hangup.recv() returns and handle_sighup_reload begins. *)
Receive ==
  /\ At(Hup, "idle") /\ pending
  /\ pending' = FALSE
  /\ job' = [job EXCEPT ![Hup].pc = "waiting", ![Hup].fresh = TRUE]
  /\ UNCHANGED <<files, serving, tombs, lock, active, triggers, owed,
                 audited>>

(* An authorized Reload RPC. *)
Call(j) ==
  /\ At(j, "idle")
  /\ triggers < MaxTriggers
  /\ triggers' = triggers + 1
  /\ job' = [job EXCEPT ![j].pc = "waiting"]
  /\ UNCHANGED <<files, serving, tombs, lock, pending, active, owed,
                 audited>>

(* Clients connect to and leave the configured listeners. *)
Connections ==
  /\ active' = ~active
  /\ UNCHANGED <<files, serving, tombs, reload, pending, triggers, owed,
                 audited>>

-----------------------------------------------------------------------------
(* One attempt, in the order of reload_generation_live. *)

Set(j, fields) == job' = [job EXCEPT ![j] = fields]
Quiet == UNCHANGED <<files, serving, tombs, pending, active, triggers,
                     audited>>
(* A SIGHUP is answered when the attempt that began after it has ended,    *)
(* and, if that attempt swapped a generation, the generation holds what is *)
(* on disk.                                                                *)
Answers(j, gen) ==
  j = Hup /\ job[Hup].fresh /\ \A p \in {Cfg} \cup Named(gen.boot) :
                                  gen.at[p] = disk[p]

Acquire(j) ==
  /\ At(j, "waiting") /\ lock = None
  /\ lock' = j
  /\ Set(j, [job[j] EXCEPT !.pc = "fingerprint", !.todo = {Cfg}])
  /\ UNCHANGED owed /\ Quiet

(* ReloadFingerprintSnapshot::capture and extend, a file at a time. *)
Fingerprint(j) ==
  /\ At(j, "fingerprint")
  /\ \E p \in job[j].todo :
       LET left == job[j].todo \ {p}
           done == [job[j] EXCEPT !.print[p] = disk[p].stamp, !.at = disk]
       IN Set(j, IF left # {} THEN [done EXCEPT !.todo = left]
                 ELSE [done EXCEPT !.pc = "read",
                         !.todo = IF job[j].phase = "bootstrap" THEN {Cfg}
                                  ELSE Named(Boot(j))])
  /\ UNCHANGED <<lock, owed>> /\ Quiet

(* The bootstrap is read and parsed alone; the documents it names after    *)
(* it, in any order, and load() validates the pair.                        *)
Loads(read) ==
  <<read[read[Cfg].val.catalog].val, read[read[Cfg].val.policy].val>>
    \in Loadable
Read(j) ==
  /\ At(j, "read")
  /\ \E p \in job[j].todo :
       LET left == job[j].todo \ {p}
           done == [job[j] EXCEPT !.read[p] = disk[p], !.todo = left]
       IN IF left # {} THEN Set(j, done)
          ELSE /\ job[j].phase = "documents" => Loads(done.read)
               /\ Set(j, [done EXCEPT !.pc = "verify",
                    !.todo = {q \in Paths : job[j].print[q] # None}])
  /\ UNCHANGED <<lock, owed>> /\ Quiet

(* What follows a verification that found every file unchanged. *)
Verified(j) ==
  CASE job[j].phase = "bootstrap" ->
         [job[j] EXCEPT !.pc = "fingerprint", !.phase = "documents",
                        !.todo = Named(Boot(j))]
    [] job[j].phase = "documents" ->
         [job[j] EXCEPT !.pc = "compare", !.phase = "final", !.todo = {}]
    [] job[j].phase = "final" -> [job[j] EXCEPT !.pc = "recheck", !.todo = {}]

(* Faulty form of Verify: it looks at the bootstrap only. *)
Verify_Bootstrap(j) ==
  /\ At(j, "verify")
  /\ disk[Cfg].stamp = job[j].print[Cfg]
  /\ Set(j, Verified(j))
  /\ UNCHANGED <<lock, owed>> /\ Quiet

(* verify_unchanged, a file at a time. *)
Verify(j) ==
  /\ At(j, "verify")
  /\ \E p \in job[j].todo :
       /\ disk[p].stamp = job[j].print[p]
       /\ Set(j, IF job[j].todo = {p} THEN Verified(j)
                 ELSE [job[j] EXCEPT !.todo = @ \ {p}])
  /\ UNCHANGED <<lock, owed>> /\ Quiet

(* Every attempt that fails ends like this: the lock is dropped, the       *)
(* rejection is recorded and nothing else has changed.                     *)
Drop(j) ==
  /\ lock' = None
  /\ Set(j, IdleJob)

(* Faulty form of Refused: the SIGHUP task clears the signal when its      *)
(* reload has failed, and with it one that came in meanwhile.              *)
Refused_ClearsSignal(j) ==
  /\ Drop(j)
  /\ owed' = (owed /\ ~(j = Hup /\ job[Hup].fresh))
  /\ pending' = IF j = Hup THEN FALSE ELSE pending
  /\ UNCHANGED <<files, serving, tombs, active, triggers, audited>>

Refused(j) ==
  /\ Drop(j)
  /\ owed' = (owed /\ ~(j = Hup /\ job[Hup].fresh))
  /\ Quiet

(* An input cannot be read, does not parse, or is not what was             *)
(* fingerprinted: TornSnapshot.                                            *)
Torn(j) == \E p \in job[j].todo : disk[p].stamp # job[j].print[p]
Fail(j) ==
  /\ At(j, "fingerprint") \/ At(j, "read") \/ (At(j, "verify") /\ Torn(j))
  /\ Refused(j)

-----------------------------------------------------------------------------
(* Validation against the serving generation, and the swap. *)

(* ensure_reloadable *)
SameShape(old, new) == old.shape = new.shape
(* Faulty form of NixCacheReloadable: the keys are not compared.           *)
NixCacheReloadable_AnyKey(old, new) ==
  /\ new.name = old.name
  /\ old.key # None \/ new.name \in tombs => new.key # None

(* ensure_nix_cache_reloadable: pending may become enrolled, once; a name  *)
(* with a tombstone must be enrolled now, with the same key.               *)
NixCacheReloadable(old, new) ==
  /\ new.name = old.name
  /\ old.key # None => new.key = old.key
  /\ new.name \in tombs => old.key # None /\ new.key = old.key
(* assess_transition and require_zero_active *)
Blocked(boot) == boot.listeners # serving.boot.listeners /\ active

(* One generation is pinned for all the comparisons. *)
Compare(j) ==
  /\ At(j, "compare")
  /\ SameShape(serving.catalog, Catalog(j))
  /\ NixCacheReloadable(serving.catalog, Catalog(j))
  /\ ~Blocked(Boot(j))
  /\ Set(j, [job[j] EXCEPT !.pc = "verify", !.base = serving.id,
       !.todo = {q \in Paths : job[j].print[q] # None}])
  /\ UNCHANGED <<lock, owed>> /\ Quiet

Reject(j) ==
  /\ At(j, "compare")
  /\ \/ ~SameShape(serving.catalog, Catalog(j))
     \/ ~NixCacheReloadable(serving.catalog, Catalog(j))
     \/ Blocked(Boot(j))
  /\ Refused(j)

(* record_nix_cache_enrollments *)
Enrolled(catalog) == IF catalog.key = None THEN {} ELSE {catalog.name}

(* The transition that carries the swap.  begin_transition counts the      *)
(* transports again behind the admission gate; the swap, the tombstones    *)
(* and the events happen inside the commit of its guard.                   *)
Candidate(j) ==
  [id |-> job[j].base + 1, boot |-> Boot(j), catalog |-> Catalog(j),
   policy |-> Policy(j), at |-> job[j].at]

Recheck(j) ==
  /\ At(j, "recheck")
  /\ serving.id = job[j].base
  /\ Set(j, [job[j] EXCEPT !.pc = "install"])
  /\ UNCHANGED <<lock, owed>> /\ Quiet

Install(j) ==
  /\ At(j, "install")
  /\ ~Blocked(Boot(j))
  /\ serving' = Candidate(j)
  /\ tombs' = tombs \cup Enrolled(Catalog(j))
  /\ owed' = (owed /\ ~Answers(j, serving'))
  /\ Set(j, [job[j] EXCEPT !.pc =
       IF Boot(j).listeners = serving.boot.listeners THEN "record" ELSE "retire"])
  /\ lock' = IF Boot(j).listeners = serving.boot.listeners THEN None ELSE lock
  /\ UNCHANGED <<files, pending, active, triggers, audited>>

(* The generation has moved, a transport came in, federation trust did not *)
(* revalidate, or a socket could not be published.                         *)
InstallFails(j) ==
  /\ \/ At(j, "recheck") /\ serving.id # job[j].base
     \/ At(j, "install")
  /\ Refused(j)

(* Replaced and removed listeners are stopped, under the lock. *)
Retire(j) ==
  /\ At(j, "retire")
  /\ lock' = None
  /\ Set(j, [job[j] EXCEPT !.pc = "record"])
  /\ UNCHANGED owed /\ Quiet

(* record_reload *)
Record(j) ==
  /\ At(j, "record")
  /\ audited' = audited \cup {job[j].base + 1}
  /\ Set(j, [job[j] EXCEPT !.pc = "refresh"])
  /\ UNCHANGED <<files, serving, tombs, lock, pending, active, triggers,
                 owed>>

(* The deny-list is read again, without the lock, and well or not the      *)
(* attempt is over.  The SIGHUP task waits for the backend here before     *)
(* it looks at the next signal; what the list becomes is in Revocation.    *)
Refresh(j) ==
  /\ At(j, "refresh")
  /\ Set(j, IdleJob)
  /\ UNCHANGED <<lock, owed>> /\ Quiet

(* The client of an RPC goes away while the handler waits for the lock,    *)
(* for the listeners to stop or for the backend, and the handler is        *)
(* dropped there.                                                          *)
Cancel(j) ==
  /\ j \in Cancellable
  /\ At(j, "waiting") \/ At(j, "retire") \/ At(j, "refresh")
  /\ lock' = IF lock = j THEN None ELSE lock
  /\ Set(j, IdleJob)
  /\ UNCHANGED owed /\ Quiet

-----------------------------------------------------------------------------
Init ==
  /\ disk = [p \in Paths |-> [val |-> Original[p], stamp |-> 0]]
  /\ edits = 0
  /\ serving = [id |-> 1, boot |-> Original[Cfg],
                catalog |-> Original[Original[Cfg].catalog],
                policy |-> Original[Original[Cfg].policy], at |-> disk]
  /\ tombs = Enrolled(serving.catalog)
  /\ lock = None /\ job = [j \in Jobs |-> IdleJob]
  /\ pending = FALSE /\ active = FALSE /\ triggers = 0
  /\ owed = FALSE /\ audited = {1}

Advance(j) ==
  \/ Fingerprint(j) \/ Read(j) \/ Verify(j) \/ Fail(j) \/ Compare(j)
  \/ Reject(j) \/ Recheck(j) \/ Install(j) \/ InstallFails(j) \/ Retire(j) \/ Record(j)
  \/ Refresh(j)
Next ==
  \/ Edit \/ Signal \/ Receive \/ Connections
  \/ \E j \in Rpcs : Call(j) \/ Cancel(j)
  \/ \E j \in Jobs : Acquire(j) \/ Advance(j)

Spec == Init /\ [][Next]_vars

(* The tokio scheduler runs every attempt on, and its mutex is first come, *)
(* first served.                                                           *)
Fairness ==
  /\ WF_vars(Receive)
  /\ \A j \in Jobs : WF_vars(Advance(j)) /\ SF_vars(Acquire(j))
FairSpec == Spec /\ Fairness

-----------------------------------------------------------------------------
(* Properties. *)

(* Type correctness of the files, the generations and the attempts. *)
TypeOK ==
  /\ disk \in [Paths -> File] /\ edits \in Nat
  /\ serving \in Generation
  /\ None \notin tombs
  /\ lock \in Jobs \cup {None}
  /\ job \in [Jobs -> Job]
  /\ pending \in BOOLEAN /\ active \in BOOLEAN /\ owed \in BOOLEAN
  /\ triggers \in Nat

(* The serving bootstrap, catalog and policy were on disk together at one  *)
(* instant: no generation mixes two deployments, whatever the editor did   *)
(* between the fingerprints and the reads.                                 *)
PointInTime ==
  LET at(p) == serving.at[p].val IN
  /\ serving.boot = at(Cfg)
  /\ serving.catalog = at(serving.boot.catalog)
  /\ serving.policy = at(serving.boot.policy)

(* What serves passed load() as a pair and still has the routing shape the *)
(* backend manager was built from at startup.                              *)
ServingValid ==
  /\ <<serving.catalog, serving.policy>> \in Loadable
  /\ serving.catalog.shape = Original[Original[Cfg].catalog].shape

(* What serves is one deployment that passed validation, whatever was edited *)
(* while it was read (validate_candidate).                                 *)
GenerationSound == TypeOK /\ PointInTime /\ ServingValid

(* Generation ids grow by one, and a swap never puts an older state of the *)
(* files over a newer one, however the triggers overlap.                   *)
NoLostUpdate ==
  [][serving' # serving =>
       /\ serving'.id = serving.id + 1
       /\ \A p \in Paths : serving'.at[p].stamp >= serving.at[p].stamp]_vars

(* For the life of the process an enrolled nixCache key is never replaced  *)
(* or withdrawn, through any chain of reloads.                             *)
EnrolledForever ==
  [][serving.catalog.key # None =>
       /\ serving'.catalog.key = serving.catalog.key
       /\ serving'.catalog.name = serving.catalog.name]_vars

(* No swap goes back: not to older files, and not behind an enrolment.     *)
SwapsForward == NoLostUpdate /\ EnrolledForever

(* Every generation change is audited: each id up to the serving one has   *)
(* an "applied" record, or an attempt that has yet to write it.            *)
AuditComplete ==
  \A i \in 1..serving.id :
    \/ i \in audited
    \/ \E j \in Jobs : job[j].pc \in {"retire", "record"} /\ job[j].base + 1 = i

(* A SIGHUP sent after an edit is answered: an attempt that began after it *)
(* ends, in a rejection or with what is on disk serving.                   *)
SignalHonoured == owed ~> ~owed
=============================================================================

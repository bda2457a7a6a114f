---------------------------- MODULE ReloadProofs ----------------------------
(***************************************************************************)
(* Hot reload, for any number of admin RPCs, any bootstraps, catalogs and  *)
(* policies, and any number of edits and triggers.                         *)
(***************************************************************************)
EXTENDS Reload, TLAPS

-----------------------------------------------------------------------------
(* The inductive invariant.  Its parts are about one attempt x, the files  *)
(* d on disk, the serving generation s and the tombstones t.               *)

Building == {"fingerprint", "read", "verify", "compare", "recheck", "install"}
Held == Building \cup {"retire"}
Printed(x) == {p \in Paths : x.print[p] # None}
Taken(x) == {p \in Paths : x.read[p] # None}
BootOf(x) == x.read[Cfg].val
CatalogOf(x) == x.read[BootOf(x).catalog].val
Need(x) == {Cfg} \cup Named(BootOf(x))

(* A file f seen earlier at a path where g is now: stamps only grow, and   *)
(* the same stamp is the same file.                                        *)
Before(f, g) == f.stamp <= g.stamp /\ (f.stamp = g.stamp => f = g)

(* What was read was read after its fingerprint was taken, and what is on  *)
(* disk is not older than either.                                          *)
FilesOK(x, d) ==
  /\ \A p \in Paths : x.read[p] # None =>
       x.print[p] # None /\ x.print[p] <= x.read[p].stamp /\ Before(x.read[p], d[p])
  /\ \A p \in Paths : x.at # None =>
       /\ Before(x.at[p], d[p])
       /\ x.print[p] # None => x.print[p] <= x.at[p].stamp
       /\ x.read[p] # None /\ x.read[p].stamp = x.at[p].stamp => x.read[p] = x.at[p]
  /\ x.read[Cfg] # None => BootOf(x) \in Bootstraps
  /\ x.at = None => Printed(x) = {}

(* How far an attempt is in the order of reload_generation_live. *)
StageOK(x) ==
  /\ x.pc \in {"idle", "waiting"} => x.phase = "bootstrap" /\ x.at = None
  /\ x.phase = "bootstrap" => x.pc \in {"idle", "waiting", "fingerprint", "read", "verify"}
  /\ x.phase = "bootstrap" /\ x.pc \in {"idle", "waiting", "fingerprint"} =>
       Printed(x) = {} /\ Taken(x) = {}
  /\ x.phase = "bootstrap" /\ x.pc \in {"fingerprint", "read", "verify"} => x.todo = {Cfg}
  /\ x.phase = "bootstrap" /\ x.pc = "read" => Printed(x) = {Cfg} /\ Taken(x) = {}
  /\ x.phase = "bootstrap" /\ x.pc = "verify" => Printed(x) = {Cfg} /\ Taken(x) = {Cfg}
  /\ x.phase = "documents" => x.pc \in {"fingerprint", "read", "verify"}
  /\ x.phase = "documents" /\ x.pc = "fingerprint" =>
       x.todo \subseteq Named(BootOf(x)) /\ Taken(x) = {Cfg} /\ Printed(x) = Need(x) \ x.todo
  /\ x.phase = "documents" /\ x.pc = "read" =>
       /\ x.todo \subseteq Named(BootOf(x)) /\ Cfg \notin x.todo
       /\ Printed(x) = Need(x) /\ Taken(x) = Need(x) \ x.todo
  /\ x.phase = "documents" /\ x.pc = "verify" =>
       /\ Printed(x) = Need(x) /\ Taken(x) = Need(x) /\ Loads(x.read)
       /\ \A p \in Need(x) \ x.todo : x.read[p] = x.at[p]
  /\ x.phase = "final" =>
       /\ x.pc \in {"compare", "verify", "recheck", "install", "retire", "record", "refresh"}
       /\ Printed(x) = Need(x) /\ Taken(x) = Need(x) /\ Loads(x.read)
       /\ \A p \in Need(x) : x.read[p] = x.at[p]

(* ensure_nix_cache_reloadable, for the tombstones t. *)
Reloadable(old, new, t) ==
  /\ new.name = old.name
  /\ old.key # None => new.key = old.key
  /\ new.name \in t => old.key # None /\ new.key = old.key

(* While an attempt is under way its fingerprints are not older than what  *)
(* serves, and what serves is still what it compared with.                 *)
AgainstOK(x, s, t) ==
  /\ x.at # None /\ x.pc \in Building => \A p \in Paths : s.at[p].stamp <= x.at[p].stamp
  /\ x.pc \in {"recheck", "install"} \/ (x.pc = "verify" /\ x.phase = "final") =>
       s.id = x.base /\ SameShape(s.catalog, CatalogOf(x)) /\ Reloadable(s.catalog, CatalogOf(x), t)

JobOK(x, d, s, t) == x \in Job /\ FilesOK(x, d) /\ StageOK(x) /\ AgainstOK(x, s, t)
JobsOK == \A j \in Jobs : JobOK(job[j], disk, serving, tombs)

(* Only the holder of live_reload_lock builds a generation. *)
LockOK == \A j \in Jobs : job[j].pc \in Held => lock = j

DiskOK == disk[Cfg].val \in Bootstraps /\ \A p \in Paths : disk[p].stamp <= edits

ServingOK ==
  /\ PointInTime /\ ServingValid /\ serving.boot \in Bootstraps
  /\ \A p \in Paths : serving.at[p].stamp <= disk[p].stamp

ReloadInv == TypeOK /\ JobsOK /\ LockOK /\ DiskOK /\ ServingOK

-----------------------------------------------------------------------------
ScalarsOK == pending \in BOOLEAN /\ active \in BOOLEAN /\ owed \in BOOLEAN /\ triggers \in Nat

(* A step of one attempt that leaves the files and what serves alone, and  *)
(* the lock to its holder.                                                 *)
LEMMA StepOK ==
  ASSUME ReloadInv, NEW j \in Jobs, NEW v, JobOK(v, disk, serving, tombs),
         job' = [job EXCEPT ![j] = v], v.pc \in Held => lock' = j,
         UNCHANGED <<disk, edits, serving, tombs>>,
         lock' \in Jobs \cup {None}, lock \in {None, j} \/ lock' = lock, ScalarsOK'
  PROVE  ReloadInv'
<1>1. job'[j] = v /\ DOMAIN job' = Jobs /\ \A k \in Jobs : k # j => job'[k] = job[k]
  BY DEF ReloadInv, TypeOK
<1>2. JobsOK'
  BY <1>1 DEF ReloadInv, JobsOK
<1>3. TypeOK'
  <2>1. v \in Job
    BY DEF JobOK
  <2> QED
    BY <2>1 DEF ReloadInv, TypeOK, ScalarsOK
<1>4. LockOK'
  <2> SUFFICES ASSUME NEW k \in Jobs, job'[k].pc \in Held PROVE lock' = k
    BY DEF LockOK
  <2>1. CASE k = j
    BY <1>1, <2>1
  <2>2. CASE k # j
    <3>1. lock = k /\ k # None
      BY <1>1, <2>2, ConstantsOK DEF ReloadInv, LockOK
    <3> QED
      BY <2>2, <3>1
  <2> QED
    BY <2>1, <2>2
<1>5. DiskOK' /\ ServingOK'
  BY DEF ReloadInv, DiskOK, ServingOK, PointInTime, ServingValid
<1> QED
  BY <1>2, <1>3, <1>4, <1>5 DEF ReloadInv

LEMMA IdleOK == JobOK(IdleJob, disk, serving, tombs)
<1>1. IdleJob \in Job
  BY DEF IdleJob, Job, NoRead, Stages
<1>2. FilesOK(IdleJob, disk) /\ StageOK(IdleJob) /\ AgainstOK(IdleJob, serving, tombs)
  BY DEF IdleJob, NoRead, FilesOK, StageOK, AgainstOK, Printed, Taken, Building, Paths
<1> QED
  BY <1>1, <1>2 DEF JobOK

(* An attempt that holds what another one held. *)
SameFiles(x, v) == v.print = x.print /\ v.read = x.read /\ v.at = x.at
LEMMA SameFilesOK ==
  ASSUME NEW x, NEW v, SameFiles(x, v), NEW d, FilesOK(x, d)
  PROVE  /\ FilesOK(v, d)
         /\ Printed(v) = Printed(x) /\ Taken(v) = Taken(x) /\ BootOf(v) = BootOf(x)
         /\ CatalogOf(v) = CatalogOf(x) /\ Need(v) = Need(x)
  BY DEF SameFiles, FilesOK, Printed, Taken, BootOf, CatalogOf, Need

LEMMA JobFacts ==
  ASSUME ReloadInv, NEW j \in Jobs
  PROVE  /\ job[j] \in Job /\ FilesOK(job[j], disk) /\ StageOK(job[j])
         /\ AgainstOK(job[j], serving, tombs)
         /\ job[j].pc \in Held => lock = j
         /\ lock \in Jobs \cup {None} /\ ScalarsOK
         /\ j # None
  BY ConstantsOK DEF ReloadInv, JobsOK, JobOK, LockOK, TypeOK, ScalarsOK

-----------------------------------------------------------------------------
(* Triggers. *)

LEMMA SignalInv ==
  ASSUME ReloadInv, Signal PROVE ReloadInv'
<1> DEFINE x == job[Hup]
           v == [x EXCEPT !.fresh = FALSE]
<1>0. Hup \in Jobs
  BY DEF Jobs
<1>1. /\ x \in Job /\ FilesOK(x, disk) /\ StageOK(x) /\ AgainstOK(x, serving, tombs)
      /\ x.pc \in Held => lock = Hup
      /\ lock \in Jobs \cup {None} /\ ScalarsOK
  BY <1>0, JobFacts
<1>2. v \in Job /\ SameFiles(x, v) /\ v.pc = x.pc /\ v.phase = x.phase /\ v.todo = x.todo /\ v.base = x.base
  BY <1>1 DEF Job, SameFiles
<1> HIDE DEF v
<1>3. JobOK(v, disk, serving, tombs)
  <2>1. FilesOK(v, disk) /\ Printed(v) = Printed(x) /\ Taken(v) = Taken(x) /\ BootOf(v) = BootOf(x)
        /\ CatalogOf(v) = CatalogOf(x) /\ Need(v) = Need(x)
    BY <1>1, <1>2, SameFilesOK
  <2>2. StageOK(v)
    BY <1>1, <1>2, <2>1 DEF StageOK, SameFiles
  <2>3. AgainstOK(v, serving, tombs)
    BY <1>1, <1>2, <2>1 DEF AgainstOK, SameFiles
  <2> QED
    BY <1>2, <2>1, <2>2, <2>3 DEF JobOK
<1>4. ScalarsOK'
  BY <1>1 DEF Signal, ScalarsOK
<1>5. job' = [job EXCEPT ![Hup] = v] /\ UNCHANGED <<disk, edits, serving, tombs, lock>>
  BY DEF Signal, files, v
<1> QED
  BY <1>0, <1>1, <1>2, <1>3, <1>4, <1>5, StepOK

(* A reload begins to wait for the lock. *)
LEMMA WaitsOK ==
  ASSUME ReloadInv, NEW j \in Jobs, At(j, "idle"), NEW v \in Job, SameFiles(job[j], v),
         v.phase = job[j].phase, v.pc = "waiting"
  PROVE  JobOK(v, disk, serving, tombs)
<1> DEFINE x == job[j]
<1>1. FilesOK(x, disk) /\ StageOK(x) /\ x.pc = "idle"
  BY JobFacts DEF At
<1>2. FilesOK(v, disk) /\ Printed(v) = Printed(x) /\ Taken(v) = Taken(x)
  BY <1>1, SameFilesOK
<1>3. StageOK(v)
  BY <1>1, <1>2 DEF StageOK, SameFiles
<1>4. AgainstOK(v, serving, tombs)
  BY DEF AgainstOK, Building
<1> QED
  BY <1>2, <1>3, <1>4 DEF JobOK

LEMMA ReceiveInv ==
  ASSUME ReloadInv, Receive PROVE ReloadInv'
<1> DEFINE x == job[Hup]
           v == [x EXCEPT !.pc = "waiting", !.fresh = TRUE]
<1>0. Hup \in Jobs
  BY DEF Jobs
<1>1. x \in Job /\ lock \in Jobs \cup {None} /\ ScalarsOK
  BY <1>0, JobFacts
<1>2. v \in Job /\ SameFiles(x, v) /\ v.pc = "waiting" /\ v.phase = x.phase
  BY <1>1 DEF Job, SameFiles, Stages
<1>3. ScalarsOK' /\ job' = [job EXCEPT ![Hup] = v] /\ UNCHANGED <<disk, edits, serving, tombs, lock>>
  BY <1>0, <1>1 DEF Receive, ScalarsOK, files, ReloadInv, TypeOK
<1> HIDE DEF v
<1>4. JobOK(v, disk, serving, tombs)
  BY <1>0, <1>2, WaitsOK DEF Receive
<1> QED
  BY <1>0, <1>1, <1>2, <1>3, <1>4, StepOK DEF Held, Building

LEMMA CallInv ==
  ASSUME ReloadInv, NEW j \in Rpcs, Call(j) PROVE ReloadInv'
<1> DEFINE x == job[j]
           v == [x EXCEPT !.pc = "waiting"]
<1>0. j \in Jobs
  BY DEF Jobs
<1>1. x \in Job /\ lock \in Jobs \cup {None} /\ ScalarsOK
  BY <1>0, JobFacts
<1>2. v \in Job /\ SameFiles(x, v) /\ v.pc = "waiting" /\ v.phase = x.phase
  BY <1>1 DEF Job, SameFiles, Stages
<1>3. ScalarsOK' /\ job' = [job EXCEPT ![j] = v] /\ UNCHANGED <<disk, edits, serving, tombs, lock>>
  BY <1>0, <1>1 DEF Call, ScalarsOK, files, ReloadInv, TypeOK
<1> HIDE DEF v
<1>4. JobOK(v, disk, serving, tombs)
  BY <1>0, <1>2, WaitsOK DEF Call
<1> QED
  BY <1>0, <1>1, <1>2, <1>3, <1>4, StepOK DEF Held, Building

LEMMA ConnectionsInv ==
  ASSUME ReloadInv, Connections PROVE ReloadInv'
  BY DEF Connections, ReloadInv, TypeOK, JobsOK, LockOK, DiskOK, ServingOK, PointInTime, ServingValid,
         files, reload

LEMMA EditInv ==
  ASSUME ReloadInv, Edit PROVE ReloadInv'
<1> PICK p \in Paths : \E c \in Contents[p] : disk' = [disk EXCEPT ![p] = [val |-> c, stamp |-> edits + 1]]
  BY DEF Edit
<1> PICK c \in Contents[p] : disk' = [disk EXCEPT ![p] = [val |-> c, stamp |-> edits + 1]]
  OBVIOUS
<1>0. /\ edits' = edits + 1 /\ UNCHANGED <<serving, tombs, lock, job, pending, active, triggers>>
      /\ owed' = FALSE
  BY DEF Edit, reload
<1>1. disk \in [Paths -> File] /\ edits \in Nat /\ c \in Values
  BY DEF ReloadInv, TypeOK, Values
<1>2. /\ disk' \in [Paths -> File] /\ disk'[p].stamp = edits + 1 /\ disk'[p].val = c
      /\ \A q \in Paths : q # p => disk'[q] = disk[q]
  BY <1>1 DEF File
<1>3. TypeOK'
  <2>1. pending' \in BOOLEAN /\ active' \in BOOLEAN /\ owed' \in BOOLEAN /\ triggers' \in Nat
    BY <1>0 DEF ReloadInv, TypeOK
  <2>2. edits' \in Nat
    BY <1>0, <1>1
  <2>3. serving' \in Generation /\ None \notin tombs' /\ lock' \in Jobs \cup {None} /\ job' \in [Jobs -> Job]
    BY <1>0 DEF ReloadInv, TypeOK
  <2> QED
    BY <1>2, <2>1, <2>2, <2>3 DEF TypeOK
<1>4. DiskOK'
  <2>1. \A q \in Paths : disk[q].stamp \in Nat /\ disk[q].stamp <= edits
    BY <1>1 DEF File, ReloadInv, DiskOK
  <2>2. \A q \in Paths : disk'[q].stamp <= edits'
    BY <1>0, <1>1, <1>2, <2>1
  <2>3. disk'[Cfg].val \in Bootstraps
    BY <1>2 DEF ReloadInv, DiskOK, Bootstraps, Paths
  <2> QED
    BY <2>2, <2>3 DEF DiskOK
<1>5. \A q \in Paths, f \in File : f.stamp <= disk[q].stamp => f.stamp <= disk'[q].stamp
  <2>1. \A q \in Paths : disk[q].stamp \in Nat /\ disk[q].stamp <= edits
    BY <1>1 DEF File, ReloadInv, DiskOK
  <2> QED
    BY <1>1, <1>2, <2>1 DEF File
<1>6. \A q \in Paths, f \in File : Before(f, disk[q]) => Before(f, disk'[q])
  <2>1. \A q \in Paths : disk[q].stamp \in Nat /\ disk[q].stamp <= edits
    BY <1>1 DEF File, ReloadInv, DiskOK
  <2> QED
    BY <1>1, <1>2, <2>1 DEF File, Before
<1>7. ServingOK'
  <2>1. \A q \in Paths : serving.at[q] \in File
    BY DEF ReloadInv, TypeOK, Generation
  <2> QED
    BY <1>0, <1>5, <2>1 DEF ReloadInv, ServingOK, PointInTime, ServingValid
<1>8. JobsOK'
  <2> SUFFICES ASSUME NEW j \in Jobs PROVE JobOK(job[j], disk', serving, tombs)
    BY <1>0 DEF JobsOK
  <2>1. JobOK(job[j], disk, serving, tombs)
    BY DEF ReloadInv, JobsOK
  <2>2. /\ \A q \in Paths : job[j].read[q] # None => job[j].read[q] \in File
        /\ \A q \in Paths : job[j].at # None => job[j].at[q] \in File
    BY <2>1 DEF JobOK, Job
  <2>3. FilesOK(job[j], disk')
    BY <1>6, <2>1, <2>2 DEF JobOK, FilesOK
  <2> QED
    BY <2>1, <2>3 DEF JobOK
<1> QED
  BY <1>0, <1>3, <1>4, <1>7, <1>8 DEF ReloadInv, LockOK

-----------------------------------------------------------------------------
(* One attempt. *)

LEMMA BootFacts ==
  ASSUME NEW x, NEW d, FilesOK(x, d), x.read[Cfg] # None
  PROVE  /\ BootOf(x) \in Bootstraps /\ Named(BootOf(x)) \subseteq Docs /\ Cfg \notin Named(BootOf(x))
         /\ Need(x) \subseteq Paths /\ BootOf(x).catalog \in Need(x) /\ BootOf(x).policy \in Need(x)
  BY ConstantsOK DEF FilesOK, Named, Need, Paths

LEMMA AcquireInv ==
  ASSUME ReloadInv, NEW j \in Jobs, Acquire(j) PROVE ReloadInv'
<1> DEFINE x == job[j]
           v == [x EXCEPT !.pc = "fingerprint", !.todo = {Cfg}]
<1>1. x \in Job /\ FilesOK(x, disk) /\ StageOK(x) /\ ScalarsOK /\ x.pc = "waiting" /\ lock = None
  BY JobFacts DEF Acquire, At
<1>2. v \in Job /\ SameFiles(x, v) /\ v.pc = "fingerprint" /\ v.phase = x.phase /\ v.todo = {Cfg}
  BY <1>1 DEF Job, SameFiles, Stages, Paths
<1>3. ScalarsOK' /\ job' = [job EXCEPT ![j] = v] /\ UNCHANGED <<disk, edits, serving, tombs>> /\ lock' = j
  BY <1>1 DEF Acquire, Quiet, Set, ScalarsOK, files
<1> HIDE DEF v
<1>4. JobOK(v, disk, serving, tombs)
  <2>1. FilesOK(v, disk) /\ Printed(v) = Printed(x) /\ Taken(v) = Taken(x)
    BY <1>1, <1>2, SameFilesOK
  <2>2. StageOK(v)
    BY <1>1, <1>2, <2>1 DEF StageOK
  <2>3. AgainstOK(v, serving, tombs)
    BY <1>1, <1>2 DEF AgainstOK, StageOK, SameFiles
  <2> QED
    BY <1>2, <2>1, <2>2, <2>3 DEF JobOK
<1> QED
  BY <1>1, <1>2, <1>3, <1>4, StepOK

(* A fingerprint is taken of a file that has not been read. *)
LEMMA FingerprintFiles ==
  ASSUME ReloadInv, NEW j \in Jobs, At(j, "fingerprint"), NEW p \in job[j].todo,
         NEW v, v.print = [job[j].print EXCEPT ![p] = disk[p].stamp], v.at = disk, v.read = job[j].read
  PROVE  /\ FilesOK(v, disk) /\ Printed(v) = Printed(job[j]) \cup {p} /\ Taken(v) = Taken(job[j])
         /\ BootOf(v) = BootOf(job[j]) /\ Need(v) = Need(job[j]) /\ p \in Paths
         /\ p \notin Taken(job[j])
<1> DEFINE x == job[j]
<1>1. x \in Job /\ FilesOK(x, disk) /\ StageOK(x) /\ x.pc = "fingerprint"
  BY JobFacts DEF At
<1>2. disk \in [Paths -> File] /\ None \notin Nat /\ disk # None /\ p \in Paths
  BY <1>1, ConstantsOK DEF ReloadInv, TypeOK, Job
<1>3. disk[p].stamp \in Nat /\ disk[p].stamp # None
  BY <1>2 DEF File
<1>4. /\ v.print[p] = disk[p].stamp
      /\ \A q \in Paths : q # p => v.print[q] = x.print[q]
  BY <1>1, <1>2 DEF Job
<1>5. p \notin Taken(x)
  <2>1. CASE x.phase = "bootstrap"
    BY <1>1, <2>1 DEF StageOK
  <2>2. CASE x.phase = "documents"
    <3>1. Taken(x) = {Cfg} /\ x.todo \subseteq Named(BootOf(x))
      BY <1>1, <2>2 DEF StageOK
    <3>2. x.read[Cfg] # None
      BY <3>1 DEF Taken
    <3> QED
      BY <1>1, <3>1, <3>2, BootFacts
  <2>3. x.phase # "final"
    BY <1>1 DEF StageOK
  <2> QED
    BY <1>1, <2>1, <2>2, <2>3 DEF Job
<1>6. \A q \in Paths : x.print[q] # None => x.print[q] \in Nat /\ x.print[q] <= disk[q].stamp
  <2> SUFFICES ASSUME NEW q \in Paths, x.print[q] # None
               PROVE  x.print[q] \in Nat /\ x.print[q] <= disk[q].stamp
    OBVIOUS
  <2>1. x.at # None
    BY <1>1 DEF FilesOK, Printed
  <2>2. x.print[q] \in Nat /\ x.at[q] \in File /\ disk[q] \in File
    BY <1>1, <1>2, <2>1 DEF Job
  <2>3. x.print[q] <= x.at[q].stamp /\ x.at[q].stamp <= disk[q].stamp
    BY <1>1, <2>1 DEF FilesOK, Before
  <2> QED
    BY <2>2, <2>3 DEF File
<1>7. FilesOK(v, disk)
  <2>1. \A q \in Paths : v.read[q] # None =>
          v.print[q] # None /\ v.print[q] <= v.read[q].stamp /\ Before(v.read[q], disk[q])
    BY <1>1, <1>4, <1>5 DEF FilesOK, Taken
  <2>2. \A q \in Paths : disk[q].stamp \in Nat
    BY <1>2 DEF File
  <2>3. \A q \in Paths : /\ Before(v.at[q], disk[q])
                         /\ v.print[q] # None => v.print[q] <= v.at[q].stamp
                         /\ v.read[q] # None /\ v.read[q].stamp = v.at[q].stamp => v.read[q] = v.at[q]
    BY <1>1, <1>3, <1>4, <1>6, <2>2 DEF FilesOK, Before
  <2> QED
    BY <1>1, <1>2, <2>1, <2>3 DEF FilesOK, BootOf
<1>8. Printed(v) = Printed(x) \cup {p}
  BY <1>2, <1>3, <1>4 DEF Printed
<1> QED
  BY <1>2, <1>5, <1>7, <1>8 DEF Taken, BootOf, Need

LEMMA FingerprintInv ==
  ASSUME ReloadInv, NEW j \in Jobs, Fingerprint(j) PROVE ReloadInv'
<1> DEFINE x == job[j]
<1> PICK p \in x.todo :
       LET left == x.todo \ {p}
           done == [x EXCEPT !.print[p] = disk[p].stamp, !.at = disk]
       IN Set(j, IF left # {} THEN [done EXCEPT !.todo = left]
                 ELSE [done EXCEPT !.pc = "read",
                         !.todo = IF x.phase = "bootstrap" THEN {Cfg} ELSE Named(Boot(j))])
  BY DEF Fingerprint
<1>1. /\ x \in Job /\ FilesOK(x, disk) /\ StageOK(x) /\ x.pc = "fingerprint" /\ ScalarsOK
      /\ lock = j /\ At(j, "fingerprint") /\ lock \in Jobs \cup {None}
  BY JobFacts DEF Fingerprint, At, Held, Building
<1>2. ScalarsOK' /\ UNCHANGED <<disk, edits, serving, tombs, lock>>
  BY <1>1 DEF Fingerprint, Quiet, ScalarsOK, files
<1>3. p \in Paths /\ disk \in [Paths -> File] /\ disk[p].stamp \in Nat
  <2>1. p \in Paths /\ disk \in [Paths -> File]
    BY <1>1 DEF Job, ReloadInv, TypeOK
  <2> QED
    BY <2>1 DEF File
<1>4. ASSUME NEW v, v \in Job, v.print = [x.print EXCEPT ![p] = disk[p].stamp], v.at = disk, v.read = x.read,
             v.phase = x.phase, v.pc \in {"fingerprint", "read"}, StageOK(v),
             job' = [job EXCEPT ![j] = v]
      PROVE  ReloadInv'
  <2>1. FilesOK(v, disk)
    BY <1>1, <1>4, FingerprintFiles
  <2>2. AgainstOK(v, serving, tombs)
    BY <1>4 DEF AgainstOK, ReloadInv, ServingOK
  <2>3. JobOK(v, disk, serving, tombs)
    BY <1>4, <2>1, <2>2 DEF JobOK
  <2> QED
    BY <1>1, <1>2, <1>4, <2>3, StepOK
<1> DEFINE done == [x EXCEPT !.print[p] = disk[p].stamp, !.at = disk]
<1>5. /\ done \in Job /\ done.print = [x.print EXCEPT ![p] = disk[p].stamp] /\ done.at = disk
      /\ done.read = x.read /\ done.phase = x.phase /\ done.pc = x.pc /\ done.todo = x.todo
  BY <1>1, <1>3 DEF Job
<1>6. CASE x.todo \ {p} # {}
  <2> DEFINE v == [done EXCEPT !.todo = x.todo \ {p}]
  <2>1. /\ v \in Job /\ v.print = [x.print EXCEPT ![p] = disk[p].stamp] /\ v.at = disk
        /\ v.read = x.read /\ v.phase = x.phase /\ v.pc = "fingerprint" /\ v.todo = x.todo \ {p}
    <3> HIDE DEF done
    <3> QED
      BY <1>1, <1>5 DEF Job
  <2>2. job' = [job EXCEPT ![j] = v]
    BY <1>6 DEF Set
  <2> HIDE DEF v
  <2>3. x.phase = "documents"
    BY <1>1, <1>6 DEF StageOK, Job
  <2>4. /\ FilesOK(v, disk) /\ Printed(v) = Printed(x) \cup {p} /\ Taken(v) = Taken(x)
        /\ BootOf(v) = BootOf(x) /\ Need(v) = Need(x)
    BY <1>1, <2>1, FingerprintFiles
  <2>5. x.todo \subseteq Named(BootOf(x)) /\ Taken(x) = {Cfg} /\ Printed(x) = Need(x) \ x.todo
    BY <1>1, <2>3 DEF StageOK
  <2>6. Printed(v) = Need(v) \ v.todo
    BY <2>1, <2>4, <2>5 DEF Need
  <2>7. StageOK(v)
    BY <2>1, <2>3, <2>4, <2>5, <2>6 DEF StageOK
  <2> QED
    BY <1>4, <2>1, <2>2, <2>7
<1>7. CASE x.todo \ {p} = {}
  <2> DEFINE t == IF x.phase = "bootstrap" THEN {Cfg} ELSE Named(Boot(j))
             v == [done EXCEPT !.pc = "read", !.todo = t]
  <2>1. t \subseteq Paths
    <3>1. CASE x.phase = "bootstrap"
      BY <3>1 DEF Paths
    <3>2. CASE x.phase # "bootstrap"
      <4>1. Taken(x) = {Cfg}
        BY <1>1, <3>2 DEF StageOK, Job
      <4> QED
        BY <1>1, <3>2, <4>1, BootFacts DEF Taken, Boot, BootOf, Paths
    <3> QED
      BY <3>1, <3>2
  <2>2. /\ v \in Job /\ v.print = [x.print EXCEPT ![p] = disk[p].stamp] /\ v.at = disk
        /\ v.read = x.read /\ v.phase = x.phase /\ v.pc = "read" /\ v.todo = t
    <3> HIDE DEF done, t
    <3> QED
      BY <1>1, <1>5, <2>1 DEF Job, Stages
  <2>3. job' = [job EXCEPT ![j] = v]
    BY <1>7 DEF Set
  <2>4. /\ FilesOK(v, disk) /\ Printed(v) = Printed(x) \cup {p} /\ Taken(v) = Taken(x)
        /\ BootOf(v) = BootOf(x) /\ Need(v) = Need(x)
    <3> HIDE DEF v
    <3> QED
      BY <1>1, <2>2, FingerprintFiles
  <2> HIDE DEF v
  <2>5. CASE x.phase = "bootstrap"
    <3>1. Printed(x) = {} /\ Taken(x) = {} /\ x.todo = {Cfg}
      BY <1>1, <2>5 DEF StageOK
    <3>2. Printed(v) = {Cfg} /\ Taken(v) = {} /\ v.todo = {Cfg}
      BY <2>2, <2>4, <2>5, <3>1
    <3> QED
      BY <1>4, <2>2, <2>3, <2>5, <3>2 DEF StageOK
  <2>6. CASE x.phase = "documents"
    <3>1. x.todo \subseteq Named(BootOf(x)) /\ Taken(x) = {Cfg} /\ Printed(x) = Need(x) \ x.todo
      BY <1>1, <2>6 DEF StageOK
    <3>2. v.todo = Named(BootOf(v))
      BY <2>2, <2>4, <2>6 DEF Boot, BootOf
    <3>3. Printed(v) = Need(v)
      BY <1>7, <2>4, <3>1 DEF Need
    <3>4. Cfg \notin Named(BootOf(x))
      BY <1>1, <3>1, BootFacts DEF Taken
    <3>5. Taken(v) = Need(v) \ v.todo
      BY <2>4, <3>1, <3>2, <3>4 DEF Need
    <3> QED
      BY <1>4, <2>2, <2>3, <2>4, <2>6, <3>2, <3>3, <3>4, <3>5 DEF StageOK
  <2> QED
    BY <1>1, <2>5, <2>6 DEF StageOK, Job
<1> QED
  BY <1>6, <1>7, SMTT(30)

(* A file is read after its fingerprint was taken. *)
LEMMA ReadFiles ==
  ASSUME ReloadInv, NEW j \in Jobs, NEW p \in Printed(job[j]),
         p = Cfg \/ job[j].read[Cfg] # None,
         NEW v, v.read = [job[j].read EXCEPT ![p] = disk[p]], v.at = job[j].at, v.print = job[j].print
  PROVE  /\ FilesOK(v, disk) /\ Printed(v) = Printed(job[j]) /\ Taken(v) = Taken(job[j]) \cup {p}
         /\ p # Cfg => BootOf(v) = BootOf(job[j]) /\ Need(v) = Need(job[j])
<1> DEFINE x == job[j]
<1>1. x \in Job /\ FilesOK(x, disk) /\ p \in Paths /\ x.print[p] # None
  BY JobFacts DEF Printed
<1>2. disk \in [Paths -> File] /\ disk[p] # None /\ disk[p].stamp \in Nat
  <2>1. disk \in [Paths -> File] /\ None \notin File
    BY ConstantsOK DEF ReloadInv, TypeOK
  <2> QED
    BY <1>1, <2>1 DEF File
<1>3. v.read[p] = disk[p] /\ \A q \in Paths : q # p => v.read[q] = x.read[q]
  BY <1>1 DEF Job
<1>4. x.at # None /\ x.print[p] <= x.at[p].stamp /\ Before(x.at[p], disk[p])
  BY <1>1 DEF FilesOK, Printed
<1>5. x.print[p] <= disk[p].stamp /\ Before(disk[p], disk[p])
  <2>1. x.print[p] \in Nat /\ x.at[p].stamp \in Nat
    BY <1>1, <1>4 DEF Job, File
  <2> QED
    BY <1>2, <1>4, <2>1 DEF Before
<1>6. FilesOK(v, disk)
  <2>1. \A q \in Paths : v.read[q] # None =>
          v.print[q] # None /\ v.print[q] <= v.read[q].stamp /\ Before(v.read[q], disk[q])
    BY <1>1, <1>3, <1>5 DEF FilesOK
  <2>2. \A q \in Paths : v.read[q] # None /\ v.read[q].stamp = v.at[q].stamp => v.read[q] = v.at[q]
    BY <1>1, <1>3, <1>4 DEF FilesOK, Before
  <2>3. v.read[Cfg] # None => BootOf(v) \in Bootstraps
    <3>1. disk[Cfg].val \in Bootstraps /\ Cfg \in Paths
      BY DEF ReloadInv, DiskOK, Paths
    <3> QED
      BY <1>1, <1>3, <3>1 DEF FilesOK, BootOf
  <2>4. \A q \in Paths : Before(v.at[q], disk[q]) /\ (v.print[q] # None => v.print[q] <= v.at[q].stamp)
    BY <1>1, <1>4 DEF FilesOK
  <2> QED
    BY <1>4, <2>1, <2>2, <2>3, <2>4 DEF FilesOK
<1>7. Taken(v) = Taken(x) \cup {p}
  BY <1>1, <1>2, <1>3 DEF Taken
<1>8. p # Cfg => BootOf(v) = BootOf(x)
  BY <1>3 DEF BootOf, Paths
<1> QED
  BY <1>6, <1>7, <1>8 DEF Printed, Need

LEMMA ReadInv ==
  ASSUME ReloadInv, NEW j \in Jobs, Read(j) PROVE ReloadInv'
<1> DEFINE x == job[j]
<1> PICK p \in x.todo :
       LET left == x.todo \ {p}
           done == [x EXCEPT !.read[p] = disk[p], !.todo = left]
       IN IF left # {} THEN Set(j, done)
          ELSE /\ x.phase = "documents" => Loads(done.read)
               /\ Set(j, [done EXCEPT !.pc = "verify", !.todo = {q \in Paths : x.print[q] # None}])
  BY DEF Read
<1>1. /\ x \in Job /\ FilesOK(x, disk) /\ StageOK(x) /\ AgainstOK(x, serving, tombs)
      /\ x.pc = "read" /\ ScalarsOK /\ lock = j /\ lock \in Jobs \cup {None}
  BY JobFacts DEF Read, At, Held, Building
<1>2. ScalarsOK' /\ UNCHANGED <<disk, edits, serving, tombs, lock>>
  BY <1>1 DEF Read, Quiet, ScalarsOK, files
<1>3. x.phase \in {"bootstrap", "documents"} /\ p \in Paths /\ disk[p] \in File
  BY <1>1 DEF StageOK, Job, ReloadInv, TypeOK
<1>4. ASSUME NEW v, v \in Job, v.read = [x.read EXCEPT ![p] = disk[p]], v.at = x.at, v.print = x.print,
             v.phase = x.phase, v.pc \in {"read", "verify"}, StageOK(v), FilesOK(v, disk),
             job' = [job EXCEPT ![j] = v]
      PROVE  ReloadInv'
  <2>1. AgainstOK(v, serving, tombs)
    BY <1>1, <1>3, <1>4 DEF AgainstOK, Building
  <2>2. JobOK(v, disk, serving, tombs)
    BY <1>4, <2>1 DEF JobOK
  <2> QED
    BY <1>1, <1>2, <1>4, <2>2, StepOK
<1> DEFINE done == [x EXCEPT !.read[p] = disk[p], !.todo = x.todo \ {p}]
<1>5. /\ done \in Job /\ done.read = [x.read EXCEPT ![p] = disk[p]] /\ done.at = x.at
      /\ done.print = x.print /\ done.phase = x.phase /\ done.pc = x.pc /\ done.todo = x.todo \ {p}
  BY <1>1, <1>3 DEF Job
<1>6. CASE x.phase = "documents"
  <2>1. x.todo \subseteq Named(BootOf(x)) /\ Printed(x) = Need(x) /\ Taken(x) = Need(x) \ x.todo
    BY <1>1, <1>6 DEF StageOK
  <2>2. x.read[Cfg] # None /\ p # Cfg /\ p \in Printed(x)
    BY <1>1, <1>6, <2>1 DEF StageOK, Need, Taken
  <2>3. BootOf(x) \in Bootstraps /\ Named(BootOf(x)) \subseteq Docs /\ Cfg \notin Named(BootOf(x))
    BY <1>1, <2>2, BootFacts
  <2>4. CASE x.todo \ {p} # {}
    <3>1. job' = [job EXCEPT ![j] = done]
      BY <2>4 DEF Set
    <3> HIDE DEF done
    <3>2. /\ FilesOK(done, disk) /\ Printed(done) = Printed(x) /\ Taken(done) = Taken(x) \cup {p}
          /\ BootOf(done) = BootOf(x) /\ Need(done) = Need(x)
      BY <1>5, <2>2, ReadFiles
    <3>3. Taken(done) = Need(done) \ done.todo
      BY <1>5, <2>1, <3>2 DEF Need
    <3>4. StageOK(done)
      BY <1>1, <1>5, <1>6, <2>1, <2>3, <3>2, <3>3 DEF StageOK
    <3> QED
      BY <1>1, <1>4, <1>5, <3>1, <3>2, <3>4
  <2>5. CASE x.todo \ {p} = {}
    <3> DEFINE v == [done EXCEPT !.pc = "verify", !.todo = Printed(x)]
    <3>1. /\ v \in Job /\ v.read = [x.read EXCEPT ![p] = disk[p]] /\ v.at = x.at
          /\ v.print = x.print /\ v.phase = x.phase /\ v.pc = "verify" /\ v.todo = Printed(x)
      <4>1. Printed(x) \subseteq Paths
        BY DEF Printed
      <4> HIDE DEF done
      <4> QED
        BY <1>5, <4>1 DEF Job, Stages
    <3>2. job' = [job EXCEPT ![j] = v] /\ Loads(v.read)
      BY <1>5, <1>6, <2>5, <3>1 DEF Set, Printed
    <3> HIDE DEF v
    <3>3. /\ FilesOK(v, disk) /\ Printed(v) = Printed(x) /\ Taken(v) = Taken(x) \cup {p}
          /\ BootOf(v) = BootOf(x) /\ Need(v) = Need(x)
      BY <3>1, <2>2, ReadFiles
    <3>4. Taken(v) = Need(v) /\ Need(v) \ v.todo = {}
      BY <2>1, <2>5, <3>1, <3>3 DEF Need
    <3>5. StageOK(v)
      BY <1>6, <2>1, <3>1, <3>2, <3>3, <3>4 DEF StageOK
    <3> QED
      BY <1>4, <3>1, <3>2, <3>3, <3>5
  <2> QED
    BY <2>4, <2>5
<1>7. CASE x.phase = "bootstrap"
  <2>1. x.todo = {Cfg} /\ p = Cfg /\ Printed(x) = {Cfg} /\ Taken(x) = {}
    BY <1>1, <1>7 DEF StageOK
  <2> DEFINE v == [done EXCEPT !.pc = "verify", !.todo = Printed(x)]
  <2>2. /\ v \in Job /\ v.read = [x.read EXCEPT ![p] = disk[p]] /\ v.at = x.at
        /\ v.print = x.print /\ v.phase = x.phase /\ v.pc = "verify" /\ v.todo = Printed(x)
    <3>1. Printed(x) \subseteq Paths
      BY DEF Printed
    <3> HIDE DEF done
    <3> QED
      BY <1>5, <3>1 DEF Job, Stages
  <2>3. job' = [job EXCEPT ![j] = v]
    BY <2>1 DEF Set, Printed
  <2> HIDE DEF v
  <2>4. FilesOK(v, disk) /\ Printed(v) = Printed(x) /\ Taken(v) = Taken(x) \cup {p}
    BY <2>1, <2>2, ReadFiles
  <2>5. StageOK(v)
    BY <1>7, <2>1, <2>2, <2>4 DEF StageOK
  <2> QED
    BY <1>4, <2>2, <2>3, <2>4, <2>5
<1> QED
  BY <1>3, <1>6, <1>7, SMTT(30)

(* A file whose fingerprint still holds was read as it was at the last     *)
(* fingerprint.                                                            *)
LEMMA VerifiedFile ==
  ASSUME ReloadInv, NEW j \in Jobs, NEW p \in Taken(job[j]), disk[p].stamp = job[j].print[p]
  PROVE  job[j].read[p] = job[j].at[p]
<1> DEFINE x == job[j]
<1>1. x \in Job /\ FilesOK(x, disk) /\ p \in Paths /\ x.read[p] # None
  BY JobFacts DEF Taken
<1>2. x.print[p] # None /\ x.print[p] <= x.read[p].stamp /\ x.read[p].stamp <= disk[p].stamp
  BY <1>1 DEF FilesOK, Before
<1>3. x.at # None
  BY <1>1, <1>2 DEF FilesOK, Printed
<1>4. x.print[p] <= x.at[p].stamp /\ x.at[p].stamp <= disk[p].stamp
  BY <1>1, <1>2, <1>3 DEF FilesOK, Before
<1>5. x.print[p] \in Nat /\ x.read[p].stamp \in Nat /\ x.at[p].stamp \in Nat
  BY <1>1, <1>2, <1>3 DEF Job, File
<1>6. x.read[p].stamp = x.at[p].stamp
  BY <1>2, <1>4, <1>5
<1> QED
  BY <1>1, <1>3, <1>6 DEF FilesOK

LEMMA VerifyInv ==
  ASSUME ReloadInv, NEW j \in Jobs, Verify(j) PROVE ReloadInv'
<1> DEFINE x == job[j]
<1> PICK p \in x.todo :
       /\ disk[p].stamp = x.print[p]
       /\ Set(j, IF x.todo = {p} THEN Verified(j) ELSE [x EXCEPT !.todo = @ \ {p}])
  BY DEF Verify
<1>1. /\ x \in Job /\ FilesOK(x, disk) /\ StageOK(x) /\ AgainstOK(x, serving, tombs)
      /\ x.pc = "verify" /\ ScalarsOK /\ lock = j /\ lock \in Jobs \cup {None}
  BY JobFacts DEF Verify, At, Held, Building
<1>2. ScalarsOK' /\ UNCHANGED <<disk, edits, serving, tombs, lock>>
  BY <1>1 DEF Verify, Quiet, ScalarsOK, files
<1>3. p \in Taken(x) => x.read[p] = x.at[p]
  BY VerifiedFile
<1>4. ASSUME NEW v, v \in Job, SameFiles(x, v), StageOK(v), v.base = x.base,
             v.pc \in {"fingerprint", "verify", "compare", "recheck"},
             v.pc \in {"verify", "recheck"} => v.phase = x.phase,
             v.pc = "recheck" => x.phase = "final",
             job' = [job EXCEPT ![j] = v]
      PROVE  ReloadInv'
  <2>1. FilesOK(v, disk) /\ CatalogOf(v) = CatalogOf(x)
    BY <1>1, <1>4, SameFilesOK
  <2>2. AgainstOK(v, serving, tombs)
    BY <1>1, <1>4, <2>1 DEF AgainstOK, Building, SameFiles
  <2>3. JobOK(v, disk, serving, tombs)
    BY <1>4, <2>1, <2>2 DEF JobOK
  <2> QED
    BY <1>1, <1>2, <1>4, <2>3, StepOK
<1>5. ASSUME NEW v, SameFiles(x, v)
      PROVE  /\ Printed(v) = Printed(x) /\ Taken(v) = Taken(x) /\ BootOf(v) = BootOf(x) /\ Need(v) = Need(x)
             /\ v.read = x.read /\ v.at = x.at
  BY <1>1, <1>5, SameFilesOK DEF SameFiles
<1>6. CASE x.phase = "bootstrap"
  <2>1. Printed(x) = {Cfg} /\ Taken(x) = {Cfg} /\ x.todo = {p}
    BY <1>1, <1>6 DEF StageOK
  <2>2. Cfg \notin Named(BootOf(x)) /\ Named(BootOf(x)) \subseteq Paths
    BY <1>1, <2>1, BootFacts DEF Taken, Paths
  <2> DEFINE v == [x EXCEPT !.pc = "fingerprint", !.phase = "documents", !.todo = Named(BootOf(x))]
  <2>3. /\ v \in Job /\ SameFiles(x, v) /\ v.pc = "fingerprint" /\ v.phase = "documents"
        /\ v.todo = Named(BootOf(x)) /\ v.base = x.base
    BY <1>1, <2>2 DEF Job, Stages, SameFiles
  <2>4. job' = [job EXCEPT ![j] = v]
    BY <1>6, <2>1 DEF Set, Verified, Boot, BootOf
  <2> HIDE DEF v
  <2>5. StageOK(v)
    BY <1>5, <2>1, <2>2, <2>3 DEF StageOK, Need
  <2> QED
    BY <1>4, <2>3, <2>4, <2>5
<1>7. CASE x.phase = "documents"
  <2>1. /\ Printed(x) = Need(x) /\ Taken(x) = Need(x) /\ Loads(x.read)
        /\ \A q \in Need(x) \ x.todo : x.read[q] = x.at[q]
    BY <1>1, <1>7 DEF StageOK
  <2>2. CASE x.todo = {p}
    <3> DEFINE v == [x EXCEPT !.pc = "compare", !.phase = "final", !.todo = {}]
    <3>1. v \in Job /\ SameFiles(x, v) /\ v.pc = "compare" /\ v.phase = "final" /\ v.base = x.base
      BY <1>1 DEF Job, Stages, SameFiles
    <3>2. job' = [job EXCEPT ![j] = v]
      BY <1>7, <2>2 DEF Set, Verified
    <3> HIDE DEF v
    <3>3. \A q \in Need(x) : x.read[q] = x.at[q]
      BY <1>3, <2>1, <2>2
    <3>4. StageOK(v)
      BY <1>5, <2>1, <3>1, <3>3 DEF StageOK
    <3> QED
      BY <1>4, <3>1, <3>2, <3>4
  <2>3. CASE x.todo # {p}
    <3> DEFINE v == [x EXCEPT !.todo = @ \ {p}]
    <3>1. /\ v \in Job /\ SameFiles(x, v) /\ v.pc = "verify" /\ v.phase = "documents" /\ v.base = x.base
          /\ v.todo = x.todo \ {p}
      BY <1>1, <1>7 DEF Job, SameFiles
    <3>2. job' = [job EXCEPT ![j] = v]
      BY <2>3 DEF Set
    <3> HIDE DEF v
    <3>3. \A q \in Need(x) \ v.todo : x.read[q] = x.at[q]
      BY <1>3, <2>1, <3>1
    <3>4. StageOK(v)
      BY <1>5, <2>1, <3>1, <3>3 DEF StageOK
    <3> QED
      BY <1>4, <1>7, <3>1, <3>2, <3>4
  <2> QED
    BY <2>2, <2>3
<1>8. CASE x.phase = "final"
  <2>1. PICK v : /\ v \in {[x EXCEPT !.pc = "recheck", !.todo = {}], [x EXCEPT !.todo = @ \ {p}]}
                 /\ job' = [job EXCEPT ![j] = v]
    BY <1>8 DEF Set, Verified
  <2>2. /\ v \in Job /\ SameFiles(x, v) /\ v.pc \in {"verify", "recheck"} /\ v.phase = "final"
        /\ v.base = x.base
    BY <1>1, <1>8, <2>1 DEF Job, Stages, SameFiles
  <2>3. StageOK(v)
    BY <1>1, <1>5, <1>8, <2>2 DEF StageOK
  <2> QED
    BY <1>4, <1>8, <2>1, <2>2, <2>3
<1> QED
  BY <1>1, <1>6, <1>7, <1>8 DEF Job

(* An attempt that ends without a swap. *)
LEMMA RefusedInv ==
  ASSUME ReloadInv, NEW j \in Jobs, Refused(j), job[j].pc \in Held PROVE ReloadInv'
<1>1. lock = j /\ ScalarsOK /\ JobOK(IdleJob, disk, serving, tombs)
  BY JobFacts, IdleOK
<1>2. job' = [job EXCEPT ![j] = IdleJob] /\ lock' = None /\ UNCHANGED <<disk, edits, serving, tombs>>
  BY DEF Refused, Drop, Set, Quiet, files
<1>3. ScalarsOK'
  BY <1>1 DEF Refused, Quiet, ScalarsOK
<1>4. IdleJob.pc \notin Held
  BY DEF IdleJob, Held, Building
<1> QED
  BY <1>1, <1>2, <1>3, <1>4, StepOK

LEMMA EndsInv ==
  ASSUME ReloadInv, NEW j \in Jobs, Fail(j) \/ Reject(j) \/ InstallFails(j) PROVE ReloadInv'
  BY RefusedInv DEF Fail, Reject, InstallFails, At, Held, Building

LEMMA CompareInv ==
  ASSUME ReloadInv, NEW j \in Jobs, Compare(j) PROVE ReloadInv'
<1> DEFINE x == job[j]
           v == [x EXCEPT !.pc = "verify", !.base = serving.id, !.todo = Printed(x)]
<1>1. /\ x \in Job /\ FilesOK(x, disk) /\ StageOK(x) /\ AgainstOK(x, serving, tombs)
      /\ x.pc = "compare" /\ ScalarsOK /\ lock = j /\ lock \in Jobs \cup {None}
  BY JobFacts DEF Compare, At, Held, Building
<1>2. x.phase = "final"
  BY <1>1 DEF StageOK, Job
<1>3. ScalarsOK' /\ UNCHANGED <<disk, edits, serving, tombs, lock>> /\ job' = [job EXCEPT ![j] = v]
  BY <1>1 DEF Compare, Quiet, ScalarsOK, files, Set, Printed
<1>4. /\ v \in Job /\ SameFiles(x, v) /\ v.pc = "verify" /\ v.phase = "final" /\ v.base = serving.id
  <2>1. Printed(x) \subseteq Paths /\ serving.id \in Nat
    BY DEF Printed, ReloadInv, TypeOK, Generation
  <2> QED
    BY <1>1, <1>2, <2>1 DEF Job, Stages, SameFiles
<1> HIDE DEF v
<1>5. /\ FilesOK(v, disk) /\ Printed(v) = Printed(x) /\ Taken(v) = Taken(x) /\ BootOf(v) = BootOf(x)
      /\ CatalogOf(v) = CatalogOf(x) /\ Need(v) = Need(x)
  BY <1>1, <1>4, SameFilesOK
<1>6. StageOK(v)
  BY <1>1, <1>2, <1>4, <1>5 DEF StageOK, SameFiles
<1>7. CatalogOf(x) = Catalog(j)
  BY DEF CatalogOf, Catalog, BootOf, Boot
<1>8. AgainstOK(v, serving, tombs)
  <2>1. SameShape(serving.catalog, CatalogOf(v)) /\ Reloadable(serving.catalog, CatalogOf(v), tombs)
    BY <1>5, <1>7 DEF Compare, NixCacheReloadable, Reloadable
  <2> QED
    BY <1>1, <1>4, <2>1 DEF AgainstOK, Building, SameFiles
<1> QED
  BY <1>1, <1>3, <1>4, <1>5, <1>6, <1>8, StepOK DEF JobOK

LEMMA RecheckInv ==
  ASSUME ReloadInv, NEW j \in Jobs, Recheck(j) PROVE ReloadInv'
<1> DEFINE x == job[j]
           v == [x EXCEPT !.pc = "install"]
<1>1. /\ x \in Job /\ FilesOK(x, disk) /\ StageOK(x) /\ AgainstOK(x, serving, tombs)
      /\ x.pc = "recheck" /\ ScalarsOK /\ lock = j /\ lock \in Jobs \cup {None}
  BY JobFacts DEF Recheck, At, Held, Building
<1>2. x.phase = "final"
  BY <1>1 DEF StageOK, Job
<1>3. ScalarsOK' /\ UNCHANGED <<disk, edits, serving, tombs, lock>> /\ job' = [job EXCEPT ![j] = v]
  BY <1>1 DEF Recheck, Quiet, ScalarsOK, files, Set
<1>4. /\ v \in Job /\ SameFiles(x, v) /\ v.pc = "install" /\ v.phase = "final" /\ v.base = x.base
  BY <1>1, <1>2 DEF Job, Stages, SameFiles
<1> HIDE DEF v
<1>5. /\ FilesOK(v, disk) /\ Printed(v) = Printed(x) /\ Taken(v) = Taken(x) /\ BootOf(v) = BootOf(x)
      /\ CatalogOf(v) = CatalogOf(x) /\ Need(v) = Need(x)
  BY <1>1, <1>4, SameFilesOK
<1>6. StageOK(v)
  BY <1>1, <1>2, <1>4, <1>5 DEF StageOK, SameFiles
<1>7. AgainstOK(v, serving, tombs)
  BY <1>1, <1>4, <1>5, SMTT(30) DEF AgainstOK, Building, SameFiles
<1> QED
  BY <1>1, <1>3, <1>4, <1>5, <1>6, <1>7, StepOK DEF JobOK

(* What an attempt that may swap has established. *)
LEMMA CandidateSound ==
  ASSUME ReloadInv, NEW j \in Jobs, At(j, "install")
  PROVE  /\ lock = j /\ job[j].at \in [Paths -> File] /\ Boot(j) \in Bootstraps
         /\ Boot(j).catalog \in Paths /\ Boot(j).policy \in Paths
         /\ Boot(j) = job[j].at[Cfg].val
         /\ Catalog(j) = job[j].at[Boot(j).catalog].val /\ Policy(j) = job[j].at[Boot(j).policy].val
         /\ <<Catalog(j), Policy(j)>> \in Loadable
         /\ \A p \in Paths : /\ job[j].at[p].stamp <= disk[p].stamp
                             /\ serving.at[p].stamp <= job[j].at[p].stamp
         /\ serving.id = job[j].base /\ SameShape(serving.catalog, Catalog(j))
         /\ Reloadable(serving.catalog, Catalog(j), tombs)
<1> DEFINE x == job[j]
<1>1. /\ x \in Job /\ FilesOK(x, disk) /\ StageOK(x) /\ AgainstOK(x, serving, tombs)
      /\ x.pc = "install" /\ lock = j
  BY JobFacts DEF At, Held, Building
<1>2. /\ Printed(x) = Need(x) /\ Taken(x) = Need(x) /\ Loads(x.read)
      /\ \A p \in Need(x) : x.read[p] = x.at[p]
  BY <1>1 DEF StageOK, Job
<1>3. x.read[Cfg] # None /\ Cfg \in Need(x) /\ x.at # None
  BY <1>1, <1>2 DEF Need, Taken, Printed, FilesOK
<1>4. /\ BootOf(x) \in Bootstraps /\ Need(x) \subseteq Paths
      /\ BootOf(x).catalog \in Need(x) /\ BootOf(x).policy \in Need(x)
  BY <1>1, <1>3, BootFacts
<1>5. Boot(j) = BootOf(x) /\ Catalog(j) = CatalogOf(x) /\ Policy(j) = x.read[BootOf(x).policy].val
  BY DEF Boot, BootOf, Catalog, CatalogOf, Policy
<1>6. x.at \in [Paths -> File]
  BY <1>1, <1>3 DEF Job
<1>7. \A p \in Paths : x.at[p].stamp <= disk[p].stamp /\ serving.at[p].stamp <= x.at[p].stamp
  BY <1>1, <1>3 DEF FilesOK, Before, AgainstOK, Building
<1>8. <<Catalog(j), Policy(j)>> \in Loadable
  BY <1>2, <1>5 DEF Loads, CatalogOf, BootOf
<1>9. /\ Boot(j) = x.at[Cfg].val
      /\ Catalog(j) = x.at[Boot(j).catalog].val /\ Policy(j) = x.at[Boot(j).policy].val
  BY <1>2, <1>3, <1>4, <1>5 DEF BootOf, CatalogOf
<1>10. /\ serving.id = x.base /\ SameShape(serving.catalog, Catalog(j))
       /\ Reloadable(serving.catalog, Catalog(j), tombs)
  BY <1>1, <1>5 DEF AgainstOK
<1> QED
  BY <1>1, <1>4, <1>5, <1>6, <1>7, <1>8, <1>9, <1>10

LEMMA InstallInv ==
  ASSUME ReloadInv, NEW j \in Jobs, Install(j) PROVE ReloadInv'
<1> DEFINE x == job[j]
<1>0. At(j, "install")
  BY DEF Install
<1>1. x \in Job /\ FilesOK(x, disk) /\ StageOK(x) /\ ScalarsOK /\ x.pc = "install"
  BY <1>0, JobFacts DEF At
<1>2. PICK pc \in {"record", "retire"} :
        /\ job' = [job EXCEPT ![j] = [x EXCEPT !.pc = pc]]
        /\ lock' = IF pc = "record" THEN None ELSE lock
  BY DEF Install, Set
<1> DEFINE v == [x EXCEPT !.pc = pc]
<1>3. /\ serving' = Candidate(j) /\ tombs' = tombs \cup Enrolled(Catalog(j))
      /\ UNCHANGED <<disk, edits, pending, active, triggers>> /\ owed' \in BOOLEAN
  BY <1>1 DEF Install, files, ScalarsOK
<1>4. v \in Job /\ SameFiles(x, v) /\ v.pc = pc /\ v.phase = x.phase
  BY <1>1 DEF Job, Stages, SameFiles
<1>5. /\ serving'.id = x.base + 1 /\ serving'.boot = Boot(j) /\ serving'.catalog = Catalog(j)
      /\ serving'.policy = Policy(j) /\ serving'.at = x.at
  BY <1>3 DEF Candidate
<1>6. lock = j /\ j # None
  BY <1>0, CandidateSound, JobFacts
<1> HIDE DEF v
<1>7. job'[j] = v /\ \A k \in Jobs : k # j => job'[k] = job[k]
  BY <1>2 DEF v, ReloadInv, TypeOK
<1>8. TypeOK'
  <2>1. \A p \in Paths : x.at[p].val \in Values
    BY <1>0, CandidateSound DEF File
  <2>2. Boot(j) \in Values /\ Catalog(j) \in Values /\ Policy(j) \in Values
    <3>1. Cfg \in Paths
      BY DEF Paths
    <3> QED
      BY <1>0, <2>1, <3>1, CandidateSound
  <2>3. x.base + 1 \in Nat
    BY <1>1 DEF Job
  <2>4. serving' \in Generation
    BY <1>0, <1>3, <2>2, <2>3, CandidateSound DEF Candidate, Generation
  <2>5. None \notin tombs'
    <3>1. <<Catalog(j), Policy(j)>> \in Loadable
      BY <1>0, CandidateSound
    <3>2. Catalog(j).key # None => Catalog(j).name # None
      BY <3>1, ConstantsOK
    <3> QED
      BY <1>3, <3>2 DEF Enrolled, ReloadInv, TypeOK
  <2>6. job' \in [Jobs -> Job] /\ lock' \in Jobs \cup {None}
    BY <1>2, <1>4 DEF v, ReloadInv, TypeOK
  <2> QED
    BY <1>3, <2>4, <2>5, <2>6 DEF ReloadInv, TypeOK
<1>9. \A k \in Jobs : k # j => job[k].pc \notin Held
  BY <1>6 DEF ReloadInv, LockOK
<1>10. JobsOK'
  <2> SUFFICES ASSUME NEW k \in Jobs PROVE JobOK(job'[k], disk, serving', tombs')
    BY <1>3 DEF JobsOK
  <2>1. CASE k # j
    <3>1. JobOK(job[k], disk, serving, tombs) /\ job[k].pc \notin Building
      BY <1>9, <2>1 DEF ReloadInv, JobsOK, Held
    <3>2. AgainstOK(job[k], serving', tombs')
      BY <3>1 DEF AgainstOK, Building
    <3> QED
      BY <1>7, <2>1, <3>1, <3>2 DEF JobOK
  <2>2. CASE k = j
    <3>1. /\ FilesOK(v, disk) /\ Printed(v) = Printed(x) /\ Taken(v) = Taken(x) /\ BootOf(v) = BootOf(x)
          /\ Need(v) = Need(x)
      BY <1>1, <1>4, SameFilesOK
    <3>2. x.phase = "final"
      BY <1>1 DEF StageOK, Job
    <3>3. StageOK(v)
      BY <1>1, <1>4, <3>1, <3>2 DEF StageOK, SameFiles
    <3>4. AgainstOK(v, serving', tombs')
      BY <1>4 DEF AgainstOK, Building
    <3> QED
      BY <1>4, <1>7, <2>2, <3>1, <3>3, <3>4 DEF JobOK
  <2> QED
    BY <2>1, <2>2
<1>11. LockOK'
  BY <1>2, <1>4, <1>6, <1>7, <1>9 DEF LockOK, Held, Building
<1>12. DiskOK'
  BY <1>3 DEF ReloadInv, DiskOK
<1>13. ServingOK'
  <2>1. PointInTime'
    BY <1>0, <1>5, CandidateSound DEF PointInTime
  <2>2. ServingValid'
    BY <1>0, <1>5, CandidateSound DEF ReloadInv, ServingOK, ServingValid, SameShape
  <2> QED
    BY <1>0, <1>3, <1>5, <2>1, <2>2, CandidateSound DEF ServingOK
<1> QED
  BY <1>8, <1>10, <1>11, <1>12, <1>13 DEF ReloadInv

LEMMA RetireInv ==
  ASSUME ReloadInv, NEW j \in Jobs, Retire(j) PROVE ReloadInv'
<1> DEFINE x == job[j]
           v == [x EXCEPT !.pc = "record"]
<1>1. /\ x \in Job /\ FilesOK(x, disk) /\ StageOK(x) /\ x.pc = "retire" /\ ScalarsOK /\ lock = j
  BY JobFacts DEF Retire, At, Held, Building
<1>2. x.phase = "final"
  BY <1>1 DEF StageOK, Job
<1>3. /\ ScalarsOK' /\ UNCHANGED <<disk, edits, serving, tombs>> /\ lock' = None
      /\ job' = [job EXCEPT ![j] = v]
  BY <1>1 DEF Retire, Quiet, ScalarsOK, files, Set
<1>4. /\ v \in Job /\ SameFiles(x, v) /\ v.pc = "record" /\ v.phase = "final"
  BY <1>1, <1>2 DEF Job, Stages, SameFiles
<1> HIDE DEF v
<1>5. /\ FilesOK(v, disk) /\ Printed(v) = Printed(x) /\ Taken(v) = Taken(x) /\ BootOf(v) = BootOf(x)
      /\ Need(v) = Need(x)
  BY <1>1, <1>4, SameFilesOK
<1>6. StageOK(v)
  BY <1>1, <1>2, <1>4, <1>5 DEF StageOK, SameFiles
<1>7. AgainstOK(v, serving, tombs)
  BY <1>4 DEF AgainstOK, Building
<1> QED
  BY <1>1, <1>3, <1>4, <1>5, <1>6, <1>7, StepOK DEF JobOK, Held, Building

LEMMA RecordInv ==
  ASSUME ReloadInv, NEW j \in Jobs, Record(j) PROVE ReloadInv'
<1> DEFINE x == job[j]
           v == [x EXCEPT !.pc = "refresh"]
<1>1. /\ x \in Job /\ FilesOK(x, disk) /\ StageOK(x) /\ x.pc = "record" /\ ScalarsOK
      /\ lock \in Jobs \cup {None}
  BY JobFacts DEF Record, At
<1>2. x.phase = "final"
  BY <1>1 DEF StageOK, Job
<1>3. /\ ScalarsOK' /\ UNCHANGED <<disk, edits, serving, tombs, lock>>
      /\ job' = [job EXCEPT ![j] = v]
  BY <1>1 DEF Record, ScalarsOK, files, Set
<1>4. /\ v \in Job /\ SameFiles(x, v) /\ v.pc = "refresh" /\ v.phase = "final"
  BY <1>1, <1>2 DEF Job, Stages, SameFiles
<1> HIDE DEF v
<1>5. /\ FilesOK(v, disk) /\ Printed(v) = Printed(x) /\ Taken(v) = Taken(x) /\ BootOf(v) = BootOf(x)
      /\ Need(v) = Need(x)
  BY <1>1, <1>4, SameFilesOK
<1>6. StageOK(v)
  BY <1>1, <1>2, <1>4, <1>5 DEF StageOK, SameFiles
<1>7. AgainstOK(v, serving, tombs)
  BY <1>4 DEF AgainstOK, Building
<1> QED
  BY <1>1, <1>3, <1>4, <1>5, <1>6, <1>7, StepOK DEF JobOK, Held, Building

LEMMA RefreshInv ==
  ASSUME ReloadInv, NEW j \in Jobs, Refresh(j) PROVE ReloadInv'
<1>1. lock \in Jobs \cup {None} /\ ScalarsOK /\ JobOK(IdleJob, disk, serving, tombs)
  BY JobFacts, IdleOK
<1>2. job' = [job EXCEPT ![j] = IdleJob] /\ UNCHANGED <<disk, edits, serving, tombs, lock>> /\ ScalarsOK'
  BY <1>1 DEF Refresh, Quiet, Set, files, ScalarsOK
<1>3. IdleJob.pc \notin Held
  BY DEF IdleJob, Held, Building
<1> QED
  BY <1>1, <1>2, <1>3, StepOK

LEMMA CancelInv ==
  ASSUME ReloadInv, NEW j \in Jobs, Cancel(j) PROVE ReloadInv'
<1>1. lock \in Jobs \cup {None} /\ ScalarsOK /\ JobOK(IdleJob, disk, serving, tombs)
  BY JobFacts, IdleOK
<1>2. /\ job' = [job EXCEPT ![j] = IdleJob] /\ UNCHANGED <<disk, edits, serving, tombs>> /\ ScalarsOK'
      /\ lock' = IF lock = j THEN None ELSE lock
  BY <1>1 DEF Cancel, Quiet, Set, files, ScalarsOK
<1>3. IdleJob.pc \notin Held
  BY DEF IdleJob, Held, Building
<1> QED
  BY <1>1, <1>2, <1>3, StepOK

-----------------------------------------------------------------------------
LEMMA ReloadInitInv == Init => ReloadInv
<1> SUFFICES ASSUME Init PROVE ReloadInv
  OBVIOUS
<1>0. Cfg \in Paths /\ Original[Cfg] \in Bootstraps
  BY ConstantsOK DEF Paths, Bootstraps
<1>1. Original[Cfg].catalog \in Paths /\ Original[Cfg].policy \in Paths
  BY <1>0, ConstantsOK DEF Paths
<1>2. /\ disk \in [Paths -> File]
      /\ \A p \in Paths : disk[p].val = Original[p] /\ disk[p].stamp = 0
  BY ConstantsOK DEF Init, File
<1>3. serving \in Generation
  <2>1. \A p \in Paths : Original[p] \in Values
    BY ConstantsOK
  <2> QED
    BY <1>0, <1>1, <1>2, <2>1 DEF Init, Generation
<1>4. None \notin tombs
  <2>1. /\ serving.catalog = Original[Original[Cfg].catalog]
        /\ <<serving.catalog, Original[Original[Cfg].policy]>> \in Loadable
    BY ConstantsOK DEF Init
  <2>2. serving.catalog.key # None => serving.catalog.name # None
    BY <2>1, ConstantsOK
  <2> QED
    BY <2>2 DEF Init, Enrolled
<1>5. \A j \in Jobs : JobOK(job[j], disk, serving, tombs) /\ job[j] = IdleJob
  BY IdleOK DEF Init
<1>6. JobsOK /\ job \in [Jobs -> Job]
  BY <1>5 DEF JobsOK, JobOK, Init
<1>7. TypeOK
  BY <1>2, <1>3, <1>4, <1>6 DEF Init, TypeOK
<1>8. LockOK
  BY <1>5 DEF LockOK, IdleJob, Held, Building
<1>9. DiskOK
  BY <1>0, <1>2 DEF Init, DiskOK
<1>10. ServingOK
  BY <1>0, <1>1, <1>2, ConstantsOK DEF Init, ServingOK, PointInTime, ServingValid
<1> QED
  BY <1>6, <1>7, <1>8, <1>9, <1>10 DEF ReloadInv

LEMMA ReloadNextInv ==
  ASSUME ReloadInv, [Next]_vars PROVE ReloadInv'
<1>1. CASE Edit \/ Signal \/ Receive \/ Connections
  BY <1>1, EditInv, SignalInv, ReceiveInv, ConnectionsInv
<1>2. ASSUME NEW j \in Rpcs, Call(j) \/ Cancel(j) PROVE ReloadInv'
  BY <1>2, CallInv, CancelInv DEF Jobs
<1>3. ASSUME NEW j \in Jobs, Acquire(j) \/ Fingerprint(j) \/ Read(j) \/ Verify(j) \/ Compare(j)
      PROVE  ReloadInv'
  BY <1>3, AcquireInv, FingerprintInv, ReadInv, VerifyInv, CompareInv
<1>4. ASSUME NEW j \in Jobs, \/ Fail(j) \/ Reject(j) \/ InstallFails(j) \/ Recheck(j) \/ Install(j)
                             \/ Retire(j) \/ Record(j) \/ Refresh(j)
      PROVE  ReloadInv'
  BY <1>4, EndsInv, RecheckInv, InstallInv, RetireInv, RecordInv, RefreshInv
<1>5. CASE UNCHANGED vars
  BY <1>5, SMTT(30) DEF vars, ReloadInv, TypeOK, JobsOK, LockOK, DiskOK, ServingOK, PointInTime, ServingValid
<1> QED
  BY <1>1, <1>2, <1>3, <1>4, <1>5 DEF Next, Advance

(* Whatever is edited between the fingerprints, the reads and the swap,    *)
(* and however signals and RPCs overlap, the serving bootstrap, catalog    *)
(* and policy were on disk together at one instant, passed load() as a     *)
(* pair and have the routing shape the process started with.               *)
THEOREM GenerationSoundHolds == Spec => []GenerationSound
<1>1. Init => ReloadInv
  BY ReloadInitInv
<1>2. ReloadInv /\ [Next]_vars => ReloadInv'
  BY ReloadNextInv
<1>3. ReloadInv => GenerationSound
  BY DEF ReloadInv, ServingOK, GenerationSound
<1> QED
  BY <1>1, <1>2, <1>3, PTL DEF Spec

(* Only an install changes what serves. *)
LEMMA SwapIsInstall ==
  ASSUME [Next]_vars, serving' # serving
  PROVE  \E j \in Jobs : Install(j)
  BY DEF Next, vars, Advance, Edit, Signal, Receive, Connections, Call, Cancel, Acquire, Fingerprint, Read,
         Verify, Fail, Compare, Reject, Recheck, InstallFails, Retire, Record, Refresh, Refused, Quiet

(* Generation ids grow by one, no swap puts an older state of a file over  *)
(* a newer one, and an enrolled nixCache key is never replaced or          *)
(* withdrawn, through any chain of reloads.                                *)
THEOREM SwapsForwardHolds == Spec => SwapsForward
<1> DEFINE Newer == serving' # serving =>
             /\ serving'.id = serving.id + 1
             /\ \A p \in Paths : serving'.at[p].stamp >= serving.at[p].stamp
           Keeps == serving.catalog.key # None =>
             /\ serving'.catalog.key = serving.catalog.key
             /\ serving'.catalog.name = serving.catalog.name
<1>1. ASSUME ReloadInv, [Next]_vars PROVE Newer /\ Keeps
  <2>1. CASE serving' = serving
    BY <2>1
  <2>2. ASSUME NEW j \in Jobs, Install(j) PROVE Newer /\ Keeps
    <3>1. At(j, "install") /\ serving' = Candidate(j)
      BY <2>2 DEF Install
    <3>2. serving'.id = job[j].base + 1 /\ serving'.catalog = Catalog(j) /\ serving'.at = job[j].at
      BY <3>1 DEF Candidate
    <3>3. \A p \in Paths : serving.at[p].stamp \in Nat /\ job[j].at[p].stamp \in Nat
      BY <1>1, <3>1, CandidateSound DEF File, ReloadInv, TypeOK, Generation
    <3> QED
      BY <1>1, <3>1, <3>2, <3>3, CandidateSound DEF Reloadable
  <2> QED
    BY <1>1, <2>1, <2>2, SwapIsInstall
<1>2. ReloadInv /\ [Next]_vars => [Newer]_vars /\ [Keeps]_vars
  BY <1>1
<1>3. Init => ReloadInv
  BY ReloadInitInv
<1>4. ReloadInv /\ [Next]_vars => ReloadInv'
  BY ReloadNextInv
<1> QED
  BY <1>2, <1>3, <1>4, PTL DEF Spec, SwapsForward, NoLostUpdate, EnrolledForever
=============================================================================

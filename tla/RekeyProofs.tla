---------------------------- MODULE RekeyProofs ----------------------------
(***************************************************************************)
(* The safety of the keystore rekey protocol, for any number of operators  *)
(* and brokers, any keys and any number of writes and re-seals: IndInv is  *)
(* an inductive invariant of Rekey, and the safety properties follow.      *)
(***************************************************************************)
EXTENDS Rekey, TLAPS

(* An absent file is none of the kinds of file. *)
LEMMA NoneIsNoFile ==
  /\ None \notin File /\ None \notin Wal /\ None \notin Bundle /\ None \notin Marker
  BY RekeyAssumption

(* The initial state satisfies the inductive invariant. *)
LEMMA InitInv == Init => IndInv
<1> SUFFICES ASSUME Init PROVE IndInv
  OBVIOUS
<1> USE NoneIsNoFile
<1>1. TypeOK
  BY DEF Init, TypeOK, Dir, Vault, File, Wal, Bundle, Job, NoJob, Pcs, AgentStates
<1>2. LocksExclude
  BY DEF Init, LocksExclude, HoldsRekeyLock, HoldsBundleLock, BundlePcs, MaintPcs
<1>3. DirsAgree
  BY DEF Init, DirsAgree, Agrees, LiveReadable, WalFits, Content
<1>4. SidecarNotAhead
  BY DEF Init, SidecarNotAhead
<1>5. \A c \in Clis : RunKnows(c)
  BY DEF Init, RunKnows, BundlePcs, MaintPcs, Planning,
         Rewriting, Marking, Resuming, Swapping, Cleaning
<1>6. \A a \in Agents : AgentKnows(a)
  BY DEF Init, AgentKnows
<1> QED
  BY <1>1, <1>2, <1>3, <1>4, <1>5, <1>6 DEF IndInv

-----------------------------------------------------------------------------
(* Frames. *)

(* A pair of directory states still agrees when only the nonce advances. *)
LEMMA AgreesKept ==
  ASSUME NEW d, NEW b, committed' = committed, nonce \in Nat, nonce' \in Nat,
         nonce <= nonce', d.marker # None => d.marker \in Marker, Agrees(d, b)
  PROVE  Agrees(d, b)'
  BY DEF Agrees, LiveReadable, Binds, Staged, Discarded, LogGone, Swapped, WalFits,
         Content, Marker, Bundle

(* A run that holds neither lock, or only the rekey lock, knows nothing. *)
LEMMA IdleKnows ==
  ASSUME NEW c \in Clis, pc[c] \in {"idle", "fresh", "resume"}
  PROVE  RunKnows(c)
  BY DEF RunKnows, BundlePcs, MaintPcs, Planning,
         Rewriting, Marking, Resuming, Swapping, Cleaning

LEMMA IdleKnowsNext ==
  ASSUME NEW c \in Clis, pc'[c] \in {"idle", "fresh", "resume"}
  PROVE  RunKnows(c)'
  BY DEF RunKnows, BundlePcs, MaintPcs, Planning,
         Rewriting, Marking, Resuming, Swapping, Cleaning

(* While a run holds both locks every other run is idle and every agent is *)
(* down.                                                                   *)
LEMMA Alone ==
  ASSUME IndInv, NEW c \in Clis, HoldsRekeyLock(c), HoldsBundleLock(c)
  PROVE  /\ \A e \in Clis : e # c => pc[e] = "idle"
         /\ \A a \in Agents : agent[a].st = "down"
<1>1. ASSUME NEW e \in Clis, e # c PROVE pc[e] = "idle"
  BY <1>1 DEF IndInv, TypeOK, LocksExclude, HoldsRekeyLock, HoldsBundleLock, Pcs, BundlePcs
<1>2. ASSUME NEW a \in Agents PROVE agent[a].st = "down"
  BY DEF IndInv, TypeOK, LocksExclude, HoldsStoreLock, HoldsStartupGuard, AgentStates
<1> QED
  BY <1>1, <1>2

(* The step of a run beside which nothing else is running. *)
LEMMA SoloStep ==
  ASSUME IndInv, NEW c \in Clis,
         \A e \in Clis : e # c => pc[e] = "idle", \A a \in Agents : agent[a].st = "down",
         NEW l \in Pcs \ MaintPcs, pc' = [pc EXCEPT ![c] = l], agent' = agent,
         TypeOK', DirsAgree', SidecarNotAhead', RunKnows(c)'
  PROVE  IndInv'
<1>1. /\ \A e \in Clis : e # c => pc'[e] = "idle"
      /\ \A a \in Agents : agent'[a].st = "down"
  BY DEF IndInv, TypeOK
<1>2. LocksExclude'
  BY <1>1 DEF LocksExclude, HoldsRekeyLock, HoldsBundleLock, HoldsStoreLock,
              HoldsStartupGuard, BundlePcs, MaintPcs
<1>3. ASSUME NEW e \in Clis PROVE RunKnows(e)'
  BY <1>1, IdleKnowsNext
<1>4. ASSUME NEW a \in Agents PROVE AgentKnows(a)'
  BY <1>1 DEF AgentKnows
<1> QED
  BY <1>2, <1>3, <1>4 DEF IndInv

(* The step of a run that holds both locks. *)
LEMMA HolderStep ==
  ASSUME IndInv, NEW c \in Clis, HoldsRekeyLock(c), HoldsBundleLock(c),
         NEW l \in Pcs \ MaintPcs, pc' = [pc EXCEPT ![c] = l], agent' = agent,
         TypeOK', DirsAgree', SidecarNotAhead', RunKnows(c)'
  PROVE  IndInv'
  BY Alone, SoloStep

(* A run keeps what it knows when the directories do not change. *)
LEMMA RunKept ==
  ASSUME NEW c \in Clis, RunKnows(c), pc'[c] = pc[c], job'[c] = job[c],
         UNCHANGED <<fsVars, vaultVars, committed>>,
         nonce \in Nat, nonce' \in Nat, nonce <= nonce'
  PROVE  RunKnows(c)'
<1> USE DEF fsVars, vaultVars
<1>1. Binds(job[c]) /\ job[c] \in Marker => Binds(job[c])'
  BY DEF Binds, Marker, Bundle
<1>2. /\ Staged(dir, job[c])' = Staged(dir, job[c])
      /\ LogGone(dir, job[c])' = LogGone(dir, job[c])
      /\ Swapped(dir, job[c])' = Swapped(dir, job[c])
  BY DEF Staged, LogGone, Swapped, WalFits, Content
<1>3. job[c].post \in Bundle /\ job[c].post.rev < nonce => job'[c].post.rev < nonce'
  BY DEF Bundle
<1>4. Planning \subseteq BundlePcs
  BY DEF Planning, BundlePcs, MaintPcs
<1> QED
  BY <1>1, <1>2, <1>3, <1>4 DEF RunKnows

(* So do the directories. *)
LEMMA DirsKept ==
  ASSUME IndInv, TypeOK', UNCHANGED <<fsVars, vaultVars, committed>>, nonce <= nonce'
  PROVE  DirsAgree' /\ SidecarNotAhead'
<1> USE DEF fsVars, vaultVars
<1>1. ASSUME NEW d \in exposed', NEW v \in vexposed'
      PROVE  Agrees(d, v.bundle)' /\ v.bundle.rev < nonce'
  <2>1. Agrees(d, v.bundle) /\ v.bundle.rev < nonce /\ v.bundle \in Bundle
    BY DEF IndInv, TypeOK, DirsAgree, Vault
  <2>2. v.bundle.rev < nonce'
    BY <2>1 DEF IndInv, TypeOK, Bundle
  <2> QED
    BY <2>1, <2>2, AgreesKept DEF IndInv, TypeOK, Dir
<1> QED
  BY <1>1 DEF IndInv, TypeOK, DirsAgree, SidecarNotAhead

(* The step of a maintenance command, which holds the bundle's lock, or    *)
(* takes it, and changes the bundle's directory at most.                   *)
LEMMA MaintStep ==
  ASSUME IndInv, NEW c \in Clis, pc[c] \in MaintPcs \cup {"idle"},
         \A e \in Clis : e # c => ~HoldsBundleLock(e),
         \A a \in Agents : ~HoldsStartupGuard(a),
         NEW l \in MaintPcs \cup {"idle"}, pc' = [pc EXCEPT ![c] = l],
         UNCHANGED <<fsVars, agent>>,
         TypeOK', DirsAgree', SidecarNotAhead', RunKnows(c)'
  PROVE  IndInv'
<1>1. ASSUME NEW e \in Clis, e # c
      PROVE  pc'[e] = pc[e] /\ pc[e] \in {"idle", "fresh", "resume"}
  BY <1>1 DEF IndInv, TypeOK, HoldsBundleLock, Pcs
<1>2. pc'[c] = l
  BY DEF IndInv, TypeOK
<1>3. LocksExclude'
  BY <1>1, <1>2 DEF IndInv, LocksExclude, HoldsRekeyLock, HoldsBundleLock,
         HoldsStoreLock, HoldsStartupGuard, BundlePcs, MaintPcs
<1>4. ASSUME NEW e \in Clis PROVE RunKnows(e)'
  BY <1>1, IdleKnowsNext
<1>5. ASSUME NEW a \in Agents PROVE AgentKnows(a)'
  BY DEF IndInv, AgentKnows, fsVars
<1> QED
  BY <1>3, <1>4, <1>5 DEF IndInv

(* A change of the database directory while no rekey runs and no fence is   *)
(* in place.                                                               *)
LEMMA DatabaseStep ==
  ASSUME IndInv, \A c \in Clis : ~HoldsRekeyLock(c), dir'.marker = None,
         exposed' = {dir'}, dir'.db.dek = dir.db.dek, dir.marker = None,
         \A v \in vexposed : LiveReadable(dir, v.bundle)',
         UNCHANGED <<vaultVars, cliVars, agent>>, nonce <= nonce', TypeOK'
  PROVE  IndInv'
<1> USE DEF vaultVars, cliVars
<1>1. LocksExclude'
  BY DEF IndInv, LocksExclude, HoldsRekeyLock, HoldsBundleLock,
         HoldsStoreLock, HoldsStartupGuard
<1>2. DirsAgree'
  <2>1. ASSUME NEW v \in vexposed' PROVE Agrees(dir, v.bundle)' /\ v.bundle.rev < nonce'
    <3>1. v.bundle \in Bundle /\ v.bundle.rev < nonce
      BY DEF IndInv, TypeOK, Vault, DirsAgree
    <3> QED
      BY <3>1 DEF IndInv, TypeOK, Bundle, Agrees, LiveReadable
  <2> QED
    BY <2>1 DEF DirsAgree
<1>3. SidecarNotAhead'
  BY DEF IndInv, SidecarNotAhead
<1>4. ASSUME NEW c \in Clis PROVE RunKnows(c)'
  <2>1. pc[c] \in MaintPcs \cup {"idle"} /\ RunKnows(c)
    BY DEF IndInv, HoldsRekeyLock
  <2>2. job[c].post \in Bundle /\ job[c].post.rev < nonce => job'[c].post.rev < nonce'
    BY DEF IndInv, TypeOK, Bundle
  <2> QED
    BY <2>1, <2>2 DEF RunKnows, BundlePcs, MaintPcs, Planning, Rewriting, Marking,
                      Resuming, Swapping, Cleaning
<1>5. ASSUME NEW a \in Agents PROVE AgentKnows(a)'
  BY DEF IndInv, AgentKnows
<1> QED
  BY <1>1, <1>2, <1>3, <1>4, <1>5 DEF IndInv

(* The end of a run that changes neither directory. *)
LEMMA ExitStep ==
  ASSUME IndInv, NEW c \in Clis, Exit(c),
         UNCHANGED <<fsVars, vaultVars, agent, committed, nonce>>
  PROVE  IndInv'
<1> USE DEF Exit, fsVars, vaultVars
<1>1. TypeOK'
  BY NoneIsNoFile DEF IndInv, TypeOK, NoJob, Job, Pcs
<1>2. LocksExclude'
  BY DEF IndInv, TypeOK, LocksExclude, HoldsRekeyLock, HoldsBundleLock, HoldsStoreLock,
         HoldsStartupGuard, BundlePcs, MaintPcs
<1>3. DirsAgree' /\ SidecarNotAhead'
  BY DEF IndInv, DirsAgree, SidecarNotAhead, Agrees, LiveReadable, Binds, Staged,
         Discarded, LogGone, Swapped, WalFits, Content
<1>4. ASSUME NEW e \in Clis PROVE RunKnows(e)'
  <2>1. CASE e = c
    BY <2>1, IdleKnowsNext DEF IndInv, TypeOK
  <2>2. CASE e # c
    <3>1. pc'[e] = pc[e] /\ job'[e] = job[e]
      BY <2>2 DEF IndInv, TypeOK
    <3>2. RunKnows(e)
      BY DEF IndInv
    <3> QED
      BY <3>1, <3>2 DEF RunKnows, Binds, Staged, LogGone, Swapped, WalFits, Content
  <2> QED
    BY <2>1, <2>2
<1>5. ASSUME NEW a \in Agents PROVE AgentKnows(a)'
  BY DEF IndInv, AgentKnows
<1> QED
  BY <1>1, <1>2, <1>3, <1>4, <1>5 DEF IndInv

-----------------------------------------------------------------------------
(* A fresh rekey. *)

(* MakeStaging preserves the invariant. *)
LEMMA MakeStagingInv ==
  ASSUME IndInv, NEW c \in Clis, MakeStaging(c)
  PROVE  IndInv'
<1> USE DEF MakeStaging, Change, Goto, vaultVars
<1>0. HoldsRekeyLock(c) /\ HoldsBundleLock(c)
  BY DEF HoldsRekeyLock, HoldsBundleLock, BundlePcs, MaintPcs
<1>1. TypeOK'
  BY DEF IndInv, TypeOK, Dir, Pcs, BundlePcs
<1>2. DirsAgree'
  <2> SUFFICES ASSUME NEW d \in exposed', NEW v \in vexposed'
               PROVE  Agrees(d, v.bundle)' /\ v.bundle.rev < nonce'
    BY DEF DirsAgree
  <2>1. CASE d \in exposed
    BY <2>1, AgreesKept DEF IndInv, TypeOK, DirsAgree, Dir
  <2>2. CASE d = [dir EXCEPT !.staging = TRUE]
    <3>1. dir.marker = None /\ LiveReadable(dir, v.bundle)
      BY DEF IndInv, TypeOK, DirsAgree, Agrees, RunKnows
    <3> QED
      BY <2>2, <3>1 DEF IndInv, TypeOK, Dir, DirsAgree, Agrees, LiveReadable, WalFits, Content
  <2> QED
    BY <2>1, <2>2
<1>3. SidecarNotAhead'
  BY DEF IndInv, SidecarNotAhead
<1>4. RunKnows(c)'
  BY DEF IndInv, TypeOK, Dir, RunKnows, BundlePcs, MaintPcs, Planning, Rewriting, Marking,
         Resuming, Swapping, Cleaning
<1> QED
  BY <1>0, <1>1, <1>2, <1>3, <1>4, HolderStep DEF Pcs, BundlePcs, MaintPcs
(* PublishMarker preserves the invariant: the published marker describes the
   staged candidate. *)
LEMMA PublishMarkerInv ==
  ASSUME IndInv, NEW c \in Clis, PublishMarker(c)
  PROVE  IndInv'
<1> USE DEF PublishMarker, Change, Goto, vaultVars
<1>0. HoldsRekeyLock(c) /\ HoldsBundleLock(c)
  BY DEF HoldsRekeyLock, HoldsBundleLock, BundlePcs, MaintPcs
<1>k. RunKnows(c)
  BY DEF IndInv
<1>1. TypeOK'
  <2>1. job[c] \in Marker
    BY <1>k DEF RunKnows
  <2> QED
    BY <2>1 DEF IndInv, TypeOK, Dir, Pcs, BundlePcs
<1>2. DirsAgree'
  <2> SUFFICES ASSUME NEW d \in exposed', NEW v \in vexposed'
               PROVE  Agrees(d, v.bundle)' /\ v.bundle.rev < nonce'
    BY DEF DirsAgree
  <2>1. CASE d \in exposed
    BY <2>1, AgreesKept DEF IndInv, TypeOK, DirsAgree, Dir
  <2>2. CASE d = [dir EXCEPT !.marker = job[c]]
    <3>1. dir.marker = None /\ LiveReadable(dir, v.bundle)
      BY <1>k DEF IndInv, TypeOK, DirsAgree, Agrees, RunKnows
    <3> QED
      BY <1>k, <2>2, <3>1, NoneIsNoFile
      DEF IndInv, TypeOK, Dir, DirsAgree, RunKnows, Agrees, LiveReadable, Binds, Staged, Discarded,
             LogGone, Swapped, WalFits, Content
  <2> QED
    BY <2>1, <2>2
<1>3. SidecarNotAhead'
  BY DEF IndInv, SidecarNotAhead
<1>4. RunKnows(c)'
  BY <1>k, NoneIsNoFile DEF IndInv, TypeOK, Dir, Staged, WalFits, Content, RunKnows, BundlePcs, MaintPcs, Planning,
         Rewriting, Marking, Resuming, Swapping, Cleaning
<1> QED
  BY <1>0, <1>1, <1>2, <1>3, <1>4, HolderStep DEF Pcs, BundlePcs, MaintPcs

(* UnlinkSidecars preserves the invariant: every bundle that may survive
   already carries the new key. *)
LEMMA UnlinkSidecarsInv ==
  ASSUME IndInv, NEW c \in Clis, UnlinkSidecars(c)
  PROVE  IndInv'
<1> USE DEF UnlinkSidecars, Change, Goto, vaultVars
<1>0. HoldsRekeyLock(c) /\ HoldsBundleLock(c)
  BY DEF HoldsRekeyLock, HoldsBundleLock, BundlePcs, MaintPcs
<1>k. RunKnows(c)
  BY DEF IndInv
<1>1. TypeOK'
  BY DEF IndInv, TypeOK, Dir, Pcs, BundlePcs
<1>2. DirsAgree'
  <2> SUFFICES ASSUME NEW d \in exposed', NEW v \in vexposed'
               PROVE  Agrees(d, v.bundle)' /\ v.bundle.rev < nonce'
    BY DEF DirsAgree
  <2>1. CASE d \in exposed
    BY <2>1, AgreesKept DEF IndInv, TypeOK, DirsAgree, Dir
  <2>2. CASE d = [dir EXCEPT !.wal = None]
    <3>1. /\ dir.marker = job[c] /\ job[c] \in Marker /\ dir.cand = job[c].cand
          /\ v.bundle = job[c].post /\ Agrees(dir, v.bundle) /\ v.bundle.rev < nonce
      BY <1>k DEF IndInv, TypeOK, DirsAgree, RunKnows, Swapping, Permitted, SwapAllowed
    <3>2. dir.db = job[c].old /\ dir.staging /\ Binds(job[c])
      BY <3>1, NoneIsNoFile DEF Agrees, Staged, Discarded, LogGone, Swapped, Marker
    <3> QED
      BY <2>2, <3>1, <3>2, NoneIsNoFile DEF IndInv, TypeOK, Dir, Agrees, Binds, LogGone
  <2> QED
    BY <2>1, <2>2
<1>3. SidecarNotAhead'
  BY DEF IndInv, SidecarNotAhead
<1>4. RunKnows(c)'
  BY <1>k, NoneIsNoFile DEF IndInv, TypeOK, Dir, Permitted, SwapAllowed, LogGone, Agrees, Staged, Discarded, Swapped, Marker, DirsAgree,
         RunKnows, BundlePcs, MaintPcs, Planning,
         Rewriting, Marking, Resuming, Swapping, Cleaning
<1> QED
  BY <1>0, <1>1, <1>2, <1>3, <1>4, HolderStep DEF Pcs, BundlePcs, MaintPcs

(* RenameCandidate preserves the invariant. *)
LEMMA RenameCandidateInv ==
  ASSUME IndInv, NEW c \in Clis, RenameCandidate(c)
  PROVE  IndInv'
<1> USE DEF RenameCandidate, Change, Goto, vaultVars
<1>0. HoldsRekeyLock(c) /\ HoldsBundleLock(c)
  BY DEF HoldsRekeyLock, HoldsBundleLock, BundlePcs, MaintPcs
<1>k. RunKnows(c)
  BY DEF IndInv
<1>1. TypeOK'
  <2>1. dir.cand \in File
    BY <1>k DEF RunKnows, Swapping, LogGone, Marker
  <2> QED
    BY <2>1 DEF IndInv, TypeOK, Dir, Pcs, BundlePcs
<1>2. DirsAgree'
  <2> SUFFICES ASSUME NEW d \in exposed', NEW v \in vexposed'
               PROVE  Agrees(d, v.bundle)' /\ v.bundle.rev < nonce'
    BY DEF DirsAgree
  <2>1. CASE d \in exposed
    BY <2>1, AgreesKept DEF IndInv, TypeOK, DirsAgree, Dir
  <2>2. CASE d = [dir EXCEPT !.db = dir.cand, !.cand = None]
    <3>1. /\ dir.marker = job[c] /\ job[c] \in Marker /\ LogGone(dir, job[c])
          /\ v.bundle = job[c].post /\ Agrees(dir, v.bundle) /\ v.bundle.rev < nonce
      BY <1>k DEF IndInv, TypeOK, DirsAgree, RunKnows, Swapping
    <3> QED
      BY <2>2, <3>1, NoneIsNoFile
      DEF IndInv, TypeOK, Dir, Agrees, Binds, LogGone, Swapped
  <2> QED
    BY <2>1, <2>2
<1>3. SidecarNotAhead'
  BY DEF IndInv, SidecarNotAhead
<1>4. RunKnows(c)'
  BY <1>k, NoneIsNoFile DEF IndInv, TypeOK, Dir, Swapped, LogGone, RunKnows, BundlePcs, MaintPcs, Planning,
         Rewriting, Marking, Resuming, Swapping, Cleaning
<1> QED
  BY <1>0, <1>1, <1>2, <1>3, <1>4, HolderStep DEF Pcs, BundlePcs, MaintPcs

(* RemoveStaging preserves the invariant. *)
LEMMA RemoveStagingInv ==
  ASSUME IndInv, NEW c \in Clis, RemoveStaging(c)
  PROVE  IndInv'
<1> USE DEF RemoveStaging, Change, Goto, vaultVars
<1>0. HoldsRekeyLock(c) /\ HoldsBundleLock(c)
  BY DEF HoldsRekeyLock, HoldsBundleLock, BundlePcs, MaintPcs
<1>k. RunKnows(c)
  BY DEF IndInv
<1>1. TypeOK'
  BY DEF IndInv, TypeOK, Dir, Pcs, BundlePcs
<1>2. DirsAgree'
  <2> SUFFICES ASSUME NEW d \in exposed', NEW v \in vexposed'
               PROVE  Agrees(d, v.bundle)' /\ v.bundle.rev < nonce'
    BY DEF DirsAgree
  <2>1. CASE d \in exposed
    BY <2>1, AgreesKept DEF IndInv, TypeOK, DirsAgree, Dir
  <2>2. CASE d = [dir EXCEPT !.staging = FALSE]
    <3>1. dir.marker = job[c] /\ job[c] \in Marker /\ dir.cand = None
      BY <1>k DEF RunKnows, Permitted, FinishAllowed, Cleaning
    <3>2. Agrees(dir, v.bundle) /\ v.bundle.rev < nonce
      BY DEF IndInv, TypeOK, DirsAgree
    <3> QED
      BY <2>2, <3>1, <3>2, NoneIsNoFile
      DEF IndInv, TypeOK, Dir, Marker, Agrees, LiveReadable, Binds, Staged, Discarded,
             LogGone, Swapped, WalFits, Content
  <2> QED
    BY <2>1, <2>2
<1>3. SidecarNotAhead'
  BY DEF IndInv, SidecarNotAhead
<1>4. RunKnows(c)'
  BY <1>k, NoneIsNoFile DEF IndInv, TypeOK, Dir, Permitted, FinishAllowed, RunKnows, BundlePcs, MaintPcs, Planning,
         Rewriting, Marking, Resuming, Swapping, Cleaning
<1> QED
  BY <1>0, <1>1, <1>2, <1>3, <1>4, HolderStep DEF Pcs, BundlePcs, MaintPcs

(* UnlinkMarker preserves the invariant: without the fence the live database
   opens with the key of every bundle that may survive. *)
LEMMA UnlinkMarkerInv ==
  ASSUME IndInv, NEW c \in Clis, UnlinkMarker(c)
  PROVE  IndInv'
<1> USE DEF UnlinkMarker, Change, Goto, vaultVars
<1>0. HoldsRekeyLock(c) /\ HoldsBundleLock(c)
  BY DEF HoldsRekeyLock, HoldsBundleLock, BundlePcs, MaintPcs
<1>k. RunKnows(c)
  BY DEF IndInv
<1>1. TypeOK'
  BY DEF IndInv, TypeOK, Dir, Pcs, BundlePcs
<1>2. DirsAgree'
  <2> SUFFICES ASSUME NEW d \in exposed', NEW v \in vexposed'
               PROVE  Agrees(d, v.bundle)' /\ v.bundle.rev < nonce'
    BY DEF DirsAgree
  <2>1. CASE d \in exposed
    BY <2>1, AgreesKept DEF IndInv, TypeOK, DirsAgree, Dir
  <2>2. CASE d = [dir EXCEPT !.marker = None]
    <3>1. dir.marker = job[c] /\ job[c] \in Marker /\ dir.cand = None
      BY <1>k DEF RunKnows, Cleaning
    <3>2. Agrees(dir, v.bundle) /\ v.bundle.rev < nonce
      BY DEF IndInv, TypeOK, DirsAgree
    <3> QED
      BY <2>2, <3>1, <3>2, NoneIsNoFile
      DEF IndInv, TypeOK, Dir, Marker, Agrees, LiveReadable, Binds, Staged, Discarded,
             LogGone, Swapped, WalFits, Content
  <2> QED
    BY <2>1, <2>2
<1>3. SidecarNotAhead'
  BY DEF IndInv, SidecarNotAhead
<1>4. RunKnows(c)'
  BY <1>k, NoneIsNoFile DEF IndInv, TypeOK, Dir, RunKnows, BundlePcs, MaintPcs, Planning,
         Rewriting, Marking, Resuming, Swapping, Cleaning
<1> QED
  BY <1>0, <1>1, <1>2, <1>3, <1>4, HolderStep DEF Pcs, BundlePcs, MaintPcs

(* RollBack preserves the invariant: the bundle is the one before the
   transition, so the candidate is not needed. *)
LEMMA RollBackInv ==
  ASSUME IndInv, NEW c \in Clis, RollBack(c)
  PROVE  IndInv'
<1> USE DEF RollBack, Change, Goto, vaultVars
<1>0. HoldsRekeyLock(c) /\ HoldsBundleLock(c)
  BY DEF HoldsRekeyLock, HoldsBundleLock, BundlePcs, MaintPcs
<1>k. RunKnows(c)
  BY DEF IndInv
<1>1. TypeOK'
  BY DEF IndInv, TypeOK, Dir, Pcs, BundlePcs
<1>2. DirsAgree'
  <2> SUFFICES ASSUME NEW d \in exposed', NEW v \in vexposed'
               PROVE  Agrees(d, v.bundle)' /\ v.bundle.rev < nonce'
    BY DEF DirsAgree
  <2>1. CASE d \in exposed
    BY <2>1, AgreesKept DEF IndInv, TypeOK, DirsAgree, Dir
  <2>2. CASE d = [dir EXCEPT !.cand = None]
    <3>1. /\ dir.marker = job[c] /\ job[c] \in Marker /\ dir.db = job[c].old
          /\ v.bundle = job[c].pre
      BY <1>k DEF IndInv, TypeOK, RunKnows, Resuming, Permitted, BackAllowed, RollsBack
    <3>2. Agrees(dir, v.bundle) /\ v.bundle.rev < nonce
      BY DEF IndInv, TypeOK, DirsAgree
    <3> QED
      BY <2>2, <3>1, <3>2, NoneIsNoFile
      DEF IndInv, TypeOK, Dir, Marker, Agrees, LiveReadable, Binds, Staged, Discarded,
             LogGone, Swapped, WalFits, Content
  <2> QED
    BY <2>1, <2>2
<1>3. SidecarNotAhead'
  BY DEF IndInv, SidecarNotAhead
<1>4. RunKnows(c)'
  BY <1>k, NoneIsNoFile DEF IndInv, TypeOK, Dir, RunKnows, BundlePcs, MaintPcs, Planning,
         Rewriting, Marking, Resuming, Swapping, Cleaning
<1> QED
  BY <1>0, <1>1, <1>2, <1>3, <1>4, HolderStep DEF Pcs, BundlePcs, MaintPcs
(* StageCandidate preserves the invariant: the candidate holds every write *)
(* committed so far.                                                       *)
LEMMA StageCandidateInv ==
  ASSUME IndInv, NEW c \in Clis, StageCandidate(c)
  PROVE  IndInv'
<1> DEFINE x == [dek |-> job[c].post.dek, val |-> Content(dir), id |-> job[c].post.rev]
<1> USE DEF StageCandidate, Change, Goto, vaultVars
<1>0. HoldsRekeyLock(c) /\ HoldsBundleLock(c)
  BY DEF HoldsRekeyLock, HoldsBundleLock, BundlePcs, MaintPcs
<1>k. RunKnows(c)
  BY DEF IndInv
<1>a. /\ dir.marker = None /\ dir.staging
      /\ job[c].pre \in Bundle /\ job[c].post \in Bundle /\ job[c].pre = vault.bundle
      /\ job[c].post.rev < nonce /\ job[c].pre.rev # job[c].post.rev
      /\ dir.db.dek = job[c].pre.dek
  BY <1>k DEF RunKnows, Planning, BundlePcs, MaintPcs, Permitted
<1>b. \A v \in vexposed : LiveReadable(dir, v.bundle) /\ v.bundle.rev < nonce
  BY <1>a DEF IndInv, TypeOK, DirsAgree, Agrees
<1>c. Content(dir) = committed /\ WalFits(dir) /\ vault.bundle.rev < nonce
  BY <1>b DEF IndInv, TypeOK, LiveReadable
<1>d. x \in File /\ x.dek = job[c].post.dek /\ x.val = committed /\ dir.db \in File
  BY <1>a, <1>c DEF IndInv, TypeOK, Dir, File, Bundle
<1>e. /\ dir' = [dir EXCEPT !.cand = x] /\ exposed' = exposed \cup {dir'}
      /\ job'[c] = [cand |-> x, old |-> dir.db, pre |-> job[c].pre, post |-> job[c].post]
      /\ \A e \in Clis : e # c => job'[e] = job[e]
  BY ZenonT(40) DEF IndInv, TypeOK, Job
<1> HIDE DEF x
<1>1. TypeOK'
  <2>1. dir' \in Dir
    BY <1>d, <1>e DEF IndInv, TypeOK, Dir
  <2>2. job' \in [Clis -> Job]
    BY <1>a, <1>d, <1>e DEF IndInv, TypeOK, Dir, Job
  <2> QED
    BY <2>1, <2>2 DEF IndInv, TypeOK, Pcs, BundlePcs
<1>2. DirsAgree'
  <2> SUFFICES ASSUME NEW d \in exposed', NEW v \in vexposed'
               PROVE  Agrees(d, v.bundle)' /\ v.bundle.rev < nonce'
    BY DEF DirsAgree
  <2>1. CASE d \in exposed
    BY <2>1, AgreesKept DEF IndInv, TypeOK, DirsAgree, Dir
  <2>2. CASE d = dir'
    BY <1>a, <1>b, <1>e, <2>2 DEF IndInv, TypeOK, Dir, Agrees, LiveReadable, WalFits, Content
  <2> QED
    BY <1>e, <2>1, <2>2
<1>3. SidecarNotAhead'
  BY SMTT(30) DEF IndInv, SidecarNotAhead
<1>4. RunKnows(c)'
  <2>1. job'[c] \in Marker
    <3> HIDE DEF StageCandidate, Change, Goto, vaultVars
    <3>1. [cand |-> x, old |-> dir.db, pre |-> job[c].pre, post |-> job[c].post] \in Marker
      BY <1>a, <1>d DEF Marker
    <3> QED
      BY <1>e, <3>1
  <2>2. Binds(job[c])'
    BY <1>a, <1>c, <1>d, <1>e DEF Binds
  <2>3. Staged(dir, job[c])'
    BY <1>a, <1>c, <1>e DEF IndInv, TypeOK, Dir, Staged, WalFits, Content
  <2>4. dir'.marker = None
    BY <1>a, <1>e DEF IndInv, TypeOK, Dir
  <2> QED
    BY <1>k, <1>a, <1>e, <2>1, <2>2, <2>3, <2>4 DEF IndInv, TypeOK, RunKnows, BundlePcs, MaintPcs, Planning,
         Rewriting, Marking, Resuming, Swapping, Cleaning
<1> QED
  BY <1>0, <1>1, <1>2, <1>3, <1>4, HolderStep DEF Pcs, BundlePcs, MaintPcs

(* CommitBundle preserves the invariant: at the commit point the marker is *)
(* durable and the candidate in place, so either bundle is good.           *)
LEMMA CommitBundleInv ==
  ASSUME IndInv, NEW c \in Clis, CommitBundle(c)
  PROVE  IndInv'
<1> USE DEF CommitBundle, Store, Goto, fsVars
<1>0. HoldsRekeyLock(c) /\ HoldsBundleLock(c)
  BY DEF HoldsRekeyLock, HoldsBundleLock, BundlePcs, MaintPcs
<1>k. RunKnows(c)
  BY DEF IndInv
<1>a. /\ job[c] \in Marker /\ job[c].pre = vault.bundle /\ job[c].post \in Bundle
      /\ job[c].pre.epoch <= job[c].post.epoch /\ job[c].post.rev < nonce
      /\ exposed = {dir} /\ dir.marker = job[c] /\ Staged(dir, job[c])
  BY <1>k DEF RunKnows, Planning, Marking, BundlePcs, MaintPcs
<1>1. TypeOK'
  BY <1>a DEF IndInv, TypeOK, Vault, Pcs, BundlePcs
<1>2. DirsAgree'
  <2> SUFFICES ASSUME NEW d \in exposed', NEW v \in vexposed'
               PROVE  Agrees(d, v.bundle)' /\ v.bundle.rev < nonce'
    BY <1>1 DEF DirsAgree, TypeOK
  <2>1. CASE v \in vexposed
    BY <2>1, AgreesKept DEF IndInv, TypeOK, DirsAgree, Dir
  <2>2. CASE v = [vault EXCEPT !.bundle = job[c].post]
    <3>1. d = dir /\ v.bundle = job[c].post /\ Binds(job[c])
      BY <1>a, <2>2, NoneIsNoFile DEF IndInv, TypeOK, Vault, DirsAgree, Agrees
    <3> QED
      BY <1>a, <2>2, <3>1, NoneIsNoFile DEF Agrees, Binds, Staged, WalFits, Content
  <2> QED
    BY <2>1, <2>2
<1>3. SidecarNotAhead'
  <2>1. vault.seen \in Nat /\ vault.bundle \in Bundle /\ vault.seen <= vault.bundle.epoch
    BY DEF IndInv, TypeOK, Vault, SidecarNotAhead
  <2> QED
    BY <1>a, <2>1 DEF IndInv, TypeOK, Vault, SidecarNotAhead, Bundle
<1>4. RunKnows(c)'
  BY <1>k, <1>a DEF IndInv, TypeOK, Vault, Staged, WalFits, Content, RunKnows, BundlePcs, MaintPcs, Planning,
         Rewriting, Marking, Resuming, Swapping, Cleaning
<1> QED
  BY <1>0, <1>1, <1>2, <1>3, <1>4, HolderStep DEF Pcs, BundlePcs, MaintPcs

(* The sidecar writes of a fresh run and of a recovery preserve the        *)
(* invariant: they leave the bundle alone and record an epoch it has.      *)
LEMMA SidecarWriteInv ==
  ASSUME IndInv, NEW c \in Clis, WriteEpochSidecar(c) \/ ResumeSidecar(c)
  PROVE  IndInv'
<1> USE DEF Store, Goto, fsVars
<1>0. HoldsRekeyLock(c) /\ HoldsBundleLock(c)
  BY DEF HoldsRekeyLock, HoldsBundleLock, BundlePcs, MaintPcs, WriteEpochSidecar, ResumeSidecar
<1>k. RunKnows(c)
  BY DEF IndInv
<1>a. /\ vault' = [vault EXCEPT !.seen = vault.bundle.epoch]
      /\ vexposed' = vexposed \cup {vault'}
  BY <1>k DEF WriteEpochSidecar, ResumeSidecar, RunKnows, Rewriting
<1>b. vault'.bundle = vault.bundle /\ vault'.seen = vault.bundle.epoch /\ vault' \in Vault
  BY <1>a DEF IndInv, TypeOK, Vault, Bundle
<1>c. UNCHANGED <<fsVars, job, agent, committed, nonce>>
  BY DEF WriteEpochSidecar, ResumeSidecar
<1>1. TypeOK'
  BY <1>a, <1>b, <1>c DEF IndInv, TypeOK, Pcs, BundlePcs, WriteEpochSidecar, ResumeSidecar
<1>2. DirsAgree'
  <2> SUFFICES ASSUME NEW d \in exposed', NEW v \in vexposed'
               PROVE  Agrees(d, v.bundle)' /\ v.bundle.rev < nonce'
    BY <1>1 DEF DirsAgree, TypeOK
  <2>1. Agrees(d, v.bundle) /\ v.bundle.rev < nonce
    BY <1>a, <1>b, <1>c DEF IndInv, TypeOK, DirsAgree
  <2> QED
    BY <2>1, <1>c, AgreesKept DEF IndInv, TypeOK, Dir
<1>3. SidecarNotAhead'
  BY <1>a, <1>b DEF IndInv, TypeOK, Vault, Bundle, SidecarNotAhead
<1>4. CASE WriteEpochSidecar(c)
  <2>a. /\ job[c] \in Marker /\ dir.marker = job[c] /\ Staged(dir, job[c]) /\ exposed = {dir}
        /\ job[c].pre \in Bundle /\ job[c].post \in Bundle
        /\ \A v \in vexposed : v.bundle = job[c].post
    BY <1>4, <1>k DEF WriteEpochSidecar, RunKnows, Marking, BundlePcs, MaintPcs
  <2>b. \A v \in vexposed' : v.bundle = job'[c].post
    BY <2>a, <1>a, <1>b, <1>c DEF IndInv, TypeOK
  <2>1. RunKnows(c)'
    BY <1>4, <2>a, <2>b, <1>b, <1>c
    DEF IndInv, TypeOK, WriteEpochSidecar, Staged, WalFits, Content, RunKnows, BundlePcs, MaintPcs, Planning,
         Rewriting, Marking, Resuming, Swapping, Cleaning
  <2> QED
    BY <1>0, <1>1, <1>2, <1>3, <1>4, <2>1, HolderStep
    DEF WriteEpochSidecar, Pcs, BundlePcs, MaintPcs
<1>5. CASE ResumeSidecar(c)
  <2>1. RunKnows(c)'
    BY <1>5, <1>k, <1>a, <1>b, <1>c DEF IndInv, TypeOK, ResumeSidecar, RunKnows, BundlePcs, MaintPcs, Planning,
         Rewriting, Marking, Resuming, Swapping, Cleaning
  <2> QED
    BY <1>0, <1>1, <1>2, <1>3, <1>5, <2>1, HolderStep
    DEF ResumeSidecar, Pcs, BundlePcs, MaintPcs
<1> QED
  BY <1>4, <1>5

(* RollForward preserves the invariant: it only selects the next step. *)
LEMMA RollForwardInv ==
  ASSUME IndInv, NEW c \in Clis, RollForward(c)
  PROVE  IndInv'
<1> USE DEF RollForward, Goto, fsVars, vaultVars
<1>0. HoldsRekeyLock(c) /\ HoldsBundleLock(c)
  BY DEF HoldsRekeyLock, HoldsBundleLock, BundlePcs, MaintPcs
<1>k. RunKnows(c)
  BY DEF IndInv
<1>a. /\ job[c] \in Marker /\ dir.marker = job[c] /\ vexposed = {vault}
      /\ vault.bundle = job[c].post
  BY <1>k DEF RunKnows, Resuming, RollsBack
<1>2. DirsAgree'
  BY AgreesKept DEF IndInv, TypeOK, DirsAgree, Dir
<1>3. SidecarNotAhead'
  BY DEF IndInv, SidecarNotAhead
<1>4. PICK l \in {"swap", "finish"} : pc' = [pc EXCEPT ![c] = l]
  BY DEF RollForward
<1>5. TypeOK'
  BY <1>4 DEF IndInv, TypeOK, Pcs, BundlePcs
<1>6. RunKnows(c)'
  BY <1>k, <1>a, <1>4 DEF IndInv, TypeOK, RunKnows, BundlePcs, MaintPcs, Planning,
         Rewriting, Marking, Resuming, Swapping, Cleaning
<1> QED
  BY <1>0, <1>2, <1>3, <1>4, <1>5, <1>6, HolderStep DEF Pcs, BundlePcs, MaintPcs

(* Where the fsyncs lead. *)
LEMMA DirSyncSteps ==
  /\ DOMAIN DirSync = {"published", "unlinked", "renamed", "unstaged", "rb_unlinked"}
  /\ DirSync["published"] = "commit" /\ DirSync["unlinked"] = "rename"
  /\ DirSync["renamed"] = "finish" /\ DirSync["unstaged"] = "unmark"
  /\ DirSync["rb_unlinked"] = "rb_rmdir"
  BY DEF DirSync

(* The same for the bundle's directory. *)
LEMMA VaultSyncSteps ==
  /\ DOMAIN VaultSync = {"committed", "sidecar_written", "r_written", "m_written"}
  /\ VaultSync["committed"] = "sidecar" /\ VaultSync["sidecar_written"] = "swap"
  /\ VaultSync["r_written"] = "r_act" /\ VaultSync["m_written"] = "m_sidecar"
  BY DEF VaultSync

(* SyncDir preserves the invariant. *)
LEMMA SyncDirInv ==
  ASSUME IndInv, NEW c \in Clis, SyncDir(c)
  PROVE  IndInv'
<1> USE DEF SyncDir, Goto, vaultVars
<1>k. RunKnows(c)
  BY DEF IndInv
<1>p. PICK l : /\ pc' = [pc EXCEPT ![c] = l]
               /\ \/ l = "commit" /\ pc[c] = "published"
                  \/ l = "rename" /\ pc[c] = "unlinked"
                  \/ l = "finish" /\ pc[c] = "renamed"
                  \/ l = "unmark" /\ pc[c] = "unstaged"
                  \/ l = "rb_rmdir" /\ pc[c] = "rb_unlinked"
  BY DirSyncSteps
<1>0. HoldsRekeyLock(c) /\ HoldsBundleLock(c)
  BY <1>p DEF HoldsRekeyLock, HoldsBundleLock, BundlePcs, MaintPcs
<1>1. TypeOK'
  BY <1>p DEF IndInv, TypeOK, Pcs, BundlePcs
<1>2. DirsAgree'
  <2> SUFFICES ASSUME NEW v \in vexposed'
               PROVE  Agrees(dir, v.bundle)' /\ v.bundle.rev < nonce'
    BY DEF DirsAgree
  <2>1. Agrees(dir, v.bundle) /\ v.bundle.rev < nonce
    BY DEF IndInv, TypeOK, DirsAgree
  <2> QED
    BY <2>1 DEF Agrees, LiveReadable, Binds, Staged, Discarded, LogGone, Swapped,
                WalFits, Content
<1>3. SidecarNotAhead'
  BY DEF IndInv, SidecarNotAhead
<1>4. RunKnows(c)'
  <2>1. /\ pc'[c] = l /\ job'[c] = job[c] /\ exposed' = {dir} /\ dir' = dir
        /\ vault' = vault /\ vexposed' = vexposed /\ nonce' = nonce
        /\ committed' = committed
    BY <1>p DEF IndInv, TypeOK
  <2>2. /\ Staged(dir, job[c])' = Staged(dir, job[c])
        /\ LogGone(dir, job[c])' = LogGone(dir, job[c])
    BY <2>1 DEF Staged, LogGone, WalFits, Content
  <2> HIDE DEF SyncDir
  <2> QED
    BY <1>k, <1>p, <2>1, <2>2 DEF RunKnows, BundlePcs, MaintPcs, Planning,
         Rewriting, Marking, Resuming, Swapping, Cleaning
<1> QED
  BY <1>0, <1>1, <1>2, <1>3, <1>4, <1>p, HolderStep DEF Pcs, BundlePcs, MaintPcs

(* SyncAndExit preserves the invariant. *)
LEMMA SyncAndExitInv ==
  ASSUME IndInv, NEW c \in Clis, SyncAndExit(c)
  PROVE  IndInv'
<1> USE DEF SyncAndExit, Exit, vaultVars
<1>0. HoldsRekeyLock(c) /\ HoldsBundleLock(c)
  BY DEF HoldsRekeyLock, HoldsBundleLock, BundlePcs, MaintPcs
<1>1. TypeOK'
  BY NoneIsNoFile DEF IndInv, TypeOK, Pcs, NoJob, Job
<1>2. DirsAgree'
  <2> SUFFICES ASSUME NEW v \in vexposed'
               PROVE  Agrees(dir, v.bundle)' /\ v.bundle.rev < nonce'
    BY DEF DirsAgree
  <2>1. Agrees(dir, v.bundle) /\ v.bundle.rev < nonce
    BY DEF IndInv, TypeOK, DirsAgree
  <2> QED
    BY <2>1 DEF Agrees, LiveReadable, Binds, Staged, Discarded, LogGone, Swapped,
                WalFits, Content
<1>3. SidecarNotAhead'
  BY DEF IndInv, SidecarNotAhead
<1>4. RunKnows(c)'
  BY IdleKnowsNext DEF IndInv, TypeOK
<1> QED
  BY <1>0, <1>1, <1>2, <1>3, <1>4, HolderStep DEF Pcs, BundlePcs, MaintPcs

(* SyncVault preserves the invariant. *)
LEMMA SyncVaultInv ==
  ASSUME IndInv, NEW c \in Clis, SyncVault(c)
  PROVE  IndInv'
<1> USE DEF SyncVault, Goto, fsVars
<1>k. RunKnows(c)
  BY DEF IndInv
<1>p. PICK l : /\ pc' = [pc EXCEPT ![c] = l]
               /\ \/ l = "sidecar" /\ pc[c] = "committed"
                  \/ l = "swap" /\ pc[c] = "sidecar_written"
                  \/ l = "r_act" /\ pc[c] = "r_written"
                  \/ l = "m_sidecar" /\ pc[c] = "m_written"
  BY VaultSyncSteps
<1>1. TypeOK'
  BY <1>p DEF IndInv, TypeOK, Pcs, BundlePcs, MaintPcs
<1>2. DirsAgree'
  <2> SUFFICES ASSUME NEW d \in exposed'
               PROVE  Agrees(d, vault.bundle)' /\ vault'.bundle.rev < nonce'
    BY <1>1 DEF DirsAgree, TypeOK
  <2>1. Agrees(d, vault.bundle) /\ vault.bundle.rev < nonce
    BY DEF IndInv, TypeOK, DirsAgree
  <2> QED
    BY <2>1 DEF Agrees, LiveReadable, Binds, Staged, Discarded, LogGone, Swapped,
                WalFits, Content
<1>3. SidecarNotAhead'
  BY DEF IndInv, TypeOK, SidecarNotAhead
<1>4. RunKnows(c)'
  <2>1. /\ pc'[c] = l /\ job'[c] = job[c] /\ exposed' = exposed /\ dir' = dir
        /\ vault' = vault /\ vexposed' = {vault} /\ nonce' = nonce
        /\ committed' = committed
    BY <1>p DEF IndInv, TypeOK
  <2>2. Staged(dir, job[c])' = Staged(dir, job[c])
    BY <2>1 DEF Staged, WalFits, Content
  <2> HIDE DEF SyncVault
  <2> QED
    BY <1>k, <1>p, <2>1, <2>2 DEF RunKnows, BundlePcs, MaintPcs, Planning,
         Rewriting, Marking, Resuming, Swapping, Cleaning
<1>5. CASE l = "m_sidecar"
  <2>1. HoldsBundleLock(c) /\ pc[c] \in MaintPcs
    BY <1>p, <1>5 DEF HoldsBundleLock, BundlePcs, MaintPcs
  <2> QED
    BY <1>1, <1>2, <1>3, <1>4, <1>5, <1>p, <2>1, MaintStep
    DEF IndInv, LocksExclude, MaintPcs
<1>6. CASE l # "m_sidecar"
  <2>1. HoldsRekeyLock(c) /\ HoldsBundleLock(c)
    BY <1>p, <1>6 DEF HoldsRekeyLock, HoldsBundleLock, BundlePcs, MaintPcs
  <2> QED
    BY <1>1, <1>2, <1>3, <1>4, <1>6, <1>p, <2>1, HolderStep DEF Pcs, BundlePcs, MaintPcs
<1> QED
  BY <1>5, <1>6

(* A failed step preserves the invariant: it leaves the directories as they *)
(* are, or clears the staging directory of a run with no marker yet.       *)
LEMMA AbandonInv ==
  ASSUME IndInv, NEW c \in Clis, Abandon(c)
  PROVE  IndInv'
<1>1. CASE pc[c] = "stage"
  <2> USE <1>1 DEF Abandon, Exit, vaultVars
  <2>0. HoldsRekeyLock(c) /\ HoldsBundleLock(c)
    BY DEF HoldsRekeyLock, HoldsBundleLock, BundlePcs, MaintPcs
  <2>1. TypeOK'
    <3>1. dir' \in Dir /\ exposed' = {dir'}
      BY DEF IndInv, TypeOK, Dir
    <3>2. job' \in [Clis -> Job]
      BY DEF IndInv, TypeOK, NoJob, Job
    <3> QED
      BY <3>1, <3>2 DEF IndInv, TypeOK, Pcs
  <2>2. DirsAgree'
    <3> SUFFICES ASSUME NEW v \in vexposed'
                 PROVE  Agrees(dir, v.bundle)' /\ v.bundle.rev < nonce'
      BY DEF DirsAgree
    <3>1. dir.marker = None /\ Agrees(dir, v.bundle) /\ v.bundle.rev < nonce
      BY DEF IndInv, TypeOK, DirsAgree, RunKnows
    <3> QED
      BY <3>1 DEF IndInv, TypeOK, Dir, Agrees, LiveReadable, WalFits, Content
  <2>3. SidecarNotAhead'
    BY DEF IndInv, SidecarNotAhead
  <2>4. RunKnows(c)'
    BY IdleKnowsNext DEF IndInv, TypeOK
  <2> QED
    BY <2>0, <2>1, <2>2, <2>3, <2>4, HolderStep DEF Pcs, BundlePcs, MaintPcs
<1>2. CASE pc[c] # "stage"
  BY <1>2, ExitStep DEF Abandon
<1> QED
  BY <1>1, <1>2

-----------------------------------------------------------------------------
(* Taking the locks. *)

(* A run that takes the rekey lock preserves the invariant. *)
LEMMA StartInv ==
  ASSUME IndInv, NEW c \in Clis, StartFresh(c) \/ StartResume(c)
  PROVE  IndInv'
<1> USE DEF Goto
<1>p. PICK l \in {"fresh", "resume"} : pc' = [pc EXCEPT ![c] = l]
  BY DEF StartFresh, StartResume
<1>a. /\ pc[c] = "idle" /\ RekeyLockFree /\ job' = job
      /\ UNCHANGED <<fsVars, vaultVars, agent, committed, nonce>>
  BY DEF StartFresh, StartResume
<1>1. TypeOK'
  BY <1>p, <1>a DEF IndInv, TypeOK, Pcs, fsVars, vaultVars
<1>2. LocksExclude'
  <2>1. \A e \in Clis : pc'[e] = IF e = c THEN l ELSE pc[e]
    BY <1>p DEF IndInv, TypeOK
  <2> QED
    BY <2>1, <1>a DEF IndInv, LocksExclude, RekeyLockFree, HoldsRekeyLock,
           HoldsBundleLock, HoldsStoreLock, HoldsStartupGuard, BundlePcs, MaintPcs
<1>3. DirsAgree' /\ SidecarNotAhead'
  BY <1>1, <1>a, DirsKept DEF IndInv, TypeOK
<1>4. ASSUME NEW e \in Clis PROVE RunKnows(e)'
  <2>1. CASE e = c
    BY <2>1, <1>p, IdleKnowsNext DEF IndInv, TypeOK
  <2>2. CASE e # c
    BY <2>2, <1>p, <1>a, RunKept DEF IndInv, TypeOK
  <2> QED
    BY <2>1, <2>2
<1>5. ASSUME NEW a \in Agents PROVE AgentKnows(a)'
  BY <1>a DEF IndInv, AgentKnows, fsVars
<1> QED
  BY <1>1, <1>2, <1>3, <1>4, <1>5 DEF IndInv

(* A run that holds the rekey lock and finds the bundle's free is alone. *)
LEMMA AloneOnEntry ==
  ASSUME IndInv, NEW c \in Clis, HoldsRekeyLock(c), BundleLockFree
  PROVE  /\ \A e \in Clis : e # c => pc[e] = "idle"
         /\ \A a \in Agents : agent[a].st = "down"
<1>1. ASSUME NEW e \in Clis, e # c PROVE pc[e] = "idle"
  BY <1>1 DEF IndInv, TypeOK, LocksExclude, HoldsRekeyLock, HoldsBundleLock, Pcs,
              BundlePcs, BundleLockFree
<1>2. ASSUME NEW a \in Agents PROVE agent[a].st = "down"
  BY DEF IndInv, TypeOK, LocksExclude, HoldsStoreLock, HoldsStartupGuard, AgentStates,
         BundleLockFree
<1> QED
  BY <1>1, <1>2

(* Prepare preserves the invariant. *)
LEMMA PrepareInv ==
  ASSUME IndInv, NEW c \in Clis, Prepare(c)
  PROVE  IndInv'
<1> USE DEF Prepare, Goto, fsVars, vaultVars
<1>0. HoldsRekeyLock(c) /\ BundleLockFree
  BY DEF HoldsRekeyLock, MaintPcs, FreshAllowed
<1>a. vault.bundle \in Bundle /\ vault.bundle.rev < nonce
  BY DEF IndInv, TypeOK, Vault, DirsAgree
<1>p. PICK k \in Deks : job' = [job EXCEPT ![c] =
        [cand |-> None, old |-> None, pre |-> vault.bundle,
         post |-> [epoch |-> vault.bundle.epoch + 1, dek |-> k, rev |-> nonce]]]
  BY DEF NoJob
<1>1. TypeOK'
  <2>1. [epoch |-> vault.bundle.epoch + 1, dek |-> k, rev |-> nonce] \in Bundle
    BY <1>a DEF IndInv, TypeOK, Bundle
  <2>2. job' \in [Clis -> Job]
    BY <1>a, <1>p, <2>1 DEF IndInv, TypeOK, Job
  <2> QED
    BY <2>2 DEF IndInv, TypeOK, Pcs, BundlePcs
<1>2. DirsAgree' /\ SidecarNotAhead'
  BY <1>1, DirsKept DEF IndInv, TypeOK
<1>3. RunKnows(c)'
  <2>1. /\ job'[c].pre = vault.bundle /\ job'[c].post.epoch = vault.bundle.epoch + 1
        /\ job'[c].post.rev = nonce /\ job'[c].post \in Bundle /\ pc'[c] = "mkdir"
    BY <1>a, <1>p DEF IndInv, TypeOK, Bundle
  <2>2. dir'.marker = None
    BY DEF FreshAllowed
  <2> QED
    BY <1>a, <2>1, <2>2 DEF IndInv, TypeOK, Bundle, RunKnows, BundlePcs, MaintPcs, Planning,
         Rewriting, Marking, Resuming, Swapping, Cleaning
<1> QED
  BY <1>0, <1>1, <1>2, <1>3, AloneOnEntry, SoloStep DEF Pcs, BundlePcs, MaintPcs

(* ReadMarker preserves the invariant. *)
LEMMA ReadMarkerInv ==
  ASSUME IndInv, NEW c \in Clis, ReadMarker(c)
  PROVE  IndInv'
<1> USE DEF ReadMarker, Goto, fsVars, vaultVars
<1>0. HoldsRekeyLock(c) /\ BundleLockFree
  BY DEF HoldsRekeyLock, MaintPcs, ResumeAllowed
<1>a. dir.marker \in Marker /\ vault.bundle \in {dir.marker.pre, dir.marker.post}
  BY DEF IndInv, TypeOK, Dir, ResumeAllowed, RollsBack, RollsForward
<1>1. TypeOK'
  <2>1. dir.marker \in Job
    BY <1>a DEF Marker, Job
  <2> QED
    BY <2>1 DEF IndInv, TypeOK, Pcs, BundlePcs
<1>2. DirsAgree' /\ SidecarNotAhead'
  BY <1>1, DirsKept DEF IndInv, TypeOK
<1>3. RunKnows(c)'
  <2>1. job'[c] = dir.marker /\ pc'[c] = "r_sidecar"
    BY DEF IndInv, TypeOK
  <2> QED
    BY <1>a, <2>1 DEF Marker, RunKnows, BundlePcs, MaintPcs, Planning,
         Rewriting, Marking, Resuming, Swapping, Cleaning
<1> QED
  BY <1>0, <1>1, <1>2, <1>3, AloneOnEntry, SoloStep DEF Pcs, BundlePcs, MaintPcs

-----------------------------------------------------------------------------
(* Bundle maintenance. *)

(* StartMaintenance preserves the invariant. *)
LEMMA StartMaintenanceInv ==
  ASSUME IndInv, NEW c \in Clis, StartMaintenance(c)
  PROVE  IndInv'
<1> USE DEF StartMaintenance, Goto, fsVars, vaultVars
<1>a. vault.bundle \in Bundle /\ vault.bundle.rev < nonce
  BY DEF IndInv, TypeOK, Vault, DirsAgree
<1>p. PICK step \in {0, 1} : job' = [job EXCEPT ![c] =
        [cand |-> None, old |-> None, pre |-> vault.bundle,
         post |-> [epoch |-> vault.bundle.epoch + step, dek |-> vault.bundle.dek,
                   rev |-> nonce]]]
  BY DEF NoJob
<1>b. [epoch |-> vault.bundle.epoch + step, dek |-> vault.bundle.dek, rev |-> nonce] \in Bundle
  BY <1>a DEF IndInv, TypeOK, Bundle
<1>1. TypeOK'
  <2>1. job' \in [Clis -> Job]
    BY <1>a, <1>b, <1>p DEF IndInv, TypeOK, Job
  <2> QED
    BY <2>1 DEF IndInv, TypeOK, Pcs, BundlePcs, MaintPcs
<1>2. DirsAgree' /\ SidecarNotAhead'
  BY <1>1, DirsKept DEF IndInv, TypeOK
<1>3. RunKnows(c)'
  <2>1. /\ job'[c].pre = vault.bundle /\ job'[c].post.epoch = vault.bundle.epoch + step
        /\ job'[c].post.rev = nonce /\ job'[c].post \in Bundle /\ pc'[c] = "m_write"
        /\ job'[c].post.dek = vault.bundle.dek
    BY <1>b, <1>p DEF IndInv, TypeOK
  <2>2. ASSUME NEW d \in exposed, d.marker # None
        PROVE  nonce \notin {d.marker.pre.rev, d.marker.post.rev}
    <3>1. Agrees(d, vault.bundle) /\ d.marker \in Marker
      BY <2>2 DEF IndInv, TypeOK, Dir, DirsAgree
    <3> QED
      BY <2>2, <3>1 DEF IndInv, TypeOK, Agrees, Binds, Marker, Bundle
  <2> QED
    BY <1>a, <2>1, <2>2 DEF IndInv, TypeOK, Bundle, RunKnows, BundlePcs, MaintPcs, Planning,
         Rewriting, Marking, Resuming, Swapping, Cleaning
<1> QED
  BY <1>1, <1>2, <1>3, MaintStep DEF BundleLockFree, MaintPcs

(* WriteMaintained preserves the invariant: the bundle keeps its key, and   *)
(* is neither the one before nor the one after a transition under way.     *)
LEMMA WriteMaintainedInv ==
  ASSUME IndInv, NEW c \in Clis, WriteMaintained(c)
  PROVE  IndInv'
<1> USE DEF WriteMaintained, Store, Goto, fsVars
<1>0. HoldsBundleLock(c)
  BY DEF HoldsBundleLock, BundlePcs, MaintPcs
<1>k. RunKnows(c)
  BY DEF IndInv
<1>a. /\ job[c].pre = vault.bundle /\ job[c].post \in Bundle
      /\ job[c].pre.epoch <= job[c].post.epoch /\ job[c].post.rev < nonce
      /\ job[c].post.dek = vault.bundle.dek
      /\ \A d \in exposed : d.marker # None =>
           job[c].post.rev \notin {d.marker.pre.rev, d.marker.post.rev}
  BY <1>k DEF RunKnows, Planning, BundlePcs, MaintPcs
<1>1. TypeOK'
  BY <1>a DEF IndInv, TypeOK, Vault, Pcs, BundlePcs, MaintPcs
<1>2. DirsAgree'
  <2> SUFFICES ASSUME NEW d \in exposed', NEW v \in vexposed'
               PROVE  Agrees(d, v.bundle)' /\ v.bundle.rev < nonce'
    BY <1>1 DEF DirsAgree, TypeOK
  <2>1. CASE v \in vexposed
    BY <2>1, AgreesKept DEF IndInv, TypeOK, DirsAgree, Dir
  <2>2. CASE v = [vault EXCEPT !.bundle = job[c].post]
    <3>1. v.bundle = job[c].post /\ Agrees(d, vault.bundle)
      BY <2>2 DEF IndInv, TypeOK, Vault, DirsAgree
    <3>2. Agrees(d, job[c].post)
      BY <1>a, <3>1 DEF Agrees, LiveReadable
    <3> QED
      BY <1>a, <3>1, <3>2, AgreesKept DEF IndInv, TypeOK, Dir
  <2> QED
    BY <2>1, <2>2
<1>3. SidecarNotAhead'
  <2>1. vault.seen \in Nat /\ vault.bundle \in Bundle /\ vault.seen <= vault.bundle.epoch
    BY DEF IndInv, TypeOK, Vault, SidecarNotAhead
  <2> QED
    BY <1>a, <2>1 DEF IndInv, TypeOK, Vault, SidecarNotAhead, Bundle
<1>4. RunKnows(c)'
  BY <1>k DEF IndInv, TypeOK, Vault, RunKnows, BundlePcs, MaintPcs, Planning,
         Rewriting, Marking, Resuming, Swapping, Cleaning
<1> QED
  BY <1>0, <1>1, <1>2, <1>3, <1>4, MaintStep DEF IndInv, LocksExclude, MaintPcs

(* WriteMaintSidecar preserves the invariant. *)
LEMMA WriteMaintSidecarInv ==
  ASSUME IndInv, NEW c \in Clis, WriteMaintSidecar(c)
  PROVE  IndInv'
<1> USE DEF WriteMaintSidecar, Store, Goto, fsVars
<1>0. HoldsBundleLock(c)
  BY DEF HoldsBundleLock, BundlePcs, MaintPcs
<1>k. RunKnows(c)
  BY DEF IndInv
<1>a. /\ vault' = [vault EXCEPT !.seen = vault.bundle.epoch]
      /\ vexposed' = vexposed \cup {vault'}
  BY <1>k DEF RunKnows, Rewriting
<1>b. vault'.bundle = vault.bundle /\ vault'.seen = vault.bundle.epoch /\ vault' \in Vault
  BY <1>a DEF IndInv, TypeOK, Vault, Bundle
<1>1. TypeOK'
  BY <1>a, <1>b DEF IndInv, TypeOK, Pcs, BundlePcs, MaintPcs
<1>2. DirsAgree'
  <2> SUFFICES ASSUME NEW d \in exposed', NEW v \in vexposed'
               PROVE  Agrees(d, v.bundle)' /\ v.bundle.rev < nonce'
    BY <1>1 DEF DirsAgree, TypeOK
  <2>1. Agrees(d, v.bundle) /\ v.bundle.rev < nonce
    BY <1>a, <1>b DEF IndInv, TypeOK, DirsAgree
  <2> QED
    BY <2>1, AgreesKept DEF IndInv, TypeOK, Dir
<1>3. SidecarNotAhead'
  BY <1>a, <1>b DEF IndInv, TypeOK, Vault, Bundle, SidecarNotAhead
<1>4. RunKnows(c)'
  BY <1>k, <1>b DEF IndInv, TypeOK, RunKnows, BundlePcs, MaintPcs, Planning,
         Rewriting, Marking, Resuming, Swapping, Cleaning
<1> QED
  BY <1>0, <1>1, <1>2, <1>3, <1>4, MaintStep DEF IndInv, LocksExclude, MaintPcs

(* EndMaintenance preserves the invariant. *)
LEMMA EndMaintenanceInv ==
  ASSUME IndInv, NEW c \in Clis, EndMaintenance(c)
  PROVE  IndInv'
<1> USE DEF EndMaintenance, Exit, fsVars
<1>0. HoldsBundleLock(c)
  BY DEF HoldsBundleLock, BundlePcs, MaintPcs
<1>1. TypeOK'
  BY NoneIsNoFile DEF IndInv, TypeOK, NoJob, Job, Pcs
<1>2. DirsAgree'
  <2> SUFFICES ASSUME NEW d \in exposed'
               PROVE  Agrees(d, vault.bundle)' /\ vault'.bundle.rev < nonce'
    BY <1>1 DEF DirsAgree, TypeOK
  <2>1. Agrees(d, vault.bundle) /\ vault.bundle.rev < nonce
    BY DEF IndInv, TypeOK, DirsAgree
  <2> QED
    BY <2>1 DEF Agrees, LiveReadable, Binds, Staged, Discarded, LogGone, Swapped,
                WalFits, Content
<1>3. SidecarNotAhead'
  BY DEF IndInv, TypeOK, SidecarNotAhead
<1>4. RunKnows(c)'
  BY IdleKnowsNext DEF IndInv, TypeOK
<1> QED
  BY <1>0, <1>1, <1>2, <1>3, <1>4, MaintStep DEF IndInv, LocksExclude, MaintPcs

-----------------------------------------------------------------------------
(* The broker and the faults. *)

(* Unlock preserves the invariant: the sidecar catches up with the bundle. *)
LEMMA UnlockInv ==
  ASSUME IndInv, NEW a \in Agents, Unlock(a)
  PROVE  IndInv'
<1> USE DEF Unlock, SetAgent, fsVars, vaultVars, cliVars
<1>a. /\ vault'.bundle = vault.bundle /\ vault' \in Vault /\ vault'.seen <= vault'.bundle.epoch
      /\ \A v \in vexposed' : v = vault' \/ v \in vexposed
      /\ vault' \in vexposed'
  BY DEF IndInv, TypeOK, Vault, Bundle
<1>1. TypeOK'
  <2>1. vault.bundle.dek \in Deks
    BY DEF IndInv, TypeOK, Vault, Bundle
  <2> QED
    BY <1>a, <2>1 DEF IndInv, TypeOK, AgentStates
<1>2. LocksExclude'
  <2>1. \A b \in Agents : agent'[b].st = IF b = a THEN "unlocked" ELSE agent[b].st
    BY DEF IndInv, TypeOK
  <2> QED
    BY <2>1 DEF IndInv, LocksExclude, HoldsRekeyLock, HoldsBundleLock,
           HoldsStoreLock, HoldsStartupGuard
<1>3. DirsAgree'
  <2> SUFFICES ASSUME NEW d \in exposed', NEW v \in vexposed'
               PROVE  Agrees(d, v.bundle)' /\ v.bundle.rev < nonce'
    BY <1>1 DEF DirsAgree, TypeOK
  <2>1. Agrees(d, v.bundle) /\ v.bundle.rev < nonce
    BY <1>a DEF IndInv, TypeOK, DirsAgree
  <2> QED
    BY <2>1, AgreesKept DEF IndInv, TypeOK, Dir
<1>4. SidecarNotAhead'
  BY <1>a DEF IndInv, SidecarNotAhead
<1>5. ASSUME NEW c \in Clis PROVE RunKnows(c)'
  BY IdleKnowsNext DEF IndInv, TypeOK, Pcs, HoldsBundleLock
<1>6. ASSUME NEW b \in Agents PROVE AgentKnows(b)'
  BY DEF IndInv, TypeOK, AgentKnows
<1> QED
  BY <1>1, <1>2, <1>3, <1>4, <1>5, <1>6 DEF IndInv

(* The steps that only change an agent's state preserve the invariant. *)
LEMMA AgentStepInv ==
  ASSUME IndInv, NEW a \in Agents,
         LockStore(a) \/ OpenStore(a) \/ RefuseStart(a) \/ StopAgent(a)
  PROVE  IndInv'
<1>a. UNCHANGED <<fsVars, vaultVars, cliVars, committed, nonce>>
  BY DEF LockStore, OpenStore, RefuseStart, StopAgent
<1>p. PICK s \in AgentStates :
        /\ agent' = [agent EXCEPT ![a] = [st |-> s, dek |-> agent[a].dek]]
        /\ s = "locked" => agent[a].st = "unlocked" /\ \A c \in Clis : ~HoldsRekeyLock(c)
        /\ s = "serving" => agent[a].st = "locked" /\ StoreOpens(a)
        /\ s # "unlocked"
  BY DEF LockStore, OpenStore, RefuseStart, StopAgent, SetAgent, AgentStates
<1>b. /\ agent'[a].st = s /\ agent'[a].dek = agent[a].dek
      /\ \A b \in Agents : b # a => agent'[b] = agent[b]
  BY <1>p DEF IndInv, TypeOK
<1>1. TypeOK'
  BY <1>a, <1>p DEF IndInv, TypeOK, fsVars, vaultVars, cliVars
<1>2. LocksExclude'
  BY <1>a, <1>p, <1>b DEF IndInv, LocksExclude, HoldsRekeyLock, HoldsBundleLock,
         HoldsStoreLock, HoldsStartupGuard, cliVars, AgentStates
<1>3. DirsAgree' /\ SidecarNotAhead'
  BY <1>1, <1>a, DirsKept DEF IndInv, TypeOK
<1>4. ASSUME NEW c \in Clis PROVE RunKnows(c)'
  BY <1>a, RunKept DEF IndInv, TypeOK, cliVars
<1>5. ASSUME NEW b \in Agents PROVE AgentKnows(b)'
  BY <1>a, <1>p, <1>b DEF IndInv, AgentKnows, StoreOpens, fsVars
<1> QED
  BY <1>1, <1>2, <1>3, <1>4, <1>5 DEF IndInv

(* A write and a checkpoint preserve the invariant. *)
LEMMA WriteInv ==
  ASSUME IndInv, NEW a \in Agents, Put(a) \/ Checkpoint(a)
  PROVE  IndInv'
<1>a. /\ dir.marker = None /\ dir.db.dek = agent[a].dek /\ agent[a].dek \in Deks
      /\ \A c \in Clis : ~HoldsRekeyLock(c)
  BY DEF IndInv, TypeOK, AgentKnows, LocksExclude, HoldsStoreLock, Put, Checkpoint
<1>b. \A v \in vexposed : LiveReadable(dir, v.bundle)
  BY <1>a DEF IndInv, TypeOK, DirsAgree, Agrees
<1>1. CASE Put(a)
  <2> USE <1>1 DEF Put, vaultVars, cliVars
  <2>1. [dek |-> agent[a].dek, val |-> committed + 1] \in Wal
    BY <1>a DEF IndInv, TypeOK, Wal
  <2>2. /\ dir' \in Dir /\ dir'.marker = None /\ dir'.db = dir.db
        /\ dir'.wal = [dek |-> agent[a].dek, val |-> committed + 1]
    BY <1>a, <2>1 DEF IndInv, TypeOK, Dir
  <2>3. TypeOK'
    BY <2>2 DEF IndInv, TypeOK
  <2>4. \A v \in vexposed : LiveReadable(dir, v.bundle)'
    BY <1>a, <1>b, <2>1, <2>2, NoneIsNoFile DEF LiveReadable, WalFits, Content
  <2> QED
    BY <1>a, <2>2, <2>3, <2>4, DatabaseStep DEF IndInv, TypeOK
<1>2. CASE Checkpoint(a)
  <2> USE <1>2 DEF Checkpoint, vaultVars, cliVars
  <2>1. [dek |-> agent[a].dek, val |-> dir.wal.val, id |-> nonce] \in File
    BY <1>a DEF IndInv, TypeOK, Dir, Wal, File
  <2>2. /\ dir' \in Dir /\ dir'.marker = None /\ dir'.wal = None
        /\ dir'.db = [dek |-> agent[a].dek, val |-> dir.wal.val, id |-> nonce]
    BY <1>a, <2>1 DEF IndInv, TypeOK, Dir
  <2>3. TypeOK'
    BY <2>2 DEF IndInv, TypeOK
  <2>4. \A v \in vexposed : LiveReadable(dir, v.bundle)'
    BY <1>a, <1>b, <2>2 DEF LiveReadable, WalFits, Content
  <2> QED
    BY <1>a, <2>2, <2>3, <2>4, DatabaseStep DEF IndInv, TypeOK
<1> QED
  BY <1>1, <1>2

(* CleanStaging preserves the invariant. *)
LEMMA CleanStagingInv ==
  ASSUME IndInv, CleanStaging
  PROVE  IndInv'
<1> USE DEF CleanStaging
<1>1. dir' \in Dir /\ dir'.marker = None /\ dir'.db = dir.db /\ dir'.wal = dir.wal
  BY DEF IndInv, TypeOK, Dir
<1>2. TypeOK'
  BY <1>1 DEF IndInv, TypeOK, vaultVars, cliVars
<1>3. \A v \in vexposed : LiveReadable(dir, v.bundle)'
  BY <1>1 DEF IndInv, TypeOK, DirsAgree, Agrees, LiveReadable, WalFits, Content
<1> QED
  BY <1>1, <1>2, <1>3, DatabaseStep DEF IndInv, TypeOK

(* A power loss preserves the invariant: DirsAgree holds of every state it  *)
(* may leave.                                                              *)
LEMMA PowerLossInv ==
  ASSUME IndInv, PowerLoss
  PROVE  IndInv'
<1> USE DEF PowerLoss
<1>1. /\ dir' \in exposed /\ exposed' = {dir'}
      /\ vault' \in vexposed /\ vexposed' = {vault'}
  OBVIOUS
<1>2. \A c \in Clis : pc'[c] = "idle"
  OBVIOUS
<1>3. \A a \in Agents : agent'[a].st = "down"
  BY DEF IndInv, TypeOK
<1>4. TypeOK'
  BY <1>1, NoneIsNoFile DEF IndInv, TypeOK, NoJob, Job, Pcs, AgentStates
<1>5. DirsAgree'
  <2>1. Agrees(dir', vault'.bundle) /\ vault'.bundle.rev < nonce
    BY <1>1 DEF IndInv, DirsAgree
  <2> QED
    BY <1>1, <2>1 DEF DirsAgree, Agrees, LiveReadable, Binds, Staged, Discarded,
                      LogGone, Swapped
<1>6. SidecarNotAhead'
  BY <1>1 DEF IndInv, SidecarNotAhead
<1>7. LocksExclude'
  BY <1>2, <1>3 DEF LocksExclude, HoldsRekeyLock, HoldsBundleLock, BundlePcs, MaintPcs
<1>8. \A c \in Clis : RunKnows(c)'
  BY <1>2, IdleKnowsNext
<1>9. \A a \in Agents : AgentKnows(a)'
  BY <1>3 DEF AgentKnows
<1> QED
  BY <1>4, <1>5, <1>6, <1>7, <1>8, <1>9 DEF IndInv

-----------------------------------------------------------------------------
(* The theorems. *)

(* Every step of the system preserves the inductive invariant. *)
LEMMA NextInv == IndInv /\ [Next]_vars => IndInv'
<1> SUFFICES ASSUME IndInv, [Next]_vars PROVE IndInv'
  OBVIOUS
<1>1. ASSUME NEW c \in Clis, Fresh(c) PROVE IndInv'
  BY <1>1, StartInv, PrepareInv, MakeStagingInv, StageCandidateInv, PublishMarkerInv,
     CommitBundleInv, SidecarWriteInv DEF Fresh
<1>2. ASSUME NEW c \in Clis, Proceed(c) PROVE IndInv'
  <2>1. CASE Refuse(c)
    BY <2>1, AbandonInv DEF Refuse
  <2> QED
    BY <1>2, <2>1, SyncDirInv, SyncAndExitInv, SyncVaultInv, UnlinkSidecarsInv,
       RenameCandidateInv, RemoveStagingInv, UnlinkMarkerInv, SidecarWriteInv,
       RollBackInv, RollForwardInv DEF Proceed
<1>3. ASSUME NEW c \in Clis, Maintenance(c) PROVE IndInv'
  <2>1. CASE SkipSidecar(c)
    BY <2>1, ExitStep DEF SkipSidecar
  <2> QED
    BY <1>3, <2>1, StartMaintenanceInv, WriteMaintainedInv, WriteMaintSidecarInv,
       EndMaintenanceInv DEF Maintenance
<1>4. ASSUME NEW c \in Clis, Cli(c) PROVE IndInv'
  BY <1>1, <1>2, <1>3, <1>4, StartInv, ReadMarkerInv DEF Cli
<1>5. ASSUME NEW a \in Agents, Agent(a) PROVE IndInv'
  BY <1>5, UnlockInv, AgentStepInv, WriteInv DEF Agent
<1>6. ASSUME NEW c \in Clis, IoError(c) \/ KillCli(c) PROVE IndInv'
  BY <1>6, AbandonInv, ExitStep DEF IoError, KillCli
<1>7. CASE UNCHANGED vars
  <2>1. UNCHANGED <<fsVars, vaultVars, cliVars, agent, committed, nonce>>
    BY <1>7 DEF vars, fsVars, vaultVars, cliVars
  <2>2. TypeOK'
    BY <1>7 DEF IndInv, TypeOK, vars
  <2>3. LocksExclude'
    BY <1>7 DEF vars, IndInv, LocksExclude, HoldsRekeyLock, HoldsBundleLock,
                HoldsStoreLock, HoldsStartupGuard
  <2>4. DirsAgree' /\ SidecarNotAhead'
    BY <2>1, <2>2, DirsKept DEF IndInv, TypeOK
  <2>5. ASSUME NEW c \in Clis PROVE RunKnows(c)'
    BY <2>1, RunKept DEF IndInv, TypeOK, cliVars
  <2>6. ASSUME NEW a \in Agents PROVE AgentKnows(a)'
    BY <1>7 DEF vars, IndInv, AgentKnows
  <2> QED
    BY <2>2, <2>3, <2>4, <2>5, <2>6 DEF IndInv
<1> QED
  BY <1>4, <1>5, <1>6, <1>7, CleanStagingInv, PowerLossInv DEF Next, Quiet, Fault

(* IndInv holds in every reachable state, whatever the number of runs,      *)
(* brokers, keys, writes, errors, kills and power losses.                  *)
THEOREM IndInvHolds == Spec => []IndInv
  BY InitInv, NextInv, PTL DEF Spec

(* Every variable keeps its type. *)
THEOREM TypeCorrect == Spec => []TypeOK
<1>1. IndInv => TypeOK
  BY DEF IndInv
<1> QED
  BY <1>1, IndInvHolds, PTL

(* No acknowledged write is lost by a rekey, by its interruption at any     *)
(* step, or by a power loss: the bundle that survives carries the key of    *)
(* the live database, or of the candidate the marker protects.             *)
THEOREM NoWriteLost == Spec => []DataSurvives
<1>1. IndInv => DataSurvives
  <2> SUFFICES ASSUME IndInv, NEW d \in exposed, NEW v \in vexposed
               PROVE  LiveReadable(d, v.bundle) \/ CandidateReadable(d, v.bundle)
    BY DEF DataSurvives
  <2>1. Agrees(d, v.bundle)
    BY DEF IndInv, DirsAgree
  <2> QED
    BY <2>1 DEF Agrees, Binds, Staged, Discarded, LogGone, Swapped, LiveReadable,
                CandidateReadable, WalFits, Content
<1> QED
  BY <1>1, IndInvHolds, PTL

(* A power loss never pairs a database with another key's log. *)
THEOREM LogMatchesDatabase == Spec => []NoForeignLog
<1>1. IndInv => NoForeignLog
  <2> SUFFICES ASSUME IndInv, NEW d \in exposed PROVE WalFits(d)
    BY DEF NoForeignLog
  <2>1. Agrees(d, vault.bundle)
    BY DEF IndInv, TypeOK, DirsAgree
  <2> QED
    BY <2>1 DEF Agrees, Staged, Discarded, LogGone, Swapped, LiveReadable, WalFits
<1> QED
  BY <1>1, IndInvHolds, PTL

(* Whatever an interruption leaves, unless maintenance re-sealed the bundle,*)
(* the hash checks of roll_back or of roll_forward pass.                   *)
THEOREM InterruptionRecoverable == Spec => []Recoverable
<1>1. IndInv => Recoverable
  <2> SUFFICES ASSUME IndInv, NEW d \in exposed, NEW v \in vexposed, d.marker # None
               PROVE  /\ v.bundle = d.marker.pre => d.db = d.marker.old
                      /\ v.bundle = d.marker.post =>
                           \/ d.staging /\ d.cand = d.marker.cand
                           \/ d.cand = None /\ d.db = d.marker.cand
    BY DEF Recoverable
  <2>1. Agrees(d, v.bundle)
    BY DEF IndInv, DirsAgree
  <2> QED
    BY <2>1 DEF Agrees, Staged, Discarded, LogGone, Swapped
<1> QED
  BY <1>1, IndInvHolds, PTL

(* A serving broker has the key of the database and of every bundle that    *)
(* may survive, and no rekey runs beside it.                               *)
THEOREM BrokerConsistent == Spec => []ServingConsistent
<1>1. IndInv => ServingConsistent
  <2> SUFFICES ASSUME IndInv, NEW a \in Agents, agent[a].st = "serving"
               PROVE  /\ dir.marker = None /\ dir.db.dek = agent[a].dek /\ WalFits(dir)
                      /\ \A v \in vexposed : v.bundle.dek = agent[a].dek
                      /\ \A c \in Clis : ~HoldsRekeyLock(c)
    BY DEF ServingConsistent
  <2>1. dir.marker = None /\ dir.db.dek = agent[a].dek
    BY DEF IndInv, AgentKnows
  <2>2. \A v \in vexposed : LiveReadable(dir, v.bundle)
    BY <2>1 DEF IndInv, TypeOK, DirsAgree, Agrees
  <2>3. \A c \in Clis : ~HoldsRekeyLock(c)
    BY DEF IndInv, LocksExclude, HoldsStoreLock
  <2> QED
    BY <2>1, <2>2, <2>3 DEF IndInv, TypeOK, LiveReadable
<1> QED
  BY <1>1, IndInvHolds, PTL

(* The sidecar never gets ahead of its bundle. *)
THEOREM EpochConsistent == Spec => []SidecarNotAhead
<1>1. IndInv => SidecarNotAhead
  BY DEF IndInv
<1> QED
  BY <1>1, IndInvHolds, PTL

(* The fence is the last trace of a rekey to go. *)
THEOREM FenceLast == Spec => []FenceRemovedLast
<1>1. IndInv => FenceRemovedLast
  BY DEF IndInv, FenceRemovedLast, RunKnows
<1> QED
  BY <1>1, IndInvHolds, PTL
=============================================================================

----------------------------- MODULE Revocation -----------------------------
(* The JWT-SVID deny-list: a map of revoked token identifiers in memory,   *)
(* and a copy of the whole map under one key of a backend.  Revoke RPCs    *)
(* insert, snapshot and write; every applied reload reads the copy and     *)
(* merges it; a restarted broker begins with the copy.                     *)
(*                                                                         *)
(* An entry is the expiry of the token, 0 when there is none.  The backend *)
(* stores what it is given, unconditionally: kv_put carries no version to  *)
(* compare.  A kv_put that failed, or whose caller went away, has landed   *)
(* or never will.                                                          *)
EXTENDS Integers

CONSTANTS
  Revokers,       \* Revoke RPCs that may be in flight together
  Refreshers,     \* reloads that may be refreshing together
  Jtis,           \* (trust domain, jti) pairs
  Expiries,       \* Expiries[j]: the expiries callers give for j
  MaxTime,        \* bound on the clock
  MaxBoots,       \* bound on restarts
  None            \* no jti

ASSUME ConstantsOK ==
  /\ Expiries \in [Jtis -> SUBSET (Nat \ {0})]
  /\ MaxTime \in Nat /\ MaxBoots \in Nat
  /\ Revokers \cap Refreshers = {}
  /\ None \notin Jtis

VARIABLES
  now,      \* Unix seconds
  mem,      \* JwtRevocationStore.entries
  store,    \* the backend's copy
  task,     \* the RPCs and reloads in flight
  acked,    \* history: the longest expiry acknowledged for each jti
  contested,\* history: the jtis revoked while a write was on its way, or shortened
  boots     \* history: restarts so far
vars == <<now, mem, store, task, acked, contested, boots>>

Entries == [Jtis -> Nat]
NoEntries == [j \in Jtis |-> 0]
Tasks == Revokers \cup Refreshers
(* The local state of one call: the entry it revokes, and the map it has   *)
(* serialized for the backend or loaded from it.                           *)
Task == [st : {"idle", "inserted", "sending", "landed", "loaded"},
         jti : Jtis \cup {None}, exp : Nat, map : Entries]
IdleTask == [st |-> "idle", jti |-> None, exp |-> 0, map |-> NoEntries]
At(t, st) == task[t].st = st
Return(t) == task' = [task EXCEPT ![t] = IdleTask]
Step(t, st, map) == task' = [task EXCEPT ![t].st = st, ![t].map = map]

(* prune_expired *)
Prune(entries) == [j \in Jtis |-> IF entries[j] > now THEN entries[j] ELSE 0]
Longer(a, b) == IF a >= b THEN a ELSE b
(* Faulty form of Merged: the reloaded map replaces the live one. *)
Merged_Replaces(live, loaded) == Prune(loaded)
(* merge_from: a union in which the longer expiry wins. *)
Merged(live, loaded) ==
  [j \in Jtis |-> Longer(Prune(live)[j], Prune(loaded)[j])]

-----------------------------------------------------------------------------
(* The Revoke RPC.  Validation, authorization and the insert run without   *)
(* an await; the handler then serializes the map and awaits the write.     *)

Insert(t, j, e) ==
  /\ mem' = [mem EXCEPT ![j] = e]
  /\ task' = [task EXCEPT ![t].st = "inserted", ![t].jti = j, ![t].exp = e]

(* What may undo an acknowledgement for j: the entry is not in a map that  *)
(* another call has already sent, or it is overwritten by an earlier       *)
(* expiry.                                                                 *)
Contest(j, e) ==
  IF (\E s \in Revokers : At(s, "sending")) \/ e < mem[j] THEN {j} ELSE {}

(* insert overwrites, whatever expiry the map holds for j. *)
Revoke(t) ==
  /\ At(t, "idle")
  /\ \E j \in Jtis : \E e \in Expiries[j] :
       e > now /\ Insert(t, j, e) /\ contested' = contested \cup Contest(j, e)
  /\ UNCHANGED <<now, store, acked, boots>>

(* Faulty form of Snapshot: only the new entry is written. *)
Snapshot_OwnEntry(t) ==
  /\ At(t, "inserted")
  /\ Step(t, "sending", [NoEntries EXCEPT ![task[t].jti] = task[t].exp])
  /\ UNCHANGED <<now, mem, store, acked, contested, boots>>

(* persist: snapshot_json takes the lock on its own. *)
Snapshot(t) ==
  /\ At(t, "inserted")
  /\ Step(t, "sending", mem)
  /\ UNCHANGED <<now, mem, store, acked, contested, boots>>

(* The write reaches the backend ... *)
PutLands(t) ==
  /\ At(t, "sending")
  /\ store' = task[t].map
  /\ Step(t, "landed", task[t].map)
  /\ UNCHANGED <<now, mem, acked, contested, boots>>

(* ... and the caller is told that the revocation is persisted. *)
Acknowledge(t) ==
  /\ At(t, "landed")
  /\ acked' = [acked EXCEPT ![task[t].jti] = Longer(@, task[t].exp)]
  /\ Return(t)
  /\ UNCHANGED <<now, mem, store, contested, boots>>

(* The write fails, or the client closes the stream and the handler is     *)
(* dropped at its await.  The entry in memory stays.                       *)
Abandon(t) ==
  /\ At(t, "sending") \/ At(t, "landed")
  /\ Return(t)
  /\ UNCHANGED <<now, mem, store, acked, contested, boots>>

-----------------------------------------------------------------------------
(* The refresh after an applied reload: load, then merge.  A failed load   *)
(* changes nothing.                                                        *)

Load(t) ==
  /\ At(t, "idle")
  /\ Step(t, "loaded", Prune(store))
  /\ UNCHANGED <<now, mem, store, acked, contested, boots>>

Merge(t) ==
  /\ At(t, "loaded")
  /\ mem' = Merged(mem, task[t].map)
  /\ Return(t)
  /\ UNCHANGED <<now, store, acked, contested, boots>>

-----------------------------------------------------------------------------
(* is_revoked, called for every token validated, prunes as it looks. *)
IsRevoked ==
  /\ mem' = Prune(mem)
  /\ UNCHANGED <<now, store, task, acked, contested, boots>>

Tick ==
  /\ now < MaxTime
  /\ now' = now + 1
  /\ UNCHANGED <<mem, store, task, acked, contested, boots>>

(* load_from_manager at startup.  Every call in flight dies. *)
Restart ==
  /\ boots < MaxBoots
  /\ boots' = boots + 1
  /\ mem' = Prune(store)
  /\ task' = [t \in Tasks |-> IdleTask]
  /\ UNCHANGED <<now, store, acked, contested>>

Init ==
  /\ now = 0 /\ boots = 0
  /\ mem = NoEntries /\ store = NoEntries /\ acked = NoEntries /\ contested = {}
  /\ task = [t \in Tasks |-> IdleTask]

Next ==
  \/ \E t \in Revokers :
       Revoke(t) \/ Snapshot(t) \/ PutLands(t) \/ Acknowledge(t) \/ Abandon(t)
  \/ \E t \in Refreshers : Load(t) \/ Merge(t)
  \/ IsRevoked
  \/ Tick
  \/ Restart

Spec == Init /\ [][Next]_vars

-----------------------------------------------------------------------------
(* Properties. *)

(* Type correctness of the maps and of the calls in flight. *)
TypeOK ==
  /\ now \in Nat /\ boots \in Nat
  /\ mem \in Entries /\ store \in Entries /\ acked \in Entries
  /\ contested \subseteq Jtis
  /\ task \in [Tasks -> Task]

(* A revocation that was acknowledged as persisted is in the backend's     *)
(* copy until the token expires: it survives a restart.                    *)
AckedDurable == \A j \in Jtis : acked[j] > now => store[j] >= acked[j]

(* An acknowledged revocation is in the backend's copy, and refuses the    *)
(* token, until the expiry it named, whatever reloads, failed and late     *)
(* writes, lookups and restarts come after it, and however many Revoke     *)
(* RPCs overlap - unless its own entry was inserted while an older map was *)
(* on its way to the backend, or overwritten by an earlier expiry.         *)
AckedKept ==
  \A j \in Jtis : acked[j] > now /\ j \notin contested
    => store[j] >= acked[j] /\ mem[j] >= acked[j]

(* Within the life of a process a reload, a lookup, a failed write or a    *)
(* revocation of another token removes or shortens no entry that has not   *)
(* expired.  Only a Revoke RPC for the same token may: insert, documented  *)
(* as add or extend, overwrites, and the entry is then what that RPC gave. *)
Overwritten(j) ==
  \E t \in Revokers :
    /\ At(t, "idle") /\ task'[t].st = "inserted" /\ task'[t].jti = j
    /\ mem'[j] = task'[t].exp
LiveEntriesKept ==
  [][boots' = boots =>
       \A j \in Jtis : mem[j] > now' => mem'[j] >= mem[j] \/ Overwritten(j)]_vars
=============================================================================

----------------------------- MODULE Connections -----------------------------
(* The registry of accepted transports (transport/connection.rs).  Accept   *)
(* loops register a transport before tonic sees it, under four ceilings and *)
(* the admission gate of a listener transition; dropping the transport      *)
(* releases its entry.  Long-lived response streams hold leases that may    *)
(* outlive the transport.  Every operation holds the registry's one mutex.  *)
EXTENDS Integers, FiniteSets

CONSTANTS
  Names,           \* listener names
  Host, Courier,   \* the variants of ListenerType
  Uids,            \* peer uids, captured at accept
  Workloads,       \* systemd identities a request may resolve to
  Requests,        \* the sets of selectors of DropConnections requests
  Guards,          \* transitions that may hold gates
  Max,             \* ceilings.maximum
  MaxPerListener,  \* ceilings.maximum_per_listener
  MaxOf,           \* ceilings.maximum_host, ceilings.maximum_courier
  LastId,          \* u64::MAX
  LastStream,      \* usize::MAX
  None

(* is_coherent, and the two widths. *)
ASSUME CeilingsCoherent ==
  /\ Host # Courier
  /\ Max \in Nat \ {0}
  /\ MaxPerListener \in 1..Max
  /\ MaxOf \in [{Host, Courier} -> 1..Max]
  /\ LastId \in Nat \ {0} /\ LastStream \in Nat \ {0}
  /\ None \notin Int \cup Workloads

VARIABLES
  nextId,       \* next_id
  entries,      \* entries, by id
  perListener,  \* listener_counts; a name without an entry counts 0
  perKind,      \* type_counts
  gated,        \* gated_listeners
  holds,        \* names of each ListenerTransitionGuard; {} once dropped
  counted,      \* active of each guard
  leases        \* ConnectionStreamLeases alive, by id

Kinds == {Host, Courier}
gates == <<gated, holds, counted>>
registry == <<nextId, entries, perListener, perKind, gates, leases>>

Ids == 1..LastId
Active == DOMAIN entries
Entry == [name : Names, kind : Kinds, uid : Uids, who : Workloads \cup {None},
          armed : BOOLEAN, streams : 0..LastStream]

RegistryInit ==
  /\ nextId = 1
  /\ entries = [i \in {} |-> None]
  /\ perListener = [n \in Names |-> 0]
  /\ perKind = [k \in Kinds |-> 0]
  /\ gated = {}
  /\ holds = [g \in Guards |-> {}]
  /\ counted = [g \in Guards |-> [n \in Names |-> 0]]
  /\ leases = [i \in Ids |-> 0]

-----------------------------------------------------------------------------
(* Bug: the gate is not consulted. *)
Admissible_Ungated(n, k) ==
  /\ Cardinality(Active) < Max /\ perKind[k] < MaxOf[k]
  /\ perListener[n] < MaxPerListener
  /\ nextId # None /\ nextId \notin Active
(* The checks of register, in no visible order: each one refuses.  The id   *)
(* is never one in use, so the branch for that is the last conjunct.        *)
Admissible(n, k) ==
  /\ n \notin gated
  /\ Cardinality(Active) < Max
  /\ perKind[k] < MaxOf[k]
  /\ perListener[n] < MaxPerListener
  /\ nextId # None
  /\ nextId \notin Active

Added(n, k, u) ==
  [i \in Active \cup {nextId} |->
     IF i = nextId THEN [name |-> n, kind |-> k, uid |-> u, who |-> None,
                         armed |-> TRUE, streams |-> 0]
                   ELSE entries[i]]

(* checked_add(1): None after u64::MAX. *)
Following(i) == IF i = LastId THEN None ELSE i + 1

(* register. *)
Register(n, k, u) ==
  /\ Admissible(n, k)
  /\ entries' = Added(n, k, u)
  /\ nextId' = Following(nextId)
  /\ perListener' = [perListener EXCEPT ![n] = @ + 1]
  /\ perKind' = [perKind EXCEPT ![k] = @ + 1]
  /\ UNCHANGED <<gates, leases>>

Decrement(count) == IF count > 0 THEN count - 1 ELSE 0

(* Bug: the per-type count is not released. *)
Release_KindKept(i) ==
  /\ i \in Active
  /\ entries' = [j \in Active \ {i} |-> entries[j]]
  /\ perListener' = [perListener EXCEPT ![entries[i].name] = Decrement(@)]
  /\ UNCHANGED <<nextId, perKind, gates, leases>>
(* The transport is dropped: its client closed it, the server shut down, or *)
(* a poll saw the cancellation.                                             *)
Release(i) ==
  /\ i \in Active
  /\ entries' = [j \in Active \ {i} |-> entries[j]]
  /\ perListener' = [perListener EXCEPT ![entries[i].name] = Decrement(@)]
  /\ perKind' = [perKind EXCEPT ![entries[i].kind] = Decrement(@)]
  /\ UNCHANGED <<nextId, gates, leases>>

Selectors == [by : {"id"}, val : Ids] \cup [by : {"uid"}, val : Uids]
             \cup [by : {"systemd"}, val : Workloads]
Selected(s, i) ==
  \/ s.by = "id" /\ s.val = i
  \/ s.by = "uid" /\ s.val = entries[i].uid
  \/ s.by = "systemd" /\ s.val = entries[i].who

(* Entries stay until their transports drop, so that a zero-active check    *)
(* cannot run ahead of the teardown.                                        *)
CancelMatching(sels, caller) ==
  /\ entries' = [i \in Active |->
       IF i # caller /\ \E s \in sels : Selected(s, i)
         THEN [entries[i] EXCEPT !.armed = FALSE]
         ELSE entries[i]]
  /\ UNCHANGED <<nextId, perListener, perKind, gates, leases>>

(* A request on the transport resolved to a workload. *)
RecordActor(i, w) ==
  /\ i \in Active
  /\ entries' = [entries EXCEPT ![i].who = w]
  /\ UNCHANGED <<nextId, perListener, perKind, gates, leases>>

BeginStream(i) ==
  /\ i \in Active
  /\ entries[i].streams < LastStream
  /\ entries' = [entries EXCEPT ![i].streams = @ + 1]
  /\ leases' = [leases EXCEPT ![i] = @ + 1]
  /\ UNCHANGED <<nextId, perListener, perKind, gates>>

(* The lease is dropped, perhaps after its transport. *)
EndStream(i) ==
  /\ leases[i] > 0
  /\ leases' = [leases EXCEPT ![i] = @ - 1]
  /\ entries' = IF i \in Active
                  THEN [entries EXCEPT ![i].streams = Decrement(@)]
                  ELSE entries
  /\ UNCHANGED <<nextId, perListener, perKind, gates>>

(* begin_listener_transition: the counts are taken under the lock that      *)
(* closes the gate.                                                         *)
CloseGate(g, ns) ==
  /\ holds[g] = {}
  /\ ns \cap gated = {}
  /\ gated' = gated \cup ns
  /\ holds' = [holds EXCEPT ![g] = ns]
  /\ counted' = [counted EXCEPT ![g] =
                   [n \in Names |-> IF n \in ns THEN perListener[n] ELSE 0]]
  /\ UNCHANGED <<nextId, entries, perListener, perKind, leases>>

(* The guard is dropped. *)
OpenGate(g) ==
  /\ gated' = gated \ holds[g]
  /\ holds' = [holds EXCEPT ![g] = {}]
  /\ counted' = [counted EXCEPT ![g] = [n \in Names |-> 0]]
  /\ UNCHANGED <<nextId, entries, perListener, perKind, leases>>

RegistryNext ==
  \/ \E n \in Names, k \in Kinds, u \in Uids : Register(n, k, u)
  \/ \E i \in Ids : Release(i)
  \/ \E sels \in Requests, c \in Ids \cup {None} : CancelMatching(sels, c)
  \/ \E i \in Ids, w \in Workloads \cup {None} : RecordActor(i, w)
  \/ \E i \in Ids : BeginStream(i)
  \/ \E i \in Ids : EndStream(i)
  \/ \E g \in Guards, ns \in SUBSET Names : CloseGate(g, ns)
  \/ \E g \in Guards : OpenGate(g)

RegistrySpec == RegistryInit /\ [][RegistryNext]_registry

-----------------------------------------------------------------------------
(* Properties. *)

(* Ids in use are ids that were handed out. *)
RegistryTypeOK ==
  /\ nextId \in Ids \cup {None}
  /\ Active \subseteq Ids
  /\ entries \in [Active -> Entry]
  /\ perListener \in [Names -> Nat]
  /\ perKind \in [Kinds -> Nat]
  /\ gated \subseteq Names
  /\ holds \in [Guards -> SUBSET Names]
  /\ counted \in [Guards -> [Names -> Nat]]
  /\ leases \in [Ids -> Nat]

On(n) == {i \in Active : entries[i].name = n}
Of(k) == {i \in Active : entries[i].kind = k}

(* The counters that register, release and the transition check read, and   *)
(* that are kept beside the entries, count the entries: a lost or doubled   *)
(* decrement would block every later reload or admit above a ceiling.       *)
CountsAgree ==
  /\ \A n \in Names : perListener[n] = Cardinality(On(n))
  /\ \A k \in Kinds : perKind[k] = Cardinality(Of(k))

(* No ceiling is ever exceeded, in the number of transports there are.      *)
WithinCeilings ==
  /\ Cardinality(Active) <= Max
  /\ \A n \in Names : Cardinality(On(n)) <= MaxPerListener
  /\ \A k \in Kinds : Cardinality(Of(k)) <= MaxOf[k]

(* DEFAULT_MAX_CONNECTIONS_COURIER: "the host/operator surface always       *)
(* retains" what the courier ceiling leaves of the global one, so that the  *)
(* global ceiling never refuses a host transport below that.                *)
HostReserve ==
  Cardinality(Of(Host)) < Max - MaxOf[Courier] => Cardinality(Active) < Max

(* A closed gate admits nothing: while a transition holds a listener's gate *)
(* the listener has no transport that the transition did not count, so the  *)
(* zero it checked is still zero when it commits.  No two transitions hold  *)
(* the gate of one listener.                                                *)
GateHolds ==
  /\ \A g \in Guards : \A n \in holds[g] :
       n \in gated /\ Cardinality(On(n)) <= counted[g][n]
  /\ \A g, h \in Guards : g # h => holds[g] \cap holds[h] = {}

(* A lease that outlives its transport never disturbs another's count: the  *)
(* streams of a live transport are the leases taken on it.                  *)
StreamsAgree == \A i \in Active : entries[i].streams = leases[i]

(* The context of a transport (listener, type, peer) is captured once, and  *)
(* an id names one transport for the life of the process: connection drops  *)
(* and stream counts rest on it.                                            *)
ContextFixed ==
  [][\A i \in Ids :
       /\ i \in Active \cap DOMAIN entries' =>
            /\ entries'[i].name = entries[i].name
            /\ entries'[i].kind = entries[i].kind
            /\ entries'[i].uid = entries[i].uid
       /\ i \in DOMAIN entries' \ Active => leases[i] = 0 /\ i = nextId]_registry
=============================================================================

-------------------------- MODULE ListenersProofs --------------------------
(* Proofs about Connections, for any set of listeners, any ceilings that     *)
(* are coherent and any number of transitions, and about the listener        *)
(* runtime of Listeners, which runs over that registry: for any listener     *)
(* sets, any number of paths and sockets and any interference at the paths.  *)
EXTENDS Listeners, FiniteSetTheorems, FunctionTheorems, TLAPS

(* Ids are handed out in order, and none at or above the next one has been   *)
(* used: that is why a lease cannot meet another transport's entry.          *)
IdsInOrder ==
  nextId # None => /\ \A i \in Active : i < nextId
                   /\ \A i \in Ids : i >= nextId => leases[i] = 0

RegistryInv ==
  /\ RegistryTypeOK
  /\ CountsAgree
  /\ WithinCeilings
  /\ GateHolds
  /\ StreamsAgree
  /\ IdsInOrder

-----------------------------------------------------------------------------
(* The ceilings are positive. *)
LEMMA CeilingTypes ==
  /\ Max \in Nat /\ MaxPerListener \in Nat /\ MaxPerListener > 0
  /\ \A k \in Kinds : MaxOf[k] \in Nat /\ MaxOf[k] > 0
BY CeilingsCoherent DEF Kinds

(* Sets of active transports are finite. *)
LEMMA ActiveFinite ==
  ASSUME RegistryTypeOK
  PROVE  /\ IsFiniteSet(Active) /\ Cardinality(Active) \in Nat
         /\ \A n : IsFiniteSet(On(n)) /\ Cardinality(On(n)) \in Nat
         /\ \A k : IsFiniteSet(Of(k)) /\ Cardinality(Of(k)) \in Nat
<1>1. IsFiniteSet(Ids)
  BY FS_Interval, CeilingsCoherent DEF Ids
<1>2. IsFiniteSet(Active)
  BY <1>1, FS_Subset DEF RegistryTypeOK
<1>3. /\ \A n : IsFiniteSet(On(n))
      /\ \A k : IsFiniteSet(Of(k))
  <2>1. \A n : On(n) \in SUBSET Active
    BY DEF On
  <2>2. \A k : Of(k) \in SUBSET Active
    BY DEF Of
  <2>3. QED
    BY <1>2, <2>1, <2>2, FS_Subset
<1>4. QED
  BY <1>2, <1>3, FS_CardinalityType

(* What register does to the sets that the counters count. *)
LEMMA RegisterSets ==
  ASSUME RegistryTypeOK, NEW n \in Names, NEW k \in Kinds, NEW u \in Uids,
         Register(n, k, u)
  PROVE  /\ nextId \in Ids \ Active
         /\ Active' = Active \cup {nextId}
         /\ On(n)' = On(n) \cup {nextId}
         /\ \A m \in Names \ {n} : On(m)' = On(m)
         /\ Of(k)' = Of(k) \cup {nextId}
         /\ \A l \in Kinds \ {k} : Of(l)' = Of(l)
<1>1. nextId \in Ids \ Active
  BY DEF Register, Admissible, RegistryTypeOK
<1>2. Active' = Active \cup {nextId}
  BY DEF Register, Added, Active
<1>3. entries'[nextId].name = n /\ entries'[nextId].kind = k
  BY <1>2 DEF Register, Added, Active
<1>4. \A i \in Active : entries'[i] = entries[i]
  BY <1>1, <1>2 DEF Register, Added, Active
<1>5. QED
  BY <1>1, <1>2, <1>3, <1>4 DEF On, Of

(* What release does to them. *)
LEMMA ReleaseSets ==
  ASSUME RegistryTypeOK, NEW i \in Ids, Release(i)
  PROVE  /\ Active' = Active \ {i}
         /\ \A m \in Names : On(m)' = On(m) \ {i}
         /\ \A l \in Kinds : Of(l)' = Of(l) \ {i}
         /\ entries[i].name \in Names /\ entries[i].kind \in Kinds
<1>1. Active' = Active \ {i} /\ i \in Active
  BY DEF Release, Active
<1>2. \A j \in Active' : entries'[j] = entries[j]
  BY <1>1 DEF Release, Active
<1>3. QED
  BY <1>1, <1>2 DEF On, Of, RegistryTypeOK, Entry

(* The steps that keep every transport and its context. *)
Kept ==
  /\ Active' = Active
  /\ \A i \in Active : /\ entries'[i].name = entries[i].name
                       /\ entries'[i].kind = entries[i].kind
                       /\ entries'[i].uid = entries[i].uid

LEMMA KeptSets ==
  ASSUME Kept
  PROVE  /\ \A m : On(m)' = On(m)
         /\ \A l : Of(l)' = Of(l)
BY DEF Kept, On, Of

LEMMA StepsKept ==
  ASSUME RegistryTypeOK
  PROVE  /\ \A s \in Requests : \A c \in Ids \cup {None} : CancelMatching(s, c) => Kept
         /\ \A i \in Ids : \A w \in Workloads \cup {None} : RecordActor(i, w) => Kept
         /\ \A i \in Ids : BeginStream(i) => Kept
         /\ \A i \in Ids : EndStream(i) => Kept
<1> USE DEF Kept, Active, RegistryTypeOK, Entry
<1>1. ASSUME NEW s \in Requests, NEW c \in Ids \cup {None}, CancelMatching(s, c)
      PROVE  Kept
  BY <1>1 DEF CancelMatching
<1>2. ASSUME NEW i \in Ids, NEW w \in Workloads \cup {None}, RecordActor(i, w)
      PROVE  Kept
  BY <1>2 DEF RecordActor
<1>3. ASSUME NEW i \in Ids, BeginStream(i) PROVE Kept
  BY <1>3 DEF BeginStream
<1>4. ASSUME NEW i \in Ids, EndStream(i) PROVE Kept
  BY <1>4 DEF EndStream
<1>5. QED
  BY <1>1, <1>2, <1>3, <1>4

-----------------------------------------------------------------------------
(* Every field keeps its type. *)
LEMMA TypeInit == RegistryInit => RegistryTypeOK
<1> SUFFICES ASSUME RegistryInit PROVE RegistryTypeOK
  OBVIOUS
<1>1. Active = {}
  BY DEF RegistryInit, Active
<1>2. entries \in [Active -> Entry]
  BY <1>1 DEF RegistryInit
<1>3. 1 \in Ids
  BY CeilingsCoherent DEF Ids
<1>4. QED
  BY <1>1, <1>2, <1>3 DEF RegistryInit, RegistryTypeOK

LEMMA TypeNext == RegistryTypeOK /\ [RegistryNext]_registry => RegistryTypeOK'
<1> SUFFICES ASSUME RegistryTypeOK, [RegistryNext]_registry
             PROVE  RegistryTypeOK'
  OBVIOUS
<1> USE DEF RegistryTypeOK
<1>1. ASSUME NEW n \in Names, NEW k \in Kinds, NEW u \in Uids, Register(n, k, u)
      PROVE  RegistryTypeOK'
  <2>1. nextId \in Ids \ Active /\ Active' = Active \cup {nextId}
    BY <1>1, RegisterSets
  <2>2. nextId' \in Ids \cup {None}
    BY <1>1, <2>1, CeilingsCoherent DEF Register, Following, Ids
  <2>3. entries' \in [Active' -> Entry]
    <3>1. [name |-> n, kind |-> k, uid |-> u, who |-> None, armed |-> TRUE,
           streams |-> 0] \in Entry
      BY CeilingsCoherent DEF Entry
    <3>2. QED
      BY <1>1, <2>1, <3>1 DEF Register, Added, Active
  <2>4. QED
    BY <1>1, <2>1, <2>2, <2>3 DEF Register, gates, Kinds
<1>2. ASSUME NEW i \in Ids, Release(i) PROVE RegistryTypeOK'
  <2>1. Active' = Active \ {i} /\ entries[i].name \in Names /\ entries[i].kind \in Kinds
    BY <1>2, ReleaseSets
  <2>2. entries' \in [Active' -> Entry]
    BY <1>2, <2>1 DEF Release, Active
  <2>3. \A c \in Nat : Decrement(c) \in Nat
    BY DEF Decrement
  <2>4. QED
    BY <1>2, <2>1, <2>2, <2>3 DEF Release, gates
<1>3. ASSUME NEW s \in Requests, NEW c \in Ids \cup {None}, CancelMatching(s, c)
      PROVE  RegistryTypeOK'
  <2>1. \A i \in Active : [entries[i] EXCEPT !.armed = FALSE] \in Entry
    BY ZenonT(40) DEF Entry
  <2>2. Active' = Active
    BY <1>3 DEF CancelMatching, Active
  <2>3. entries' \in [Active' -> Entry]
    BY <1>3, <2>1, <2>2 DEF CancelMatching, Active
  <2>4. QED
    BY <1>3, <2>2, <2>3 DEF CancelMatching, gates
<1>4. ASSUME NEW i \in Ids, NEW w \in Workloads \cup {None}, RecordActor(i, w)
      PROVE  RegistryTypeOK'
  <2>1. [entries[i] EXCEPT !.who = w] \in Entry
    BY <1>4, ZenonT(40) DEF RecordActor, Entry
  <2>2. Active' = Active
    BY <1>4 DEF RecordActor, Active
  <2>3. entries' \in [Active' -> Entry]
    BY <1>4, <2>1, <2>2 DEF RecordActor, Active
  <2>4. QED
    BY <1>4, <2>2, <2>3 DEF RecordActor, gates
<1>5. ASSUME NEW i \in Ids, BeginStream(i) PROVE RegistryTypeOK'
  <2>1. [entries[i] EXCEPT !.streams = entries[i].streams + 1] \in Entry
    <3>1. entries[i] \in Entry /\ entries[i].streams + 1 \in 0..LastStream
      BY <1>5, CeilingsCoherent DEF BeginStream, Entry
    <3>2. QED
      BY <3>1 DEF Entry
  <2>2. Active' = Active
    BY <1>5 DEF BeginStream, Active
  <2>3. entries' \in [Active' -> Entry]
    BY <1>5, <2>1, <2>2 DEF BeginStream, Active
  <2>4. QED
    BY <1>5, <2>2, <2>3 DEF BeginStream, gates
<1>6. ASSUME NEW i \in Ids, EndStream(i) PROVE RegistryTypeOK'
  <2>1. Active' = Active
    BY <1>6 DEF EndStream, Active
  <2>2. entries' \in [Active' -> Entry]
    <3>1. CASE i \in Active
      <4>1. [entries[i] EXCEPT !.streams = Decrement(entries[i].streams)] \in Entry
        <5>1. entries[i] \in Entry /\ Decrement(entries[i].streams) \in 0..LastStream
          BY <3>1, CeilingsCoherent DEF Entry, Decrement
        <5>2. QED
          BY <5>1 DEF Entry
      <4>2. entries' = [entries EXCEPT ![i].streams = Decrement(@)]
        BY <1>6, <3>1 DEF EndStream
      <4>3. QED
        BY <2>1, <3>1, <4>1, <4>2 DEF Active
    <3>2. CASE i \notin Active
      BY <1>6, <2>1, <3>2 DEF EndStream
    <3>3. QED
      BY <3>1, <3>2
  <2>3. leases' \in [Ids -> Nat]
    BY <1>6 DEF EndStream
  <2>4. QED
    BY <1>6, <2>1, <2>2, <2>3 DEF EndStream, gates
<1>7. ASSUME NEW g \in Guards, NEW ns \in SUBSET Names, CloseGate(g, ns)
      PROVE  RegistryTypeOK'
  BY <1>7 DEF CloseGate, Active
<1>8. ASSUME NEW g \in Guards, OpenGate(g) PROVE RegistryTypeOK'
  BY <1>8 DEF OpenGate, Active
<1>9. CASE UNCHANGED registry
  BY <1>9 DEF registry, gates, Active
<1>10. QED
  BY <1>1, <1>2, <1>3, <1>4, <1>5, <1>6, <1>7, <1>8, <1>9 DEF RegistryNext

(* Every reachable registry is well typed. *)
THEOREM RegistryTypeCorrect == RegistrySpec => []RegistryTypeOK
BY TypeInit, TypeNext, PTL DEF RegistrySpec

-----------------------------------------------------------------------------
(* The invariant is preserved. *)
LEMMA InvInit == RegistryInit => RegistryInv
<1> SUFFICES ASSUME RegistryInit PROVE RegistryInv
  OBVIOUS
<1>1. RegistryTypeOK
  BY TypeInit
<1>2. /\ Active = {} /\ \A n : On(n) = {} /\ \A k : Of(k) = {}
  BY DEF RegistryInit, Active, On, Of
<1>3. CountsAgree /\ WithinCeilings
  <2>1. /\ Cardinality(Active) = 0
        /\ \A n \in Names : Cardinality(On(n)) = 0
        /\ \A k \in Kinds : Cardinality(Of(k)) = 0
    BY <1>2, FS_EmptySet
  <2>2. CountsAgree
    BY <2>1 DEF RegistryInit, CountsAgree
  <2>3. WithinCeilings
    BY <2>1, CeilingTypes DEF WithinCeilings
  <2>4. QED
    BY <2>2, <2>3
<1>4. GateHolds /\ StreamsAgree /\ IdsInOrder
  BY <1>2 DEF RegistryInit, GateHolds, StreamsAgree, IdsInOrder
<1>5. QED
  BY <1>1, <1>3, <1>4 DEF RegistryInv

LEMMA InvRegister ==
  ASSUME RegistryInv, NEW n \in Names, NEW k \in Kinds, NEW u \in Uids,
         Register(n, k, u), RegistryTypeOK'
  PROVE  RegistryInv'
<1> USE DEF RegistryInv
<1>1. /\ nextId \in Ids \ Active
      /\ Active' = Active \cup {nextId}
      /\ On(n)' = On(n) \cup {nextId}
      /\ \A m \in Names \ {n} : On(m)' = On(m)
      /\ Of(k)' = Of(k) \cup {nextId}
      /\ \A l \in Kinds \ {k} : Of(l)' = Of(l)
  BY RegisterSets
<1>2. /\ Cardinality(Active') = Cardinality(Active) + 1
      /\ Cardinality(On(n)') = Cardinality(On(n)) + 1
      /\ Cardinality(Of(k)') = Cardinality(Of(k)) + 1
  <2>1. nextId \notin On(n) /\ nextId \notin Of(k)
    BY <1>1 DEF On, Of
  <2>2. QED
    BY <1>1, <2>1, ActiveFinite, FS_AddElement, ZenonT(40)
<1>3. CountsAgree'
  <2>1. /\ perListener' = [perListener EXCEPT ![n] = perListener[n] + 1]
        /\ perKind' = [perKind EXCEPT ![k] = perKind[k] + 1]
    BY DEF Register
  <2>2. \A m \in Names : perListener'[m] = Cardinality(On(m)')
    <3> SUFFICES ASSUME NEW m \in Names
                 PROVE  perListener'[m] = Cardinality(On(m)')
      OBVIOUS
    <3>1. CASE m = n
      BY <1>2, <2>1, <3>1 DEF CountsAgree, RegistryTypeOK
    <3>2. CASE m # n
      BY <1>1, <2>1, <3>2 DEF CountsAgree, RegistryTypeOK
    <3>3. QED
      BY <3>1, <3>2
  <2>3. \A l \in Kinds : perKind'[l] = Cardinality(Of(l)')
    <3> SUFFICES ASSUME NEW l \in Kinds
                 PROVE  perKind'[l] = Cardinality(Of(l)')
      OBVIOUS
    <3>1. CASE l = k
      BY <1>2, <2>1, <3>1 DEF CountsAgree, RegistryTypeOK
    <3>2. CASE l # k
      BY <1>1, <2>1, <3>2 DEF CountsAgree, RegistryTypeOK
    <3>3. QED
      BY <3>1, <3>2
  <2>4. QED
    BY <2>2, <2>3 DEF CountsAgree
<1>4. WithinCeilings'
  <2>1. /\ Cardinality(Active) < Max
        /\ Cardinality(On(n)) < MaxPerListener
        /\ Cardinality(Of(k)) < MaxOf[k]
    BY DEF Register, Admissible, CountsAgree
  <2>2. Cardinality(Active') <= Max
    BY <1>2, <2>1, CeilingTypes, ActiveFinite
  <2>3. \A m \in Names : Cardinality(On(m)') <= MaxPerListener
    <3> SUFFICES ASSUME NEW m \in Names
                 PROVE  Cardinality(On(m)') <= MaxPerListener
      OBVIOUS
    <3>1. CASE m = n
      BY <1>2, <2>1, <3>1, CeilingTypes, ActiveFinite
    <3>2. CASE m # n
      BY <1>1, <3>2 DEF WithinCeilings
    <3>3. QED
      BY <3>1, <3>2
  <2>4. \A l \in Kinds : Cardinality(Of(l)') <= MaxOf[l]
    <3> SUFFICES ASSUME NEW l \in Kinds
                 PROVE  Cardinality(Of(l)') <= MaxOf[l]
      OBVIOUS
    <3>1. CASE l = k
      BY <1>2, <2>1, <3>1, CeilingTypes, ActiveFinite
    <3>2. CASE l # k
      BY <1>1, <3>2 DEF WithinCeilings
    <3>3. QED
      BY <3>1, <3>2
  <2>5. QED
    BY <2>2, <2>3, <2>4 DEF WithinCeilings
<1>5. GateHolds'
  <2>1. n \notin gated /\ UNCHANGED gates
    BY DEF Register, Admissible
  <2>2. QED
    BY <1>1, <2>1 DEF GateHolds, gates, RegistryTypeOK
<1>6. StreamsAgree'
  <2>1. leases[nextId] = 0
    BY <1>1, CeilingsCoherent DEF IdsInOrder, Ids
  <2>2. entries'[nextId].streams = 0 /\ \A i \in Active : entries'[i] = entries[i]
    BY <1>1 DEF Register, Added, Active
  <2>3. QED
    BY <1>1, <2>1, <2>2 DEF StreamsAgree, Register
<1>7. IdsInOrder'
  <2>1. nextId \in Int /\ nextId # None
    BY <1>1, CeilingsCoherent DEF Ids
  <2>2. nextId' # None => nextId' = nextId + 1
    BY DEF Register, Following
  <2>3. Active \subseteq Int /\ Ids \subseteq Int
    BY DEF RegistryTypeOK, Ids
  <2>4. QED
    BY <1>1, <2>1, <2>2, <2>3 DEF IdsInOrder, Register
<1>8. QED
  BY <1>3, <1>4, <1>5, <1>6, <1>7

LEMMA InvRelease ==
  ASSUME RegistryInv, NEW i \in Ids, Release(i), RegistryTypeOK'
  PROVE  RegistryInv'
<1> USE DEF RegistryInv
<1>1. /\ Active' = Active \ {i}
      /\ \A m \in Names : On(m)' = On(m) \ {i}
      /\ \A l \in Kinds : Of(l)' = Of(l) \ {i}
      /\ entries[i].name \in Names /\ entries[i].kind \in Kinds
      /\ i \in Active
  BY ReleaseSets DEF Release
<1>2. /\ \A m \in Names : Cardinality(On(m)') =
            IF i \in On(m) THEN Cardinality(On(m)) - 1 ELSE Cardinality(On(m))
      /\ \A l \in Kinds : Cardinality(Of(l)') =
            IF i \in Of(l) THEN Cardinality(Of(l)) - 1 ELSE Cardinality(Of(l))
      /\ Cardinality(Active') = Cardinality(Active) - 1
  BY <1>1, ActiveFinite, FS_RemoveElement
<1>3. /\ \A m : i \in On(m) <=> m = entries[i].name
      /\ \A l : i \in Of(l) <=> l = entries[i].kind
  BY <1>1 DEF On, Of
<1>4. /\ \A m \in Names : i \in On(m) => Cardinality(On(m)) > 0
      /\ \A l \in Kinds : i \in Of(l) => Cardinality(Of(l)) > 0
  <2>1. \A S : IsFiniteSet(S) /\ Cardinality(S) \in Nat /\ i \in S => Cardinality(S) > 0
    BY FS_EmptySet
  <2>2. QED
    BY <2>1, ActiveFinite
<1>5. CountsAgree'
  <2>1. \A m \in Names : perListener'[m] = Cardinality(On(m)')
    <3> SUFFICES ASSUME NEW m \in Names
                 PROVE  perListener'[m] = Cardinality(On(m)')
      OBVIOUS
    <3>1. perListener[m] = Cardinality(On(m)) /\ perListener[m] \in Nat
      BY DEF CountsAgree, RegistryTypeOK
    <3>2. perListener'[m] = IF m = entries[i].name THEN Decrement(perListener[m])
                                                   ELSE perListener[m]
      BY DEF Release, RegistryTypeOK
    <3>3. QED
      BY <1>2, <1>3, <1>4, <3>1, <3>2 DEF Decrement
  <2>2. \A l \in Kinds : perKind'[l] = Cardinality(Of(l)')
    <3> SUFFICES ASSUME NEW l \in Kinds
                 PROVE  perKind'[l] = Cardinality(Of(l)')
      OBVIOUS
    <3>1. perKind[l] = Cardinality(Of(l)) /\ perKind[l] \in Nat
      BY DEF CountsAgree, RegistryTypeOK
    <3>2. perKind'[l] = IF l = entries[i].kind THEN Decrement(perKind[l])
                                               ELSE perKind[l]
      BY DEF Release, RegistryTypeOK
    <3>3. QED
      BY <1>2, <1>3, <1>4, <3>1, <3>2 DEF Decrement
  <2>3. QED
    BY <2>1, <2>2 DEF CountsAgree
<1>6. /\ \A m \in Names : Cardinality(On(m)') <= Cardinality(On(m))
      /\ \A l \in Kinds : Cardinality(Of(l)') <= Cardinality(Of(l))
      /\ Cardinality(Active') <= Cardinality(Active)
      /\ \A m \in Names : Cardinality(On(m)') \in Int
      /\ \A l \in Kinds : Cardinality(Of(l)') \in Int
  BY <1>2, ActiveFinite
<1>7. WithinCeilings'
  <2>1. Cardinality(Active') <= Max
    BY <1>2, ActiveFinite, CeilingTypes DEF WithinCeilings
  <2>2. \A m \in Names : Cardinality(On(m)') <= MaxPerListener
    BY <1>6, ActiveFinite, CeilingTypes DEF WithinCeilings
  <2>3. \A l \in Kinds : Cardinality(Of(l)') <= MaxOf[l]
    BY <1>6, ActiveFinite, CeilingTypes DEF WithinCeilings
  <2>4. QED
    BY <2>1, <2>2, <2>3 DEF WithinCeilings
<1>8. GateHolds'
  <2>1. UNCHANGED gates
    BY DEF Release
  <2>2. \A g \in Guards : \A m \in holds[g] : m \in Names /\ counted[g][m] \in Int
    BY DEF RegistryTypeOK
  <2>3. QED
    BY <1>6, <2>1, <2>2, ActiveFinite DEF GateHolds, gates
<1>9. StreamsAgree'
  <2>1. \A j \in Active' : entries'[j] = entries[j]
    BY <1>1 DEF Release, Active
  <2>2. QED
    BY <1>1, <2>1 DEF StreamsAgree, Release
<1>10. IdsInOrder'
  BY <1>1 DEF IdsInOrder, Release
<1>11. QED
  BY <1>5, <1>7, <1>8, <1>9, <1>10

(* Steps that keep the transports keep what only depends on them. *)
LEMMA KeptCounts ==
  ASSUME RegistryInv, Kept, UNCHANGED <<perListener, perKind>>
  PROVE  CountsAgree' /\ WithinCeilings'
<1>1. /\ \A m : On(m)' = On(m)
      /\ \A l : Of(l)' = Of(l)
      /\ Active' = Active
  BY KeptSets DEF Kept
<1>2. QED
  BY <1>1 DEF RegistryInv, CountsAgree, WithinCeilings

LEMMA KeptGates ==
  ASSUME RegistryInv, Kept, UNCHANGED gates
  PROVE  GateHolds'
BY KeptSets DEF RegistryInv, GateHolds, gates

LEMMA InvKept ==
  ASSUME RegistryInv, RegistryTypeOK', Kept,
         \/ \E s \in Requests, c \in Ids \cup {None} : CancelMatching(s, c)
         \/ \E i \in Ids, w \in Workloads \cup {None} : RecordActor(i, w)
         \/ \E i \in Ids : BeginStream(i)
         \/ \E i \in Ids : EndStream(i)
  PROVE  RegistryInv'
<1>1. UNCHANGED <<nextId, perListener, perKind, gates>>
  BY DEF CancelMatching, RecordActor, BeginStream, EndStream
<1>2. CountsAgree' /\ WithinCeilings' /\ GateHolds'
  BY <1>1, KeptCounts, KeptGates
<1>3. Active' = Active
  BY DEF Kept
<1>4. StreamsAgree' /\ IdsInOrder'
  <2>1. CASE \E s \in Requests, c \in Ids \cup {None} : CancelMatching(s, c)
    <3>1. UNCHANGED <<nextId, leases>>
      BY <2>1 DEF CancelMatching
    <3>2. \A i \in Active : entries'[i].streams = entries[i].streams
      BY <2>1 DEF CancelMatching, Active, RegistryInv, RegistryTypeOK, Entry
    <3>3. QED
      BY <1>3, <3>1, <3>2 DEF RegistryInv, StreamsAgree, IdsInOrder
  <2>2. CASE \E i \in Ids, w \in Workloads \cup {None} : RecordActor(i, w)
    <3>1. UNCHANGED <<nextId, leases>>
      BY <2>2 DEF RecordActor
    <3>2. \A i \in Active : entries'[i].streams = entries[i].streams
      BY <2>2 DEF RecordActor, Active, RegistryInv, RegistryTypeOK, Entry
    <3>3. QED
      BY <1>3, <3>1, <3>2 DEF RegistryInv, StreamsAgree, IdsInOrder
  <2>3. ASSUME NEW i \in Ids, BeginStream(i) PROVE StreamsAgree' /\ IdsInOrder'
    <3>1. i \in Active /\ leases' = [leases EXCEPT ![i] = @ + 1]
      BY <2>3 DEF BeginStream
    <3>2. \A j \in Active : entries'[j].streams =
             IF j = i THEN entries[i].streams + 1 ELSE entries[j].streams
      BY <2>3 DEF BeginStream, Active, RegistryInv, RegistryTypeOK, Entry
    <3>3. StreamsAgree'
      BY <1>3, <3>1, <3>2 DEF RegistryInv, StreamsAgree, RegistryTypeOK
    <3>4. nextId # None => nextId \in Int /\ i < nextId
      BY <3>1 DEF RegistryInv, IdsInOrder, RegistryTypeOK, Ids
    <3>5. \A j \in Ids : j # i => leases'[j] = leases[j]
      BY <3>1 DEF RegistryInv, RegistryTypeOK
    <3>6. i \in Int
      BY DEF Ids
    <3>7. QED
      BY <1>1, <1>3, <3>3, <3>4, <3>5, <3>6 DEF RegistryInv, IdsInOrder
  <2>4. ASSUME NEW i \in Ids, EndStream(i) PROVE StreamsAgree' /\ IdsInOrder'
    <3>1. leases[i] > 0 /\ leases' = [leases EXCEPT ![i] = @ - 1]
      BY <2>4 DEF EndStream
    <3>2. \A j \in Active : entries'[j].streams =
             IF j = i THEN Decrement(entries[i].streams) ELSE entries[j].streams
      BY <2>4 DEF EndStream, Active, RegistryInv, RegistryTypeOK, Entry
    <3>3. StreamsAgree'
      <4> SUFFICES ASSUME NEW j \in Active PROVE entries'[j].streams = leases'[j]
        BY <1>3 DEF StreamsAgree
      <4>1. j \in Ids /\ entries[j].streams = leases[j] /\ leases[j] \in Nat
        BY DEF RegistryInv, StreamsAgree, RegistryTypeOK
      <4>2. QED
        BY <3>1, <3>2, <4>1 DEF Decrement, RegistryInv, RegistryTypeOK
    <3>4. IdsInOrder'
      BY <1>1, <1>3, <3>1 DEF RegistryInv, RegistryTypeOK, IdsInOrder
    <3>5. QED
      BY <3>3, <3>4
  <2>5. QED
    BY <2>1, <2>2, <2>3, <2>4
<1>5. QED
  BY <1>2, <1>4 DEF RegistryInv

LEMMA InvGates ==
  ASSUME RegistryInv, RegistryTypeOK', NEW g \in Guards,
         \/ \E ns \in SUBSET Names : CloseGate(g, ns)
         \/ OpenGate(g)
  PROVE  RegistryInv'
<1>1. UNCHANGED <<nextId, entries, perListener, perKind, leases>>
  BY DEF CloseGate, OpenGate
<1>2. Kept
  BY <1>1 DEF Kept, Active
<1>3. CountsAgree' /\ WithinCeilings'
  BY <1>1, <1>2, KeptCounts
<1>4. StreamsAgree' /\ IdsInOrder'
  BY <1>1 DEF RegistryInv, StreamsAgree, IdsInOrder, Active
<1>5. \A m : On(m)' = On(m)
  BY <1>2, KeptSets
<1>6. GateHolds'
  <2>1. ASSUME NEW ns \in SUBSET Names, CloseGate(g, ns) PROVE GateHolds'
    <3>1. /\ holds[g] = {} /\ ns \cap gated = {} /\ gated' = gated \cup ns
          /\ holds' = [holds EXCEPT ![g] = ns]
          /\ \A n \in ns : counted'[g][n] = perListener[n]
          /\ \A h \in Guards : h # g => counted'[h] = counted[h]
      BY <2>1 DEF CloseGate, RegistryInv, RegistryTypeOK
    <3>2. \A n \in ns : /\ perListener[n] = Cardinality(On(n))
                        /\ Cardinality(On(n)) \in Int
      BY ActiveFinite DEF RegistryInv, CountsAgree
    <3>3. \A h \in Guards : holds'[h] = IF h = g THEN ns ELSE holds[h]
      BY <3>1 DEF RegistryInv, RegistryTypeOK
    <3>4. \A h \in Guards : \A n \in holds'[h] :
             n \in gated' /\ Cardinality(On(n)') <= counted'[h][n]
      <4> SUFFICES ASSUME NEW h \in Guards, NEW n \in holds'[h]
                   PROVE  n \in gated' /\ Cardinality(On(n)') <= counted'[h][n]
        OBVIOUS
      <4>1. CASE h = g
        BY <1>5, <3>1, <3>2, <3>3, <4>1
      <4>2. CASE h # g
        BY <1>5, <3>1, <3>3, <4>2 DEF RegistryInv, GateHolds
      <4>3. QED
        BY <4>1, <4>2
    <3>5. \A h, k \in Guards : h # k => holds'[h] \cap holds'[k] = {}
      BY <3>1, <3>3 DEF RegistryInv, GateHolds
    <3>6. QED
      BY <3>4, <3>5 DEF GateHolds
  <2>2. CASE OpenGate(g)
    <3>1. /\ gated' = gated \ holds[g]
          /\ holds' = [holds EXCEPT ![g] = {}]
          /\ \A h \in Guards : h # g => counted'[h] = counted[h]
      BY <2>2 DEF OpenGate, RegistryInv, RegistryTypeOK
    <3>2. \A h \in Guards : holds'[h] = IF h = g THEN {} ELSE holds[h]
      BY <3>1 DEF RegistryInv, RegistryTypeOK
    <3>3. QED
      BY <1>5, <3>1, <3>2 DEF RegistryInv, GateHolds
  <2>3. QED
    BY <2>1, <2>2
<1>7. QED
  BY <1>3, <1>4, <1>6 DEF RegistryInv

LEMMA InvNext == RegistryInv /\ [RegistryNext]_registry => RegistryInv'
<1> SUFFICES ASSUME RegistryInv, [RegistryNext]_registry PROVE RegistryInv'
  OBVIOUS
<1>1. RegistryTypeOK /\ RegistryTypeOK'
  BY TypeNext DEF RegistryInv
<1>2. ASSUME NEW n \in Names, NEW k \in Kinds, NEW u \in Uids, Register(n, k, u)
      PROVE  RegistryInv'
  BY <1>1, <1>2, InvRegister
<1>3. ASSUME NEW i \in Ids, Release(i) PROVE RegistryInv'
  BY <1>1, <1>3, InvRelease
<1>4. ASSUME \/ \E s \in Requests, c \in Ids \cup {None} : CancelMatching(s, c)
             \/ \E i \in Ids, w \in Workloads \cup {None} : RecordActor(i, w)
             \/ \E i \in Ids : BeginStream(i)
             \/ \E i \in Ids : EndStream(i)
      PROVE  RegistryInv'
  <2>1. Kept
    BY <1>1, <1>4, StepsKept
  <2>2. QED
    BY <1>1, <1>4, <2>1, InvKept
<1>5. ASSUME NEW g \in Guards,
             (\E ns \in SUBSET Names : CloseGate(g, ns)) \/ OpenGate(g)
      PROVE  RegistryInv'
  BY <1>1, <1>5, InvGates
<1>6. CASE UNCHANGED registry
  BY <1>6 DEF registry, gates, RegistryInv, RegistryTypeOK, CountsAgree,
     WithinCeilings, GateHolds, StreamsAgree, IdsInOrder, On, Of, Active
<1>7. QED
  BY <1>2, <1>3, <1>4, <1>5, <1>6 DEF RegistryNext

LEMMA InvHolds == RegistrySpec => []RegistryInv
BY InvInit, InvNext, PTL DEF RegistrySpec

-----------------------------------------------------------------------------
(* The counters beside the entries always count them. *)
THEOREM CountersExact == RegistrySpec => []CountsAgree
BY InvHolds, PTL DEF RegistryInv

(* register admits nothing above any of the four ceilings. *)
THEOREM CeilingsHold == RegistrySpec => []WithinCeilings
BY InvHolds, PTL DEF RegistryInv

(* Couriers cannot take the whole of the global ceiling. *)
THEOREM HostKeepsReserve == RegistrySpec => []HostReserve
<1>1. RegistryInv => HostReserve
  <2> SUFFICES ASSUME RegistryInv, Cardinality(Of(Host)) < Max - MaxOf[Courier]
               PROVE  Cardinality(Active) < Max
    BY DEF HostReserve
  <2>1. Active = Of(Host) \cup Of(Courier)
    BY DEF RegistryInv, RegistryTypeOK, Entry, Kinds, Of
  <2>2. Of(Host) \cap Of(Courier) = {}
    BY CeilingsCoherent DEF Of
  <2>3. Cardinality(Active) = Cardinality(Of(Host)) + Cardinality(Of(Courier)) - 0
    BY <2>1, <2>2, ActiveFinite, FS_Union, FS_EmptySet DEF RegistryInv
  <2>4. Cardinality(Of(Courier)) <= MaxOf[Courier] /\ MaxOf[Courier] \in Nat
    BY CeilingTypes DEF RegistryInv, WithinCeilings, Kinds
  <2>5. /\ Cardinality(Of(Host)) \in Nat /\ Cardinality(Of(Courier)) \in Nat
        /\ Max \in Nat
    BY ActiveFinite, CeilingTypes DEF RegistryInv
  <2>6. QED
    BY <2>3, <2>4, <2>5
<1>2. QED
  BY <1>1, InvHolds, PTL

(* No transport appears on a gated listener, and gates exclude each other:   *)
(* a transition's zero-active check still holds when it commits.             *)
THEOREM GateExact == RegistrySpec => []GateHolds
BY InvHolds, PTL DEF RegistryInv

(* A live transport's stream count is the number of its leases. *)
THEOREM StreamsExact == RegistrySpec => []StreamsAgree
BY InvHolds, PTL DEF RegistryInv

(* Contexts never change and ids are never reused. *)
THEOREM ContextNeverChanges == RegistrySpec => ContextFixed
<1> DEFINE A == \A i \in Ids :
       /\ i \in Active \cap DOMAIN entries' =>
            /\ entries'[i].name = entries[i].name
            /\ entries'[i].kind = entries[i].kind
            /\ entries'[i].uid = entries[i].uid
       /\ i \in DOMAIN entries' \ Active => leases[i] = 0 /\ i = nextId
<1>1. RegistryInv /\ [RegistryNext]_registry => [A]_registry
  <2> SUFFICES ASSUME RegistryInv, RegistryNext PROVE A
    OBVIOUS
  <2>0. RegistryTypeOK /\ Active' = DOMAIN entries'
    BY DEF RegistryInv, Active
  <2>1. CASE Kept
    BY <2>0, <2>1 DEF Kept
  <2>2. ASSUME NEW n \in Names, NEW k \in Kinds, NEW u \in Uids, Register(n, k, u)
        PROVE  A
    <3>1. nextId \in Ids \ Active /\ Active' = Active \cup {nextId}
      BY <2>0, <2>2, RegisterSets
    <3>2. \A i \in Active : entries'[i] = entries[i]
      BY <2>2, <3>1 DEF Register, Added, Active
    <3>3. leases[nextId] = 0
      BY <3>1, CeilingsCoherent DEF RegistryInv, IdsInOrder, Ids
    <3>4. QED
      BY <2>0, <3>1, <3>2, <3>3
  <2>3. ASSUME NEW j \in Ids, Release(j) PROVE A
    <3>1. Active' = Active \ {j}
      BY <2>0, <2>3, ReleaseSets
    <3>2. \A i \in Active' : entries'[i] = entries[i]
      BY <2>3, <3>1 DEF Release, Active
    <3>3. QED
      BY <2>0, <3>1, <3>2
  <2>4. CASE UNCHANGED entries
    BY <2>4 DEF Active
  <2>5. QED
    BY <2>0, <2>1, <2>2, <2>3, <2>4, StepsKept DEF RegistryNext, CloseGate, OpenGate
<1>2. QED
  BY <1>1, InvHolds, PTL DEF RegistrySpec, ContextFixed

-----------------------------------------------------------------------------
(* The listener runtime.  What holds between any two steps of a transition,  *)
(* of the accept loops, of a shutdown and of whatever else uses the paths.   *)

TrType == [pc : Pcs, cand : Candidates \cup {NoSet}, todo : SUBSET Names,
           new : [Names -> {0} \cup Sockets], swapped : SUBSET Names,
           retired : SUBSET Sockets, cur : {0} \cup Sockets]
Types ==
  /\ TypeOK
  /\ tr \in TrType
  /\ tr.pc # "idle" => tr.cand \in Candidates
  /\ draining \in [left : SUBSET Sockets, cur : {0} \cup Sockets]
  /\ touched \subseteq Paths /\ aliens \in Nat

(* From the lock to the commit. *)
Pre == tr.pc \in {"stage", "bind", "publish", "exchange", "swap", "confirm", "commit"}
Full == tr.pc \in {"publish", "exchange", "swap", "confirm", "commit"}
Wanted == Changed \cap DOMAIN tr.cand
Rec(n, l) == [name |-> n, kind |-> l.kind, path |-> l.path]
Drains == draining.left \cup {draining.cur}

(* How far the transition has come: which sockets are staged and exchanged.  *)
Unlocked ==
  /\ tr.pc = "idle" => tr = IdleTr
  /\ tr.pc # "retire" => tr.retired = {} /\ tr.cur = 0
  /\ ~Pre /\ tr.pc # "retire" =>
       tr.new = [n \in Names |-> 0] /\ tr.swapped = {} /\ tr.todo = {}
StagedSoFar ==
  /\ tr.pc = "stage" => /\ tr.todo \subseteq Same
                        /\ \A n \in Wanted : tr.new[n] # 0 <=> n \in Same \ tr.todo
  /\ tr.pc = "bind" => /\ tr.todo \subseteq Ordinary
                       /\ \A n \in Wanted : tr.new[n] # 0 <=> n \notin tr.todo
  /\ Full => \A n \in Wanted : tr.new[n] # 0
SwappedSoFar ==
  /\ tr.pc \in {"stage", "bind", "publish"} => tr.swapped = {}
  /\ Pre => tr.swapped \subseteq Same
  /\ tr.pc = "publish" => tr.todo \subseteq Ordinary
  /\ tr.pc = "exchange" => tr.todo = Same \ tr.swapped
  /\ tr.pc \in {"swap", "confirm"} => \E n \in Same \ tr.swapped : tr.todo = {n}
  /\ tr.pc = "commit" => tr.swapped = Same

(* Every socket has at most one owner, and is what its owner takes it for.   *)
Allocated == \A i \in Sockets : made[i] = None <=> loop[i] = "none"
RunningOK ==
  \A n \in Names : running[n] # 0 =>
    /\ n \in DOMAIN config /\ loop[running[n]] \in {"serving", "failed"}
    /\ made[running[n]] = Rec(n, config[n])
AllRunning == phase = "up" => \A n \in DOMAIN config : running[n] # 0
FreshOK ==
  Pre => \A n \in Names : tr.new[n] # 0 =>
    n \in Wanted /\ loop[tr.new[n]] = "bound" /\ made[tr.new[n]] = Rec(n, tr.cand[n])
LeavingOK ==
  /\ \A i \in tr.retired \cup draining.left : loop[i] \in {"serving", "failed"}
  /\ \A i \in {tr.cur, draining.cur} \ {0} :
       loop[i] \in {"asked", "stopping", "closed", "failed"}
  /\ tr.cur \notin tr.retired /\ draining.cur \notin draining.left
  /\ phase # "stopping" => draining = [left |-> {}, cur |-> 0]
Disjoint ==
  \A i \in Sockets : /\ i \in InUse => i \notin Left /\ i \notin Drains
                     /\ i \in Left => i \notin Drains

(* What is at the paths. *)
Owner(i) == i \in InUse \/ i \in Left \/ i \in Drains \/ (Pre /\ i \in Fresh)
Placed == Tried \cup IF tr.pc \in {"stage", "bind"} THEN {}
                     ELSE IF tr.pc = "publish" THEN Ordinary \ tr.todo ELSE Ordinary
OwnedPaths ==
  \A p \in Paths : sock[p] \in Sockets =>
    made[sock[p]] # None /\ Path(sock[p]) = p /\ Owner(sock[p])
OldAt ==
  \A n \in Names : running[n] # 0 /\ ~(Pre /\ n \in Tried) =>
    sock[config[n].path] = running[n] \/ config[n].path \in touched
NewAt ==
  Pre => \A n \in Placed :
    sock[tr.cand[n].path] = tr.new[n] \/ tr.cand[n].path \in touched

(* What is in the staging directories: a socket that is not published yet,   *)
(* or the one it was exchanged for.                                          *)
StagedFor(i, n) ==
  /\ tr.new[n] = i
  /\ (n \notin Placed /\ stage[i] = i) \/ (n \in Tried /\ stage[i] = running[n])
StageOnly == \A i \in Sockets : stage[i] \in Sockets =>
               Pre /\ \E n \in Names : StagedFor(i, n)
StageOld ==
  /\ Pre => \A n \in tr.swapped : stage[tr.new[n]] = running[n]
  /\ tr.pc = "swap" => \A n \in tr.todo :
       sock[tr.cand[n].path] \in Sockets => sock[tr.cand[n].path] = running[n]
  /\ tr.pc = "confirm" => \A n \in tr.todo :
       stage[tr.new[n]] = running[n] \/ tr.cand[n].path \in touched

(* The gate is over the listeners the transition disturbs, and once they     *)
(* have been found without transports they stay so.                          *)
GateOver ==
  /\ tr.pc \notin {"idle", "retire"} => holds[Reload] = Disrupted
  /\ tr.pc \notin {"idle", "gated"} => \A n \in holds[Reload] : On(n) = {}
  /\ \A i \in Left \ {0} : made[i].name \in holds[Reload]

(* A transport and the accept loop it came through. *)
Routed ==
  /\ \A c \in Ids : via[c] # 0 =>
       /\ c \in Active /\ loop[via[c]] \notin {"none", "bound"}
       /\ entries[c].name = made[via[c]].name /\ entries[c].kind = made[via[c]].kind
  /\ phase = "up" => \A c \in Active : via[c] # 0

LedgerInv == DOMAIN original = DOMAIN config /\ LedgerExact

Steps == Unlocked /\ StagedSoFar /\ SwappedSoFar
Owned == Allocated /\ RunningOK /\ AllRunning /\ FreshOK /\ LeavingOK /\ Disjoint
Filed == OwnedPaths /\ OldAt /\ NewAt /\ StageOnly /\ StageOld
ListenersInv ==
  RegistryInv /\ Types /\ LedgerInv /\ Steps /\ Owned /\ Filed /\ GateOver /\ Routed

-----------------------------------------------------------------------------
(* Facts about the constants. *)
LEMMA SocketFacts ==
  /\ 0 \notin Sockets /\ None \notin Sockets /\ Alien \notin Sockets /\ None # Alien
  /\ Reload \in Guards /\ Peer \in Uids
  /\ None \notin [name : Names, kind : Kinds, path : Paths]
  /\ None # 0 /\ Alien # 0
  /\ \A cand \in Candidates : WellFormed(cand)
  /\ WellFormed(Startup)
BY CeilingsCoherent, ListenersOK DEF Sockets

(* Every step is one of the registry or leaves it alone. *)
LEMMA ListenersUseRegistry ==
  ASSUME Types, Allocated, Next
  PROVE  RegistryNext \/ UNCHANGED registry
<1> USE SocketFacts DEF RegistryNext
<1>1. ASSUME NEW i \in Sockets, Accept(i) PROVE RegistryNext \/ UNCHANGED registry
  <2>1. ASSUME Register(made[i].name, made[i].kind, Peer) PROVE RegistryNext
    <3>1. made[i] \in [name : Names, kind : Kinds, path : Paths] \cup {None}
      BY DEF Types, TypeOK
    <3>2. made[i] # None
      BY <1>1 DEF Accept, Allocated
    <3>3. QED
      BY <2>1, <3>1, <3>2
  <2>2. QED
    BY <1>1, <2>1 DEF Accept
<1>2. ASSUME NEW c \in Ids, Close(c) PROVE RegistryNext
  BY <1>2 DEF Close
<1>3. CASE Begin
  <2>1. CloseGate(Reload, Disrupted')
    BY <1>3 DEF Begin
  <2>2. Disrupted' \subseteq Names
    BY <1>3 DEF Begin, Quiet, Calm, Disrupted, Types, TypeOK, WellFormed
  <2>3. QED
    BY <2>1, <2>2
<1>4. CASE Refuse \/ Preflight \/ Abort \/ Finish \/ DropWaiting \/ DropRetiring
  BY <1>4, SMTT(30) DEF Refuse, Preflight, Abort, Finish, DropWaiting, DropRetiring
<1>5. CASE \/ AwaitLock \/ Lock \/ Advance \/ Commit \/ Reap
           \/ \E n \in Names : StageSame(n) \/ StageOrdinary(n) \/ Publish(n)
                               \/ Qualify(n) \/ Swap(n) \/ Confirm(n)
           \/ \E i \in Sockets : Retire(i)
  BY <1>5 DEF AwaitLock, Lock, Advance, Commit, Reap, StageSame, StageOrdinary, Stage,
     Publish, Qualify, Swap, Confirm, Retire
<1>6. CASE \/ \E p \in Paths : Foreign(p)
           \/ \E i \in Sockets : Stopping(i) \/ Ended(i) \/ Fails(i) \/ Drain(i)
           \/ Shutdown \/ Drained \/ Exit
  BY <1>6 DEF Foreign, Stopping, Ended, Fails, Drain, Shutdown, Drained, Exit
<1>7. QED
  BY <1>1, <1>2, <1>3, <1>4, <1>5, <1>6 DEF Next, Proceed

(* A socket to bind is one that nobody has. *)
(* The transition that is not there. *)
LEMMA IdleType == IdleTr \in TrType /\ IdleTr.pc = "idle"
BY DEF IdleTr, TrType, Pcs

LEMMA NewSocketFree ==
  ASSUME HasRoom
  PROVE  NewSocket \in Sockets /\ made[NewSocket] = None
BY DEF HasRoom, NewSocket

(* Forget keeps the types. *)
LEMMA ForgetTypes ==
  ASSUME Types, NEW gone, Forget(gone)
  PROVE  /\ made' \in [Sockets -> [name : Names, kind : Kinds, path : Paths] \cup {None}]
         /\ via' \in [Ids -> {0} \cup Sockets]
BY DEF Forget, Types, TypeOK

(* The parts of Types that a step may disturb. *)
FileTypes ==
  /\ made \in [Sockets -> [name : Names, kind : Kinds, path : Paths] \cup {None}]
  /\ loop \in [Sockets -> States]
  /\ via \in [Ids -> {0} \cup Sockets]
  /\ sock \in [Paths -> Sockets \cup {None, Alien}]
  /\ stage \in [Sockets -> Sockets \cup {None, Alien}]
  /\ touched \subseteq Paths /\ aliens \in Nat
ListTypes ==
  /\ WellFormed(config)
  /\ DOMAIN ledger \subseteq Names /\ \A n \in DOMAIN ledger : ledger[n] \in Paths
TrTypes == tr \in TrType /\ (tr.pc # "idle" => tr.cand \in Candidates)
ProcessTypes ==
  /\ running \in [Names -> {0} \cup Sockets]
  /\ phase \in {"up", "stopping", "down"}
  /\ draining \in [left : SUBSET Sockets, cur : {0} \cup Sockets]

LEMMA TypesSplit ==
  /\ Types <=> RegistryTypeOK /\ FileTypes /\ ListTypes /\ TrTypes /\ ProcessTypes
  /\ Types' <=> RegistryTypeOK' /\ FileTypes' /\ ListTypes' /\ TrTypes' /\ ProcessTypes'
BY DEF Types, TypeOK, FileTypes, ListTypes, TrTypes, ProcessTypes, TrType, Pcs

LEMMA TrTypesNext ==
  ASSUME Types, Next
  PROVE  TrTypes'
<1>0. TrTypes /\ ListTypes /\ ProcessTypes
  BY TypesSplit
<1>a. Changed \subseteq Names /\ Same \subseteq Names /\ Ordinary \subseteq Names
  <2>1. tr.cand \in Candidates \cup {NoSet} /\ DOMAIN config \subseteq Names
    BY <1>0 DEF TrTypes, TrType, ListTypes, WellFormed
  <2>2. DOMAIN tr.cand \subseteq Names
    BY <2>1, SocketFacts DEF NoSet, WellFormed
  <2>3. QED
    BY <2>1, <2>2 DEF Changed, Same, Ordinary
<1> USE <1>0, <1>a DEF TrTypes
<1>1. CASE \/ Refuse \/ Preflight \/ Abort \/ Finish \/ DropWaiting \/ DropRetiring
  BY <1>1, IdleType DEF Refuse, Preflight, Abort, Finish, DropWaiting, DropRetiring
<1>2. CASE Begin
  BY <1>2, IdleType DEF Begin, TrType, Pcs
<1>3. CASE AwaitLock \/ Lock \/ Advance
  <2>1. PICK pc \in Pcs, todo \in SUBSET Names : tr' = [tr EXCEPT !.pc = pc, !.todo = todo]
    BY <1>3 DEF AwaitLock, Lock, Advance, To, Pcs
  <2>2. tr.pc # "idle"
    BY <1>3 DEF AwaitLock, Lock, Advance
  <2>3. QED
    BY <2>1, <2>2 DEF TrType
<1>4. ASSUME NEW n \in Names, StageSame(n) \/ StageOrdinary(n) PROVE TrTypes'
  <2>1. /\ tr' = [tr EXCEPT !.todo = @ \ {n}, !.new[n] = NewSocket]
        /\ NewSocket \in Sockets /\ tr.pc # "idle"
    BY <1>4, NewSocketFree DEF StageSame, StageOrdinary, Stage
  <2>2. QED
    BY <2>1 DEF TrType
<1>5. ASSUME NEW n \in Names, Publish(n) \/ Qualify(n) \/ Swap(n) PROVE TrTypes'
  <2>1. PICK pc \in Pcs, todo \in SUBSET Names : tr' = [tr EXCEPT !.pc = pc, !.todo = todo]
    <3>1. CASE Publish(n)
      <4>1. tr' = [tr EXCEPT !.pc = tr.pc, !.todo = tr.todo \ {n}]
        BY <3>1 DEF Publish, TrType
      <4>2. QED
        BY <4>1 DEF TrType
    <3>2. CASE Qualify(n) \/ Swap(n)
      BY <3>2, ZenonT(40) DEF Qualify, Swap, To, Pcs
    <3>3. QED
      BY <1>5, <3>1, <3>2
  <2>2. tr.pc # "idle"
    BY <1>5 DEF Publish, Qualify, Swap
  <2>3. QED
    BY <2>1, <2>2 DEF TrType
<1>6. ASSUME NEW n \in Names, Confirm(n) PROVE TrTypes'
  <2>1. PICK todo \in SUBSET Names :
          tr' = [tr EXCEPT !.pc = "exchange", !.swapped = @ \cup {n}, !.todo = todo]
    BY <1>6 DEF Confirm
  <2>2. tr.pc # "idle" /\ "exchange" \in Pcs
    BY <1>6 DEF Confirm, Pcs
  <2>3. QED
    BY <2>1, <2>2 DEF TrType
<1>7. CASE Commit
  <2>1. PICK out \in SUBSET Sockets : tr' = [tr EXCEPT !.pc = "retire", !.retired = out]
    BY <1>7 DEF Commit, ProcessTypes
  <2>2. tr.pc # "idle" /\ "retire" \in Pcs
    BY <1>7 DEF Commit, Pcs
  <2>3. QED
    BY <2>1, <2>2 DEF TrType
<1>8. CASE Reap \/ \E i \in Sockets : Retire(i)
  BY <1>8, ZenonT(40) DEF Reap, Retire, TrType, Pcs
<1>9. CASE UNCHANGED tr
  BY <1>9
<1>10. QED
  BY <1>1, <1>2, <1>3, <1>4, <1>5, <1>6, <1>7, <1>8, <1>9
     DEF Next, Proceed, Foreign, Accept, Stopping, Ended, Fails, Drain, Close, Shutdown,
         Drained, Exit

(* The listeners of the two sets, and the ones a transition works on. *)
LEMMA Lists ==
  ASSUME ListenersInv
  PROVE  /\ \A n \in DOMAIN config : n \in Names /\ config[n].path \in Paths
                                     /\ config[n].kind \in Kinds
         /\ \A m, n \in DOMAIN config : config[m].path = config[n].path => m = n
         /\ \A n \in DOMAIN tr.cand : n \in Names /\ tr.cand[n] \in [kind : Kinds, path : Paths]
                                      /\ tr.cand[n].path \in Paths
         /\ \A m, n \in DOMAIN tr.cand : tr.cand[m].path = tr.cand[n].path => m = n
         /\ Changed \subseteq Names /\ Disrupted \subseteq Names
         /\ Wanted = Same \cup Ordinary /\ Same \cap Ordinary = {}
         /\ Wanted \subseteq DOMAIN tr.cand /\ Wanted \subseteq Names
<1>1. /\ \A n \in DOMAIN config : n \in Names /\ config[n] \in [kind : Kinds, path : Paths]
      /\ \A m, n \in DOMAIN config : config[m].path = config[n].path => m = n
  BY DEF ListenersInv, Types, TypeOK, WellFormed
<1>2. tr.cand \in Candidates \cup {NoSet}
  BY DEF ListenersInv, Types, TrType
<1>3. /\ \A n \in DOMAIN tr.cand : n \in Names /\ tr.cand[n] \in [kind : Kinds, path : Paths]
      /\ \A m, n \in DOMAIN tr.cand : tr.cand[m].path = tr.cand[n].path => m = n
  BY <1>2, SocketFacts DEF NoSet, WellFormed
<1>4. Changed \subseteq Names /\ Disrupted \subseteq Names
  BY <1>1, <1>3 DEF Changed, Disrupted
<1>5. /\ Wanted = Same \cup Ordinary /\ Same \cap Ordinary = {}
      /\ Wanted \subseteq DOMAIN tr.cand /\ Wanted \subseteq Names
  BY <1>4 DEF Wanted, Same, Ordinary
<1>6. QED
  BY <1>1, <1>3, <1>4, <1>5

LEMMA RecFields ==
  \A n, l : Rec(n, l).name = n /\ Rec(n, l).kind = l.kind /\ Rec(n, l).path = l.path
BY DEF Rec

(* The listeners that keep their path, by what is configured. *)
LEMMA SameIs ==
  /\ RunningOK /\ Wanted \subseteq Names =>
       Same = {n \in Wanted : running[n] # 0 /\ config[n].path = tr.cand[n].path}
  /\ RunningOK' /\ Wanted' \subseteq Names =>
       Same' = {n \in Wanted' : running'[n] # 0 /\ config'[n].path = tr'.cand[n].path}
<1>1. ASSUME RunningOK, Wanted \subseteq Names
      PROVE  Same = {n \in Wanted : running[n] # 0 /\ config[n].path = tr.cand[n].path}
  <2>1. \A n \in Wanted : running[n] # 0 => made[running[n]].path = config[n].path
    BY <1>1, RecFields DEF RunningOK
  <2>2. QED
    BY <2>1 DEF Same, SamePath, Wanted
<1>2. ASSUME RunningOK', Wanted' \subseteq Names
      PROVE  Same' = {n \in Wanted' : running'[n] # 0 /\ config'[n].path = tr'.cand[n].path}
  <2>1. \A n \in Wanted' : running'[n] # 0 => made'[running'[n]].path = config'[n].path
    BY <1>2, RecFields DEF RunningOK
  <2>2. QED
    BY <2>1 DEF Same, SamePath, Wanted
<1>3. QED
  BY <1>1, <1>2

LEMMA Works ==
  ASSUME ListenersInv
  PROVE  /\ \A n \in Same : /\ n \in Wanted /\ n \in DOMAIN config /\ running[n] \in Sockets
                            /\ config[n].path = tr.cand[n].path
         /\ Pre /\ tr.pc # "commit" => tr.todo \subseteq Wanted
         /\ Pre => tr.swapped \subseteq Same
         /\ tr.pc \in {"swap", "confirm"} => tr.todo \subseteq Same
         /\ Pre => Tried \subseteq Same
         /\ Full => \A n \in Wanted : tr.new[n] \in Sockets
         /\ \A n \in Names : running[n] \in {0} \cup Sockets /\ tr.new[n] \in {0} \cup Sockets
<1>1. \A n \in Names : running[n] \in {0} \cup Sockets /\ tr.new[n] \in {0} \cup Sockets
  BY DEF ListenersInv, Types, TypeOK, TrType
<1>2. \A n \in Same : /\ n \in Wanted /\ n \in DOMAIN config /\ running[n] \in Sockets
                      /\ config[n].path = tr.cand[n].path
  BY <1>1, Lists, SameIs DEF ListenersInv, Owned, RunningOK, Types, TypeOK
<1>3. /\ Pre => tr.swapped \subseteq Same
      /\ tr.pc \in {"swap", "confirm"} => tr.todo \subseteq Same
  BY DEF ListenersInv, Steps, SwappedSoFar
<1>4. Pre /\ tr.pc # "commit" => tr.todo \subseteq Wanted
  BY Lists DEF ListenersInv, Steps, StagedSoFar, SwappedSoFar, Pre
<1>5. Pre => Tried \subseteq Same
  BY <1>3 DEF Tried
<1>6. Full => \A n \in Wanted : tr.new[n] \in Sockets
  BY <1>1, Lists DEF ListenersInv, Steps, StagedSoFar
<1>7. QED
  BY <1>1, <1>2, <1>3, <1>4, <1>5, <1>6

LEMMA FileTypesNext ==
  ASSUME ListenersInv, Next
  PROVE  FileTypes'
<1>0. FileTypes /\ TrTypes /\ ProcessTypes /\ RegistryTypeOK
  BY TypesSplit DEF ListenersInv
<1>a. None \in Sockets \cup {None, Alien} /\ Alien \in Sockets \cup {None, Alien}
  OBVIOUS
<1>b. {"none", "bound", "serving", "asked", "stopping", "closed", "failed"} = States
  BY DEF States
<1>c. \A i : Ask(i) \in {"asked", loop[i]}
  BY DEF Ask
<1>d. \A mine, i : Unlink(mine, i) \in {None, i}
  BY DEF Unlink
<1>f. ASSUME NEW mine, \E late \in SUBSET Holding(mine) : \E removed : Raced(late, removed)
      PROVE  touched' \subseteq Paths /\ aliens' \in Nat
  BY <1>0, <1>f DEF Raced, Holding, FileTypes
<1> USE <1>0 DEF FileTypes
<1>e. Types
  BY DEF ListenersInv
<1>1. ASSUME NEW i \in Sockets, Accept(i) PROVE FileTypes'
  BY <1>1, SocketFacts DEF Accept, files, history, Register, Admissible, RegistryTypeOK
<1>2. ASSUME NEW c \in Ids, Close(c) PROVE FileTypes'
  BY <1>2 DEF Close, files, history
<1>3. ASSUME NEW i \in Sockets, Stopping(i) \/ Ended(i) \/ Fails(i) \/ Drain(i) PROVE FileTypes'
  <2>1. CASE Stopping(i) \/ Fails(i)
    BY <2>1, <1>b DEF Stopping, Fails, files, history
  <2>2. CASE Ended(i)
    BY <2>2, <1>b, ForgetTypes, <1>e DEF Ended, files, history
  <2>3. CASE Drain(i)
    BY <2>3, <1>b, <1>c DEF Drain, files, history
  <2>4. QED
    BY <1>3, <2>1, <2>2, <2>3
<1>4. ASSUME NEW p \in Paths, Foreign(p) PROVE FileTypes'
  BY <1>4, SMTT(30) DEF Foreign
<1>5. CASE \/ Begin \/ Refuse \/ AwaitLock \/ Lock \/ Preflight \/ Advance \/ Finish \/ DropWaiting
           \/ \E n \in Names : Qualify(n) \/ Confirm(n)
  BY <1>5 DEF Begin, Refuse, AwaitLock, Lock, Preflight, Advance, Finish, DropWaiting,
     Qualify, Confirm, Quiet, files, history
<1>6. ASSUME NEW n \in Names, StageSame(n) \/ StageOrdinary(n) PROVE FileTypes'
  <2>1. tr.cand[n] \in [kind : Kinds, path : Paths]
    BY <1>6, Lists, Works DEF StageSame, StageOrdinary, Pre
  <2>2. [name |-> n, kind |-> tr.cand[n].kind, path |-> tr.cand[n].path]
          \in [name : Names, kind : Kinds, path : Paths]
    BY <2>1
  <2>3. QED
    BY <1>6, <2>2, <1>b, NewSocketFree DEF StageSame, StageOrdinary, Stage, Quiet, history
<1>7. ASSUME NEW n \in Names, Publish(n) \/ Swap(n) PROVE FileTypes'
  <2>1. tr.new[n] \in Sockets /\ tr.cand[n].path \in Paths
    BY <1>7, Lists, Works DEF Publish, Swap, Pre, Full
  <2>2. QED
    BY <1>7, <2>1 DEF Publish, Swap, Quiet, history
<1>8. CASE Abort
  <2>1. /\ made' \in [Sockets -> [name : Names, kind : Kinds, path : Paths] \cup {None}]
        /\ via' \in [Ids -> {0} \cup Sockets]
    BY <1>8, ForgetTypes, <1>e DEF Abort
  <2>2. loop' \in [Sockets -> States]
    BY <1>8, <1>b DEF Abort
  <2>3. stage' \in [Sockets -> Sockets \cup {None, Alien}]
    BY <1>8, <1>d DEF Abort
  <2>4. sock' \in [Paths -> Sockets \cup {None, Alien}]
    <3> SUFFICES ASSUME NEW p \in Paths PROVE sock'[p] \in Sockets \cup {None, Alien}
      BY <1>8 DEF Abort
    <3>1. ASSUME NEW n \in Undone, tr.cand[n].path = p
          PROVE  running[CHOOSE m \in Undone : tr.cand[m].path = p] \in Sockets
      BY <1>8, <3>1, Works DEF Abort, Undone, Pre
    <3>2. QED
      BY <1>8, <1>d, <3>1 DEF Abort
  <2>5. touched' \subseteq Paths /\ aliens' \in Nat
    BY <1>8, <1>f DEF Abort
  <2>6. QED
    BY <2>1, <2>2, <2>3, <2>4, <2>5
<1>9. CASE Commit \/ \E i \in Sockets : Retire(i)
  <2>1. CASE Commit
    BY <2>1, <1>b, <1>d DEF Commit, history
  <2>2. ASSUME NEW i \in Sockets, Retire(i) PROVE FileTypes'
    BY <2>2, <1>b, <1>c DEF Retire, Quiet, files, history
  <2>3. QED
    BY <1>9, <2>1, <2>2
<1>10. CASE Reap \/ Drained
  <2>1. touched' \subseteq Paths /\ aliens' \in Nat
    BY <1>10, <1>f DEF Reap, Drained
  <2>2. QED
    BY <1>10, <1>b, <1>d, <2>1, ForgetTypes, <1>e DEF Reap, Drained
<1>11. CASE DropRetiring
  <2>1. touched' \subseteq Paths /\ aliens' \in Nat
    BY <1>11, <1>f DEF DropRetiring
  <2>2. QED
    BY <1>11, <1>b, <1>c, <1>d, <2>1, ForgetTypes, <1>e DEF DropRetiring
<1>12. CASE Shutdown \/ Exit
  BY <1>12 DEF Shutdown, Exit, files, history
<1>13. QED
  BY <1>1, <1>2, <1>3, <1>4, <1>5, <1>6, <1>7, <1>8, <1>9, <1>10, <1>11, <1>12
     DEF Next, Proceed

(* rewire_updates and RewireLedger::apply, on what the ledger stands for. *)
LEMMA OldestIsOriginal ==
  ASSUME LedgerInv, NEW n \in DOMAIN config
  PROVE  Oldest(n) = original[n]
BY SMTT(30) DEF LedgerInv, LedgerExact, Oldest

LEMMA LedgerNext ==
  ASSUME ListenersInv, Next
  PROVE  LedgerInv' /\ ListTypes'
<1>0. LedgerInv /\ ListTypes /\ TrTypes /\ ProcessTypes
  BY TypesSplit DEF ListenersInv
<1>1. CASE Commit
  <2>1. /\ config' = tr.cand /\ ledger' = [n \in Rewired |-> Oldest(n)]
        /\ original' = [n \in DOMAIN tr.cand |->
             IF n \in DOMAIN config THEN original[n] ELSE tr.cand[n].path]
        /\ tr.cand \in Candidates
    BY <1>0, <1>1 DEF Commit, TrTypes
  <2>2. \A n \in DOMAIN config : Oldest(n) = original[n]
    BY <1>0, OldestIsOriginal
  <2>3. Rewired = {n \in DOMAIN config \cap DOMAIN tr.cand : tr.cand[n].path # original[n]}
    BY <1>0, <2>2 DEF Rewired, LedgerInv, LedgerExact
  <2>4. LedgerExact'
    <3>1. DOMAIN ledger' = {n \in DOMAIN config' : config'[n].path # original'[n]}
      BY <2>1, <2>3
    <3>2. \A n \in DOMAIN ledger' : ledger'[n] = original'[n]
      BY <2>1, <2>2, <2>3
    <3>3. QED
      BY <3>1, <3>2 DEF LedgerExact
  <2>5. WellFormed(config)'
    BY <2>1, SocketFacts DEF WellFormed
  <2>6. \A n \in Rewired : n \in Names /\ Oldest(n) \in Paths
    BY <1>0 DEF Rewired, Oldest, ListTypes, WellFormed
  <2>7. QED
    BY <2>1, <2>4, <2>5, <2>6 DEF LedgerInv, ListTypes
<1>2. CASE UNCHANGED <<config, ledger, original>>
  BY <1>0, <1>2, SMTT(30) DEF LedgerInv, LedgerExact, ListTypes, WellFormed
<1>3. QED
  BY <1>1, <1>2 DEF Next, Proceed, Foreign, Accept, Stopping, Ended, Fails, Drain, Close,
     Begin, DropWaiting, DropRetiring, Refuse, AwaitLock, Lock, Preflight, Advance, Abort,
     Reap, Finish, StageSame, StageOrdinary, Stage, Publish, Qualify, Swap, Confirm, Retire,
     Shutdown, Drained, Exit, Quiet, Calm

LEMMA ProcessTypesNext ==
  ASSUME ListenersInv, Next
  PROVE  ProcessTypes'
<1>0. TrTypes /\ ProcessTypes
  BY TypesSplit DEF ListenersInv
<1>1. CASE Commit
  BY <1>0, <1>1 DEF Commit, ProcessTypes, TrTypes, TrType
<1>2. CASE Shutdown \/ Drained \/ Exit \/ \E i \in Sockets : Drain(i)
  BY <1>0, <1>2 DEF Shutdown, Drained, Exit, Drain, ProcessTypes
<1>3. CASE UNCHANGED <<running, phase, draining>>
  BY <1>0, <1>3 DEF ProcessTypes
<1>4. QED
  BY <1>1, <1>2, <1>3 DEF Next, Proceed, Foreign, Accept, Stopping, Ended, Fails, Close,
     Begin, DropWaiting, DropRetiring, Refuse, AwaitLock, Lock, Preflight, Advance, Abort,
     Reap, Finish, StageSame, StageOrdinary, Stage, Publish, Qualify, Swap, Confirm, Retire,
     Quiet, Calm

LEMMA TypesNext ==
  ASSUME ListenersInv, Next
  PROVE  RegistryInv' /\ Types' /\ LedgerInv'
<1>1. RegistryInv'
  BY ListenersUseRegistry, InvNext DEF ListenersInv, Owned
<1>2. QED
  BY <1>1, TrTypesNext, FileTypesNext, LedgerNext, ProcessTypesNext, TypesSplit
     DEF ListenersInv, RegistryInv

-----------------------------------------------------------------------------
(* What each part of the invariant reads. *)
LEMMA StepsFrame ==
  ASSUME Steps, UNCHANGED <<config, made, running, tr>>
  PROVE  Steps'
BY DEF Steps, Unlocked, StagedSoFar, SwappedSoFar, Pre, Full, Wanted, Same, Ordinary, SamePath,
   Changed

LEMMA OwnedFrame ==
  ASSUME Owned, UNCHANGED <<config, made, loop, running, tr, phase, draining>>
  PROVE  Owned'
BY DEF Owned, Allocated, RunningOK, AllRunning, FreshOK, LeavingOK, Disjoint, InUse, Left, Drains,
   Pre, Wanted, Changed

LEMMA FiledFrame ==
  ASSUME Filed, UNCHANGED <<config, made, running, tr, draining, sock, stage, touched>>
  PROVE  Filed'
<1>1. /\ Pre' = Pre /\ Tried' = Tried /\ Placed' = Placed
      /\ \A i : Owner(i)' = Owner(i)
  BY DEF Pre, Tried, Placed, Owner, InUse, Left, Drains, Fresh, Same, Ordinary, SamePath, Changed
<1>2. OwnedPaths' /\ OldAt' /\ NewAt'
  BY <1>1 DEF Filed, OwnedPaths, OldAt, NewAt, Path
<1>3. StageOnly' /\ StageOld'
  BY <1>1 DEF Filed, StageOnly, StageOld, StagedFor
<1>4. QED
  BY <1>2, <1>3 DEF Filed

LEMMA GateFrame ==
  ASSUME GateOver, UNCHANGED <<config, made, tr, entries, holds>>
  PROVE  GateOver'
BY DEF GateOver, Disrupted, Changed, On, Active, Left

LEMMA RoutedFrame ==
  ASSUME Routed, UNCHANGED <<entries, via, loop, made, phase>>
  PROVE  Routed'
BY DEF Routed, Active

(* The listeners a transition works on are settled by the two listener sets  *)
(* and what is running.                                                      *)
LEMMA Views ==
  ASSUME UNCHANGED <<config, running>>, tr'.cand = tr.cand,
         \A n \in Names : running[n] # 0 => made'[running[n]] = made[running[n]],
         Wanted \subseteq Names
  PROVE  /\ Changed' = Changed /\ Disrupted' = Disrupted /\ Wanted' = Wanted
         /\ Same' = Same /\ Ordinary' = Ordinary /\ InUse' = InUse
<1>1. Changed' = Changed /\ Disrupted' = Disrupted /\ Wanted' = Wanted /\ InUse' = InUse
  BY DEF Changed, Disrupted, Wanted, InUse
<1>2. \A n \in Wanted : SamePath(n)' = SamePath(n)
  BY DEF SamePath
<1>3. QED
  BY <1>1, <1>2 DEF Same, Ordinary, Wanted

-----------------------------------------------------------------------------
(* Clients and accept loops. *)
Rest == Steps /\ Owned /\ Filed /\ GateOver /\ Routed

(* A loop of a gated listener registers nothing. *)
LEMMA AcceptStep ==
  ASSUME ListenersInv, NEW i \in Sockets, Accept(i)
  PROVE  Rest'
<1>1. UNCHANGED <<config, ledger, made, loop, sock, stage, running, tr, phase, draining, touched>>
  BY DEF Accept, files, history
<1>2. Steps' /\ Owned' /\ Filed'
  BY <1>1, StepsFrame, OwnedFrame, FiledFrame DEF ListenersInv
<1>3. CASE UNCHANGED <<registry, via>>
  BY <1>1, <1>2, <1>3, GateFrame, RoutedFrame DEF Rest, ListenersInv, registry, gates
<1>4. CASE /\ Register(made[i].name, made[i].kind, Peer)
           /\ via' = [via EXCEPT ![nextId] = i]
  <2>1. made[i] \in [name : Names, kind : Kinds, path : Paths] /\ i # 0
    BY SocketFacts DEF Accept, ListenersInv, Owned, Allocated, Types, TypeOK
  <2>2. /\ made[i].name \in Names \ gated /\ nextId \in Ids \ Active
        /\ holds' = holds /\ entries' = Added(made[i].name, made[i].kind, Peer)
    BY <1>4, <2>1 DEF Register, Admissible, gates, ListenersInv, RegistryInv, RegistryTypeOK
  <2>3. /\ Active' = Active \cup {nextId}
        /\ \A c \in Active : entries'[c] = entries[c]
        /\ entries'[nextId].name = made[i].name /\ entries'[nextId].kind = made[i].kind
    BY <2>2 DEF Added, Active
  <2>4. holds[Reload] \subseteq gated
    BY SocketFacts DEF ListenersInv, RegistryInv, GateHolds
  <2>5. \A n \in holds[Reload] : On(n)' = On(n)
    BY <2>2, <2>3, <2>4 DEF On
  <2>6. GateOver'
    BY <1>1, <2>2, <2>5 DEF ListenersInv, GateOver, Disrupted, Changed, Left
  <2>7. Routed'
    <3>1. \A c \in Ids : via'[c] = IF c = nextId THEN i ELSE via[c]
      BY <1>4, <2>2 DEF ListenersInv, Types, TypeOK
    <3>2. loop[i] \notin {"none", "bound"}
      BY DEF Accept
    <3>3. Active \subseteq Ids
      BY DEF ListenersInv, RegistryInv, RegistryTypeOK
    <3>4. QED
      BY <1>1, <2>1, <2>2, <2>3, <3>1, <3>2, <3>3 DEF ListenersInv, Routed
  <2>8. QED
    BY <1>2, <2>6, <2>7 DEF Rest
<1>5. QED
  BY <1>3, <1>4 DEF Accept

LEMMA CloseStep ==
  ASSUME ListenersInv, NEW c \in Ids, Close(c)
  PROVE  Rest'
<1>1. UNCHANGED <<config, ledger, made, loop, sock, stage, running, tr, phase, draining, touched>>
  BY DEF Close, files, history
<1>2. Steps' /\ Owned' /\ Filed'
  BY <1>1, StepsFrame, OwnedFrame, FiledFrame DEF ListenersInv
<1>3. /\ holds' = holds /\ Active' = Active \ {c}
      /\ \A d \in Active' : entries'[d] = entries[d]
  BY DEF Close, Release, gates, Active
<1>4. \A n : On(n)' \subseteq On(n)
  BY <1>3 DEF On
<1>5. GateOver'
  BY <1>1, <1>3, <1>4 DEF ListenersInv, GateOver, Disrupted, Changed, Left
<1>6. \A d \in Ids : via'[d] = IF d = c THEN 0 ELSE via[d]
  BY DEF Close, ListenersInv, Types, TypeOK
<1>7. Routed'
  <2>1. Active \subseteq Ids
    BY DEF ListenersInv, RegistryInv, RegistryTypeOK
  <2>2. QED
    BY <1>1, <1>3, <1>6, <2>1 DEF ListenersInv, Routed
<1>8. QED
  BY <1>2, <1>5, <1>7 DEF Rest

(* A loop that moves on between two of the states that its owner allows. *)
LEMMA LoopStep ==
  ASSUME ListenersInv, NEW i \in Sockets, Stopping(i) \/ Fails(i)
  PROVE  Rest'
<1>1. /\ UNCHANGED <<config, made, sock, stage, running, tr, phase, draining, touched, via>>
      /\ UNCHANGED <<entries, holds>>
  BY DEF Stopping, Fails, files, history, registry, gates
<1>2. Steps' /\ Filed' /\ GateOver'
  BY <1>1, StepsFrame, FiledFrame, GateFrame DEF ListenersInv
<1>3. \A j \in Sockets : /\ j # i => loop'[j] = loop[j]
                         /\ loop[i] = "serving" => loop'[i] = "failed"
                         /\ loop[i] # "serving" => loop[i] = "asked" /\ loop'[i] = "stopping"
  BY DEF Stopping, Fails, ListenersInv, Types, TypeOK
<1>4. /\ \A n \in Names : running[n] \in {0} \cup Sockets /\ tr.new[n] \in {0} \cup Sockets
      /\ tr.retired \subseteq Sockets /\ draining.left \subseteq Sockets
      /\ tr.cur \in {0} \cup Sockets /\ draining.cur \in {0} \cup Sockets
      /\ \A c \in Ids : via[c] \in {0} \cup Sockets
  BY Works DEF ListenersInv, Types, TypeOK, TrType
<1>5. Pre' = Pre /\ Wanted' = Wanted /\ InUse' = InUse /\ Left' = Left /\ Drains' = Drains
  BY <1>1 DEF Pre, Wanted, Changed, InUse, Left, Drains
<1>6. Owned'
  <2>1. Allocated' /\ RunningOK' /\ AllRunning'
    BY <1>1, <1>3, <1>4 DEF ListenersInv, Owned, Allocated, RunningOK, AllRunning
  <2>2. FreshOK'
    BY <1>1, <1>3, <1>4, <1>5 DEF ListenersInv, Owned, FreshOK
  <2>3. LeavingOK' /\ Disjoint'
    BY <1>1, <1>3, <1>4, <1>5 DEF ListenersInv, Owned, LeavingOK, Disjoint
  <2>4. QED
    BY <2>1, <2>2, <2>3 DEF Owned
<1>7. Routed'
  BY <1>1, <1>3, <1>4 DEF ListenersInv, Routed, Active
<1>8. QED
  BY <1>2, <1>6, <1>7 DEF Rest

(* Where the sockets that somebody holds lie, and what is not theirs. *)
LEMMA Ranges ==
  ASSUME ListenersInv
  PROVE  /\ \A n \in Names : running[n] \in {0} \cup Sockets /\ tr.new[n] \in {0} \cup Sockets
         /\ tr.retired \subseteq Sockets /\ draining.left \subseteq Sockets
         /\ tr.cur \in {0} \cup Sockets /\ draining.cur \in {0} \cup Sockets
         /\ \A c \in Ids : via[c] \in {0} \cup Sockets
         /\ 0 \notin Sockets
BY Works, SocketFacts DEF ListenersInv, Types, TypeOK, TrType

LEMMA EndedStep ==
  ASSUME ListenersInv, NEW i \in Sockets, Ended(i)
  PROVE  Rest'
<1>1. /\ UNCHANGED <<config, sock, stage, running, tr, phase, draining, touched>>
      /\ UNCHANGED <<entries, holds>>
  BY DEF Ended, files, history, registry, gates
<1>2. /\ loop[i] = "stopping" /\ \A c \in Active : via[c] # i
      /\ \A j \in Sockets : j # i => loop'[j] = loop[j] /\ made'[j] = made[j]
      /\ i \in Held => loop'[i] = "closed" /\ made'[i] = made[i]
      /\ i \notin Held => loop'[i] = "none" /\ made'[i] = None
  BY DEF Ended, Forget, ListenersInv, Types, TypeOK
<1>3. \A c \in Ids : via'[c] = via[c] /\ via[c] # i
  <2>1. \A c \in Ids : via[c] # 0 => c \in Active
    BY DEF ListenersInv, Routed
  <2>2. \A c \in Ids : via[c] # i
    BY <1>2, <2>1, SocketFacts
  <2>3. \A c \in Ids : via'[c] = IF via[c] \in {i} \ Held THEN 0 ELSE via[c]
    BY DEF Ended, Forget
  <2>4. QED
    BY <2>2, <2>3
<1>4. /\ i \notin InUse /\ (Pre => i \notin Fresh)
      /\ i \notin tr.retired /\ i \notin draining.left
  BY <1>2, Ranges DEF ListenersInv, Owned, RunningOK, FreshOK, LeavingOK, InUse, Fresh
<1>5. i \in Held <=> i = tr.cur \/ i = draining.cur
  BY <1>4, Ranges DEF Held, Left
<1>6. \A n \in Names : running[n] # i /\ (Pre => tr.new[n] # i)
  BY <1>4, Ranges DEF InUse, Fresh
<1>7. \A n \in Names : running[n] # 0 => made'[running[n]] = made[running[n]]
  BY <1>2, <1>6, Ranges
<1>8. /\ Changed' = Changed /\ Disrupted' = Disrupted /\ Wanted' = Wanted
      /\ Same' = Same /\ Ordinary' = Ordinary /\ InUse' = InUse
  BY <1>1, <1>7, Lists, Views
<1>9. /\ Pre' = Pre /\ Full' = Full /\ Left' = Left /\ Drains' = Drains /\ Fresh' = Fresh
      /\ Tried' = Tried /\ Placed' = Placed
  BY <1>1, <1>8 DEF Pre, Full, Left, Drains, Fresh, Tried, Placed
<1>10. Steps'
  BY <1>1, <1>8, <1>9 DEF ListenersInv, Steps, Unlocked, StagedSoFar, SwappedSoFar
<1>11. Owned'
  <2>1. Allocated'
    BY <1>2, SocketFacts DEF ListenersInv, Owned, Allocated
  <2>2. RunningOK' /\ AllRunning'
    BY <1>1, <1>2, <1>6, Ranges DEF ListenersInv, Owned, RunningOK, AllRunning
  <2>3. FreshOK'
    BY <1>1, <1>2, <1>6, <1>8, <1>9, Ranges DEF ListenersInv, Owned, FreshOK
  <2>4. LeavingOK'
    BY <1>1, <1>2, <1>4, <1>5, Ranges DEF ListenersInv, Owned, LeavingOK
  <2>5. Disjoint'
    BY <1>8, <1>9 DEF ListenersInv, Owned, Disjoint
  <2>6. QED
    BY <2>1, <2>2, <2>3, <2>4, <2>5 DEF Owned
<1>12. Filed'
  <2>1. OwnedPaths'
    <3>1. \A j \in Sockets : Owner(j)' = Owner(j)
      BY <1>8, <1>9 DEF Owner
    <3>2. Owner(i) => i \in Held
      BY <1>4 DEF Owner, Held, Left, Drains
    <3>3. QED
      BY <1>1, <1>2, <3>1, <3>2 DEF ListenersInv, Filed, OwnedPaths, Path
  <2>2. OldAt' /\ NewAt' /\ StageOnly' /\ StageOld'
    BY <1>1, <1>8, <1>9 DEF ListenersInv, Filed, OldAt, NewAt, StageOnly, StageOld, StagedFor
  <2>3. QED
    BY <2>1, <2>2 DEF Filed
<1>13. GateOver'
  <2>1. \A j \in Left \ {0} : made'[j] = made[j]
    BY <1>2, Ranges DEF Held, Left
  <2>2. QED
    BY <1>1, <1>8, <1>9, <2>1 DEF ListenersInv, GateOver, On, Active
<1>14. Routed'
  <2>1. \A c \in Ids : via[c] # 0 =>
           loop'[via[c]] = loop[via[c]] /\ made'[via[c]] = made[via[c]]
    BY <1>2, <1>3, Ranges
  <2>2. Active' = Active /\ Active \subseteq Ids
    BY <1>1 DEF Active, ListenersInv, RegistryInv, RegistryTypeOK
  <2>3. QED
    BY <1>1, <1>3, <2>1, <2>2 DEF ListenersInv, Routed
<1>15. QED
  BY <1>10, <1>11, <1>12, <1>13, <1>14 DEF Rest

(* Something else at a path is a path that has been touched. *)
LEMMA ForeignStep ==
  ASSUME ListenersInv, NEW p \in Paths, Foreign(p)
  PROVE  Rest'
<1>1. /\ UNCHANGED <<config, made, loop, stage, running, tr, phase, draining, via>>
      /\ UNCHANGED <<entries, holds>>
  BY DEF Foreign, files, history, registry, gates
<1>2. Steps' /\ Owned' /\ GateOver' /\ Routed'
  BY <1>1, StepsFrame, OwnedFrame, GateFrame, RoutedFrame DEF ListenersInv
<1>3. /\ touched' = touched \cup {p} /\ sock'[p] \notin Sockets
      /\ \A q \in Paths : q # p => sock'[q] = sock[q]
  BY SocketFacts DEF Foreign, ListenersInv, Types, TypeOK
<1>4. /\ Pre' = Pre /\ Tried' = Tried /\ Placed' = Placed
      /\ \A i : Owner(i)' = Owner(i)
  BY <1>1 DEF Pre, Tried, Placed, Owner, InUse, Left, Drains, Fresh, Same, Ordinary, SamePath,
     Changed
<1>5. OwnedPaths'
  BY <1>1, <1>3, <1>4 DEF ListenersInv, Filed, OwnedPaths, Path
<1>6. OldAt'
  <2>1. \A n \in Names : running[n] # 0 => config[n].path \in Paths
    BY Lists DEF ListenersInv, Owned, RunningOK
  <2>2. QED
    BY <1>1, <1>3, <1>4, <2>1 DEF ListenersInv, Filed, OldAt
<1>7. NewAt' /\ StageOnly' /\ StageOld'
  <2>1. Pre => \A n \in Placed : tr.cand[n].path \in Paths
    BY Lists, Works DEF Placed
  <2>2. tr.pc = "swap" => \A n \in tr.todo : tr.cand[n].path \in Paths
    BY Lists, Works
  <2>3. QED
    BY <1>1, <1>3, <1>4, <2>1, <2>2
       DEF ListenersInv, Filed, NewAt, StageOnly, StageOld, StagedFor
<1>8. QED
  BY <1>2, <1>5, <1>6, <1>7 DEF Rest, Filed

-----------------------------------------------------------------------------
(* A transition before it has the runtime lock, and after it has ended. *)
LEMMA ParkedStep ==
  ASSUME ListenersInv,
         UNCHANGED <<config, made, loop, sock, stage, running, phase, draining, touched, via,
                     entries>>,
         ~Pre, ~Pre', Unlocked', tr'.retired = tr.retired, tr'.cur = tr.cur
  PROVE  Steps' /\ Owned' /\ Filed' /\ Routed'
<1>1. InUse' = InUse /\ Left' = Left /\ Drains' = Drains /\ \A i : Owner(i)' = Owner(i)
  BY DEF InUse, Left, Drains, Owner
<1>2. Steps'
  BY DEF Steps, StagedSoFar, SwappedSoFar, Pre, Full
<1>3. Owned'
  BY <1>1 DEF ListenersInv, Owned, Allocated, RunningOK, AllRunning, FreshOK, LeavingOK, Disjoint
<1>4. Filed'
  <2>1. OwnedPaths' /\ OldAt' /\ NewAt'
    BY <1>1 DEF ListenersInv, Filed, OwnedPaths, OldAt, NewAt, Path
  <2>2. StageOnly' /\ StageOld'
    BY DEF ListenersInv, Filed, StageOnly, StageOld, Pre
  <2>3. QED
    BY <2>1, <2>2 DEF Filed
<1>5. Routed'
  BY RoutedFrame DEF ListenersInv
<1>6. QED
  BY <1>2, <1>3, <1>4, <1>5

(* The guard takes the gates of what the transition disturbs. *)
LEMMA BeginStep ==
  ASSUME ListenersInv, Begin
  PROVE  Rest'
<1>1. /\ UNCHANGED <<config, made, loop, sock, stage, running, phase, draining, touched, via>>
      /\ entries' = entries /\ tr.pc = "idle" /\ CloseGate(Reload, Disrupted')
  BY DEF Begin, Quiet, Calm, files, CloseGate
<1>2. tr = IdleTr
  BY <1>1 DEF ListenersInv, Steps, Unlocked
<1>3. /\ tr'.pc = "gated" /\ tr'.new = [n \in Names |-> 0] /\ tr'.swapped = {}
      /\ tr'.todo = {} /\ tr'.retired = {} /\ tr'.cur = 0
  BY DEF Begin, IdleTr
<1>4. tr.retired = {} /\ tr.cur = 0 /\ ~Pre /\ ~Pre' /\ Unlocked'
  BY <1>1, <1>2, <1>3 DEF Pre, Unlocked, IdleTr
<1>5. Steps' /\ Owned' /\ Filed' /\ Routed'
  BY <1>1, <1>3, <1>4, ParkedStep
<1>6. holds'[Reload] = Disrupted'
  BY <1>1, SocketFacts DEF CloseGate, ListenersInv, RegistryInv, RegistryTypeOK
<1>7. GateOver'
  BY <1>3, <1>6 DEF GateOver, Left
<1>8. QED
  BY <1>5, <1>7 DEF Rest

LEMMA BackToIdle ==
  ASSUME ListenersInv, Refuse \/ Preflight \/ DropWaiting \/ Finish
  PROVE  Rest'
<1>1. /\ UNCHANGED <<config, made, loop, sock, stage, running, phase, draining, touched, via>>
      /\ entries' = entries /\ tr' = IdleTr
  BY DEF Refuse, Preflight, DropWaiting, Finish, Quiet, Calm, files, history, OpenGate
<1>2. tr.pc \in {"gated", "locking", "retire"} /\ tr.retired = {} /\ tr.cur = 0
  BY DEF Refuse, Preflight, DropWaiting, Finish, ListenersInv, Steps, Unlocked
<1>3. tr'.pc = "idle" /\ tr'.retired = {} /\ tr'.cur = 0 /\ ~Pre /\ ~Pre' /\ Unlocked'
  BY <1>1, <1>2 DEF Pre, Unlocked, IdleTr
<1>4. Steps' /\ Owned' /\ Filed' /\ Routed'
  BY <1>1, <1>2, <1>3, ParkedStep
<1>5. GateOver'
  BY <1>3 DEF GateOver, Left
<1>6. QED
  BY <1>4, <1>5 DEF Rest

(* Zero transports were counted under the lock that closed the gate, and     *)
(* none has come since.                                                      *)
LEMMA AwaitLockStep ==
  ASSUME ListenersInv, AwaitLock
  PROVE  Rest'
<1>1. /\ UNCHANGED <<config, made, loop, sock, stage, running, phase, draining, touched, via>>
      /\ UNCHANGED <<entries, holds>>
      /\ tr.pc = "gated" /\ ~Blocked /\ tr' = [tr EXCEPT !.pc = "locking", !.todo = {}]
  BY DEF AwaitLock, To, Quiet, Calm, files, history, registry, gates
<1>2. /\ tr'.pc = "locking" /\ tr'.cand = tr.cand /\ tr'.todo = {} /\ tr'.new = tr.new
      /\ tr'.swapped = tr.swapped /\ tr'.retired = tr.retired /\ tr'.cur = tr.cur
  BY <1>1 DEF ListenersInv, Types, TrType
<1>3. ~Pre /\ ~Pre' /\ Unlocked'
  BY <1>1, <1>2 DEF Pre, Unlocked, ListenersInv, Steps
<1>4. Steps' /\ Owned' /\ Filed' /\ Routed'
  BY <1>1, <1>2, <1>3, ParkedStep
<1>5. GateOver'
  <2>1. holds[Reload] = Disrupted /\ Disrupted' = Disrupted /\ Left' = {0}
    BY <1>1, <1>2, <1>3 DEF ListenersInv, GateOver, Disrupted, Changed, Steps, Unlocked, Left
  <2>2. ASSUME NEW n \in Disrupted PROVE On(n) = {}
    <3>1. /\ counted[Reload][n] = 0 /\ Cardinality(On(n)) <= counted[Reload][n]
          /\ RegistryTypeOK
      BY <1>1, <2>1, SocketFacts DEF Blocked, ListenersInv, RegistryInv, GateHolds
    <3>2. IsFiniteSet(On(n)) /\ Cardinality(On(n)) \in Nat
      BY <3>1, ActiveFinite
    <3>3. QED
      BY <3>1, <3>2, FS_EmptySet
  <2>3. \A n : On(n)' = On(n)
    BY <1>1 DEF On, Active
  <2>4. QED
    BY <1>1, <1>2, <2>1, <2>2, <2>3 DEF GateOver
<1>6. QED
  BY <1>4, <1>5 DEF Rest

LEMMA LockStep ==
  ASSUME ListenersInv, Lock
  PROVE  Rest'
<1>1. /\ UNCHANGED <<config, made, loop, sock, stage, running, phase, draining, touched, via>>
      /\ UNCHANGED <<entries, holds>>
      /\ tr.pc = "locking" /\ tr' = [tr EXCEPT !.pc = "stage", !.todo = Same]
  BY DEF Lock, To, Quiet, Calm, files, history, registry, gates
<1>2. /\ tr'.pc = "stage" /\ tr'.cand = tr.cand /\ tr'.todo = Same /\ tr'.new = tr.new
      /\ tr'.swapped = tr.swapped /\ tr'.retired = tr.retired /\ tr'.cur = tr.cur
  BY <1>1 DEF ListenersInv, Types, TrType
<1>3. ~Pre /\ Pre' /\ ~Full' /\ tr.new = [n \in Names |-> 0] /\ tr.swapped = {}
  BY <1>1, <1>2 DEF Pre, Full, Unlocked, ListenersInv, Steps
<1>4. /\ Changed' = Changed /\ Disrupted' = Disrupted /\ Wanted' = Wanted
      /\ Same' = Same /\ Ordinary' = Ordinary /\ InUse' = InUse
  BY <1>1, <1>2, Lists, Views
<1>5. Left' = Left /\ Drains' = Drains /\ Tried' = {} /\ Placed' = {}
  BY <1>1, <1>2, <1>3 DEF Left, Drains, Tried, Placed
<1>6. Steps'
  BY <1>1, <1>2, <1>3, <1>4, Lists
     DEF ListenersInv, Steps, Unlocked, StagedSoFar, SwappedSoFar
<1>7. Owned'
  <2>1. \A n \in Names : tr'.new[n] = 0
    BY <1>2, <1>3
  <2>2. QED
    BY <1>1, <1>2, <1>4, <1>5, <2>1 DEF ListenersInv, Owned, Allocated, RunningOK, AllRunning,
       FreshOK, LeavingOK, Disjoint
<1>8. Filed'
  <2>1. OwnedPaths' /\ OldAt' /\ NewAt'
    BY <1>1, <1>3, <1>4, <1>5 DEF ListenersInv, Filed, OwnedPaths, OldAt, NewAt, Path, Owner
  <2>2. StageOnly' /\ StageOld'
    BY <1>1, <1>2, <1>3 DEF ListenersInv, Filed, StageOnly, StageOld
  <2>3. QED
    BY <2>1, <2>2 DEF Filed
<1>9. GateOver'
  BY <1>1, <1>2, <1>4, <1>5 DEF ListenersInv, GateOver, On, Active
<1>10. QED
  BY <1>1, <1>6, <1>7, <1>8, <1>9, RoutedFrame DEF Rest, ListenersInv

(* A step of the transition that touches nothing but its own locals. *)
LEMMA LocalStep ==
  ASSUME ListenersInv,
         UNCHANGED <<config, made, loop, sock, stage, running, phase, draining, touched, via,
                     entries, holds>>,
         Pre, Pre', tr'.cand = tr.cand, tr'.new = tr.new, tr'.retired = tr.retired,
         tr'.cur = tr.cur, Steps', Tried' = Tried, Placed' = Placed, StageOld'
  PROVE  Rest'
<1>1. /\ Changed' = Changed /\ Disrupted' = Disrupted /\ Wanted' = Wanted
      /\ Same' = Same /\ Ordinary' = Ordinary /\ InUse' = InUse
  BY Lists, Views
<1>2. Left' = Left /\ Drains' = Drains /\ Fresh' = Fresh
  BY DEF Left, Drains, Fresh
<1>3. Owned'
  BY <1>1, <1>2 DEF ListenersInv, Owned, Allocated, RunningOK, AllRunning, FreshOK, LeavingOK,
     Disjoint
<1>4. Filed'
  BY <1>1, <1>2 DEF ListenersInv, Filed, OwnedPaths, OldAt, NewAt, Path, Owner, StageOnly,
     StagedFor
<1>5. GateOver'
  BY <1>1, <1>2 DEF ListenersInv, GateOver, On, Active, Pre
<1>6. QED
  BY <1>3, <1>4, <1>5, RoutedFrame DEF Rest, ListenersInv

LEMMA AdvanceStep ==
  ASSUME ListenersInv, Advance
  PROVE  Rest'
<1>1. /\ UNCHANGED <<config, made, loop, sock, stage, running, phase, draining, touched, via>>
      /\ UNCHANGED <<entries, holds>> /\ tr.todo = {}
  BY DEF Advance, Quiet, Calm, files, history, registry, gates
<1>2. PICK pc \in Pcs, todo \in SUBSET Names :
        /\ tr' = [tr EXCEPT !.pc = pc, !.todo = todo]
        /\ \/ tr.pc = "stage" /\ pc = "bind" /\ todo = Ordinary
           \/ tr.pc = "bind" /\ pc = "publish" /\ todo = Ordinary
           \/ tr.pc = "publish" /\ pc = "exchange" /\ todo = Same
           \/ tr.pc = "exchange" /\ pc = "commit" /\ todo = {}
  BY Lists DEF Advance, To, Pcs
<1>3. /\ tr'.pc = pc /\ tr'.cand = tr.cand /\ tr'.todo = todo /\ tr'.new = tr.new
      /\ tr'.swapped = tr.swapped /\ tr'.retired = tr.retired /\ tr'.cur = tr.cur
  BY <1>2 DEF ListenersInv, Types, TrType
<1>4. /\ Changed' = Changed /\ Disrupted' = Disrupted /\ Wanted' = Wanted
      /\ Same' = Same /\ Ordinary' = Ordinary /\ InUse' = InUse
  BY <1>1, <1>3, Lists, Views
<1>5. Pre /\ Pre'
  BY <1>2, <1>3 DEF Pre
<1>6. Tried' = Tried
  BY <1>2, <1>3 DEF Tried
<1>7. Placed' = Placed
  BY <1>1, <1>2, <1>3, <1>4, <1>6 DEF Placed
<1>8. Steps'
  <2>1. Unlocked'
    BY <1>2, <1>3, <1>5 DEF ListenersInv, Steps, Unlocked, Pre
  <2>2. StagedSoFar'
    BY <1>1, <1>2, <1>3, <1>4, Lists DEF ListenersInv, Steps, StagedSoFar, Full
  <2>3. SwappedSoFar'
    BY <1>1, <1>2, <1>3, <1>4, <1>5, Lists DEF ListenersInv, Steps, SwappedSoFar
  <2>4. QED
    BY <2>1, <2>2, <2>3 DEF Steps
<1>9. StageOld'
  BY <1>1, <1>2, <1>3, <1>5 DEF ListenersInv, Filed, StageOld
<1>10. QED
  BY <1>1, <1>3, <1>5, <1>6, <1>7, <1>8, <1>9, LocalStep

LEMMA QualifyStep ==
  ASSUME ListenersInv, NEW n \in Names, Qualify(n)
  PROVE  Rest'
<1>1. /\ UNCHANGED <<config, made, loop, sock, stage, running, phase, draining, touched, via>>
      /\ UNCHANGED <<entries, holds>>
      /\ tr.pc = "exchange" /\ n \in tr.todo /\ sock[tr.cand[n].path] = running[n]
      /\ tr' = [tr EXCEPT !.pc = "swap", !.todo = {n}]
  BY DEF Qualify, To, Quiet, Calm, files, history, registry, gates
<1>2. /\ tr'.pc = "swap" /\ tr'.cand = tr.cand /\ tr'.todo = {n} /\ tr'.new = tr.new
      /\ tr'.swapped = tr.swapped /\ tr'.retired = tr.retired /\ tr'.cur = tr.cur
  BY <1>1 DEF ListenersInv, Types, TrType
<1>3. /\ Changed' = Changed /\ Disrupted' = Disrupted /\ Wanted' = Wanted
      /\ Same' = Same /\ Ordinary' = Ordinary /\ InUse' = InUse
  BY <1>1, <1>2, Lists, Views
<1>4. Pre /\ Pre' /\ Full /\ Full' /\ Tried' = Tried /\ Placed' = Placed
  BY <1>1, <1>2, <1>3 DEF Pre, Full, Tried, Placed
<1>5. Steps'
  BY <1>1, <1>2, <1>3, <1>4 DEF ListenersInv, Steps, Unlocked, StagedSoFar, SwappedSoFar
<1>6. StageOld'
  BY <1>1, <1>2, <1>4 DEF ListenersInv, Filed, StageOld
<1>7. QED
  BY <1>1, <1>2, <1>4, <1>5, <1>6, LocalStep

LEMMA ConfirmStep ==
  ASSUME ListenersInv, NEW n \in Names, Confirm(n)
  PROVE  Rest'
<1>1. /\ UNCHANGED <<config, made, loop, sock, stage, running, phase, draining, touched, via>>
      /\ UNCHANGED <<entries, holds>>
      /\ tr.pc = "confirm" /\ n \in tr.todo /\ Exchanged(n)
      /\ tr' = [tr EXCEPT !.pc = "exchange", !.swapped = @ \cup {n},
                          !.todo = Same \ (tr.swapped \cup {n})]
  BY DEF Confirm, Quiet, Calm, files, history, registry, gates
<1>2. /\ tr'.pc = "exchange" /\ tr'.cand = tr.cand /\ tr'.new = tr.new
      /\ tr'.todo = Same \ (tr.swapped \cup {n}) /\ tr'.swapped = tr.swapped \cup {n}
      /\ tr'.retired = tr.retired /\ tr'.cur = tr.cur
  BY <1>1 DEF ListenersInv, Types, TrType
<1>3. /\ Changed' = Changed /\ Disrupted' = Disrupted /\ Wanted' = Wanted
      /\ Same' = Same /\ Ordinary' = Ordinary /\ InUse' = InUse
  BY <1>1, <1>2, Lists, Views
<1>4. tr.todo = {n} /\ n \in Same \ tr.swapped
  BY <1>1 DEF ListenersInv, Steps, SwappedSoFar
<1>5. Pre /\ Pre' /\ Full /\ Full' /\ Tried' = Tried /\ Placed' = Placed
  BY <1>1, <1>2, <1>3, <1>4 DEF Pre, Full, Tried, Placed
<1>6. Steps'
  BY <1>1, <1>2, <1>3, <1>4, <1>5 DEF ListenersInv, Steps, Unlocked, StagedSoFar, SwappedSoFar
<1>7. StageOld'
  BY <1>1, <1>2, <1>5 DEF ListenersInv, Filed, StageOld, Exchanged
<1>8. QED
  BY <1>1, <1>2, <1>5, <1>6, <1>7, LocalStep

(* A socket that nobody has is bound in its own directory. *)
LEMMA StageStep ==
  ASSUME ListenersInv, NEW n \in Names, StageSame(n) \/ StageOrdinary(n)
  PROVE  Rest'
<1>0. PICK i \in Sockets : i = NewSocket /\ made[i] = None
  BY NewSocketFree DEF StageSame, StageOrdinary
<1>1. /\ UNCHANGED <<config, sock, running, phase, draining, touched, via>>
      /\ UNCHANGED <<entries, holds>>
      /\ tr.pc \in {"stage", "bind"} /\ n \in tr.todo
      /\ made' = [made EXCEPT ![i] = Rec(n, tr.cand[n])]
      /\ loop' = [loop EXCEPT ![i] = "bound"]
      /\ stage' = [stage EXCEPT ![i] = i]
      /\ tr' = [tr EXCEPT !.todo = @ \ {n}, !.new[n] = i]
  BY <1>0 DEF StageSame, StageOrdinary, Stage, Rec, Quiet, Calm, files, history, registry, gates
<1>2. i \in Sockets /\ made[i] = None /\ loop[i] = "none"
  BY <1>0 DEF ListenersInv, Owned, Allocated
<1>3. /\ tr'.pc = tr.pc /\ tr'.cand = tr.cand /\ tr'.todo = tr.todo \ {n}
      /\ tr'.swapped = tr.swapped /\ tr'.retired = tr.retired /\ tr'.cur = tr.cur
      /\ \A m \in Names : tr'.new[m] = IF m = n THEN i ELSE tr.new[m]
  BY <1>1 DEF ListenersInv, Types, TrType
<1>4. /\ Pre /\ Pre' /\ ~Full /\ ~Full' /\ n \in Wanted /\ tr.new[n] = 0
      /\ tr.swapped = {} /\ tr.cand[n] \in [kind : Kinds, path : Paths]
  BY <1>1, <1>3, Lists DEF Pre, Full, ListenersInv, Steps, StagedSoFar, SwappedSoFar
<1>5. /\ \A j \in Sockets : j # i => made'[j] = made[j] /\ loop'[j] = loop[j] /\ stage'[j] = stage[j]
      /\ made'[i] = Rec(n, tr.cand[n]) /\ loop'[i] = "bound" /\ stage'[i] = i
      /\ Rec(n, tr.cand[n]) # None
  BY <1>1, <1>2, <1>4, SocketFacts DEF ListenersInv, Types, TypeOK, Rec
<1>6. /\ \A m \in Names : running[m] # i /\ tr.new[m] # i
      /\ i \notin Left /\ i \notin Drains /\ i \notin InUse
  <2>1. \A m \in Names : running[m] # i /\ tr.new[m] # i
    BY <1>2, <1>4, Ranges DEF ListenersInv, Owned, RunningOK, FreshOK
  <2>2. i \notin Left /\ i \notin Drains
    BY <1>2, Ranges DEF ListenersInv, Owned, LeavingOK, Left, Drains
  <2>3. QED
    BY <2>1, <2>2 DEF InUse
<1>7. /\ Changed' = Changed /\ Disrupted' = Disrupted /\ Wanted' = Wanted
      /\ Same' = Same /\ Ordinary' = Ordinary /\ InUse' = InUse
  BY <1>1, <1>3, <1>5, <1>6, Ranges, Lists, Views
<1>8. Left' = Left /\ Drains' = Drains /\ Tried' = {} /\ Tried = {} /\ Placed' = {} /\ Placed = {}
  BY <1>1, <1>3, <1>4 DEF Left, Drains, Tried, Placed
<1>9. Steps'
  <2>1. Unlocked' /\ SwappedSoFar'
    BY <1>1, <1>3, <1>4, <1>7 DEF ListenersInv, Steps, Unlocked, SwappedSoFar
  <2>2. StagedSoFar'
    BY <1>1, <1>2, <1>3, <1>4, <1>7, Lists, SocketFacts DEF ListenersInv, Steps, StagedSoFar
  <2>3. QED
    BY <2>1, <2>2 DEF Steps
<1>10. Owned'
  <2>1. Allocated'
    BY <1>2, <1>5 DEF ListenersInv, Owned, Allocated
  <2>2. RunningOK' /\ AllRunning'
    BY <1>1, <1>5, <1>6, Ranges DEF ListenersInv, Owned, RunningOK, AllRunning
  <2>3. FreshOK'
    BY <1>3, <1>4, <1>5, <1>6, <1>7, Ranges DEF ListenersInv, Owned, FreshOK
  <2>4. LeavingOK'
    BY <1>1, <1>3, <1>5, <1>6, Ranges DEF ListenersInv, Owned, LeavingOK, Left, Drains
  <2>5. Disjoint'
    BY <1>7, <1>8 DEF ListenersInv, Owned, Disjoint
  <2>6. QED
    BY <2>1, <2>2, <2>3, <2>4, <2>5 DEF Owned
<1>11. Filed'
  <2>1. OwnedPaths'
    <3>1. \A j \in Sockets : Owner(j) => Owner(j)'
      BY <1>3, <1>4, <1>6, <1>7, <1>8 DEF Owner, Fresh
    <3>2. QED
      BY <1>1, <1>2, <1>5, <3>1 DEF ListenersInv, Filed, OwnedPaths, Path
  <2>2. OldAt' /\ NewAt'
    BY <1>1, <1>4, <1>8 DEF ListenersInv, Filed, OldAt, NewAt
  <2>3. StageOnly'
    <3>1. StagedFor(i, n)'
      BY <1>3, <1>5, <1>8 DEF StagedFor
    <3>2. ASSUME NEW j \in Sockets, j # i, stage[j] \in Sockets
          PROVE  \E m \in Names : StagedFor(j, m)'
      <4>1. PICK m \in Names : StagedFor(j, m)
        BY <3>2 DEF ListenersInv, Filed, StageOnly
      <4>2. m # n /\ stage'[j] = stage[j]
        BY <1>4, <1>5, <3>2, <4>1, SocketFacts DEF StagedFor
      <4>3. StagedFor(j, m)'
        BY <1>1, <1>3, <1>8, <4>1, <4>2 DEF StagedFor
      <4>4. QED
        BY <4>3
    <3>3. QED
      BY <1>4, <1>5, <3>1, <3>2 DEF StageOnly
  <2>4. StageOld'
    BY <1>1, <1>3, <1>4 DEF StageOld
  <2>5. QED
    BY <2>1, <2>2, <2>3, <2>4 DEF Filed
<1>12. GateOver'
  BY <1>1, <1>3, <1>5, <1>6, <1>7, <1>8, Ranges DEF ListenersInv, GateOver, On, Active, Left
<1>13. Routed'
  BY <1>1, <1>2, <1>5, Ranges DEF ListenersInv, Routed, Active
<1>14. QED
  BY <1>9, <1>10, <1>11, <1>12, <1>13 DEF Rest

(* publish puts the socket at a path that is empty. *)
LEMMA PublishStep ==
  ASSUME ListenersInv, NEW n \in Names, Publish(n)
  PROVE  Rest'
<1>1. /\ UNCHANGED <<config, made, loop, running, phase, draining, touched, via>>
      /\ UNCHANGED <<entries, holds>>
      /\ tr.pc = "publish" /\ n \in tr.todo /\ sock[tr.cand[n].path] = None
      /\ sock' = [sock EXCEPT ![tr.cand[n].path] = tr.new[n]]
      /\ stage' = [stage EXCEPT ![tr.new[n]] = None]
      /\ tr' = [tr EXCEPT !.todo = @ \ {n}]
  BY DEF Publish, Quiet, Calm, files, history, registry, gates
<1>2. /\ tr'.pc = "publish" /\ tr'.cand = tr.cand /\ tr'.todo = tr.todo \ {n}
      /\ tr'.new = tr.new /\ tr'.swapped = tr.swapped /\ tr'.retired = tr.retired
      /\ tr'.cur = tr.cur
  BY <1>1 DEF ListenersInv, Types, TrType
<1>3. /\ Pre /\ Pre' /\ Full /\ Full' /\ n \in Ordinary /\ n \in Wanted /\ tr.swapped = {}
  BY <1>1, <1>2, Lists DEF Pre, Full, ListenersInv, Steps, SwappedSoFar
<1>4. /\ tr.new[n] \in Sockets /\ tr.cand[n].path \in Paths /\ n \in DOMAIN tr.cand
      /\ made[tr.new[n]] = Rec(n, tr.cand[n]) /\ made[tr.new[n]] # None
      /\ loop[tr.new[n]] = "bound" /\ made[tr.new[n]].path = tr.cand[n].path
  BY <1>3, Works, Lists, SocketFacts, RecFields DEF ListenersInv, Owned, FreshOK, Allocated
<1>5. /\ sock'[tr.cand[n].path] = tr.new[n] /\ stage'[tr.new[n]] = None
      /\ \A p \in Paths : p # tr.cand[n].path => sock'[p] = sock[p]
      /\ \A j \in Sockets : j # tr.new[n] => stage'[j] = stage[j]
  BY <1>1, <1>4 DEF ListenersInv, Types, TypeOK
<1>6. /\ Changed' = Changed /\ Disrupted' = Disrupted /\ Wanted' = Wanted
      /\ Same' = Same /\ Ordinary' = Ordinary /\ InUse' = InUse
  BY <1>1, <1>2, Lists, Views
<1>7. /\ Left' = Left /\ Drains' = Drains /\ Fresh' = Fresh /\ Tried' = {} /\ Tried = {}
      /\ Placed' = Placed \cup {n} /\ Placed = Ordinary \ tr.todo
  BY <1>1, <1>2, <1>3, <1>6 DEF Left, Drains, Fresh, Tried, Placed
<1>8. Steps'
  BY <1>1, <1>2, <1>3, <1>6 DEF ListenersInv, Steps, Unlocked, StagedSoFar, SwappedSoFar
<1>9. Owned'
  BY <1>1, <1>2, <1>3, <1>6, <1>7 DEF ListenersInv, Owned, Allocated, RunningOK, AllRunning,
     FreshOK, LeavingOK, Disjoint
<1>10. Filed'
  <2>1. OwnedPaths'
    <3>1. \A j : Owner(j)' = Owner(j)
      BY <1>3, <1>6, <1>7 DEF Owner
    <3>2. Owner(tr.new[n])
      BY <1>3, <1>4, SocketFacts DEF Owner, Fresh
    <3>3. QED
      BY <1>1, <1>4, <1>5, <3>1, <3>2 DEF ListenersInv, Filed, OwnedPaths, Path
  <2>2. OldAt'
    <3>1. \A m \in Names : running[m] # 0 =>
             /\ config[m].path \in Paths /\ running[m] # None
             /\ sock[config[m].path] = running[m] \/ config[m].path \in touched
      BY <1>7, Lists, Ranges, SocketFacts DEF ListenersInv, Owned, RunningOK, Filed, OldAt
    <3>2. QED
      BY <1>1, <1>5, <3>1 DEF OldAt
  <2>3. NewAt'
    <3>1. \A m \in Placed : m \in DOMAIN tr.cand /\ tr.cand[m].path \in Paths
      BY <1>7, Lists
    <3>2. \A m \in Placed : m # n => tr.cand[m].path # tr.cand[n].path
      BY <1>4, <3>1, Lists
    <3>3. QED
      BY <1>1, <1>2, <1>3, <1>5, <1>7, <3>1, <3>2 DEF ListenersInv, Filed, NewAt
  <2>4. StageOnly'
    <3> SUFFICES ASSUME NEW j \in Sockets, stage'[j] \in Sockets
                 PROVE  \E m \in Names : StagedFor(j, m)'
      BY <1>3 DEF StageOnly
    <3>1. j # tr.new[n] /\ stage'[j] = stage[j]
      BY <1>5, SocketFacts
    <3>2. PICK m \in Names : StagedFor(j, m)
      BY <3>1 DEF ListenersInv, Filed, StageOnly
    <3>3. StagedFor(j, m)'
      BY <1>1, <1>2, <1>7, <3>1, <3>2 DEF StagedFor
    <3>4. QED
      BY <3>3
  <2>5. StageOld'
    BY <1>2, <1>3 DEF StageOld
  <2>6. QED
    BY <2>1, <2>2, <2>3, <2>4, <2>5 DEF Filed
<1>11. GateOver'
  BY <1>1, <1>2, <1>6, <1>7 DEF ListenersInv, GateOver, On, Active
<1>12. QED
  BY <1>1, <1>8, <1>9, <1>10, <1>11, RoutedFrame DEF Rest, ListenersInv

(* The exchange: the new socket is at the path, and what was there, the old  *)
(* one or what replaced it, in the staging directory.                        *)
LEMMA SwapStep ==
  ASSUME ListenersInv, NEW n \in Names, Swap(n)
  PROVE  Rest'
<1>1. /\ UNCHANGED <<config, made, loop, running, phase, draining, touched, via>>
      /\ UNCHANGED <<entries, holds>>
      /\ tr.pc = "swap" /\ n \in tr.todo
      /\ sock' = [sock EXCEPT ![tr.cand[n].path] = tr.new[n]]
      /\ stage' = [stage EXCEPT ![tr.new[n]] = sock[tr.cand[n].path]]
      /\ tr' = [tr EXCEPT !.pc = "confirm", !.todo = {n}]
  BY DEF Swap, To, Quiet, Calm, files, history, registry, gates
<1>2. /\ tr'.pc = "confirm" /\ tr'.cand = tr.cand /\ tr'.todo = {n}
      /\ tr'.new = tr.new /\ tr'.swapped = tr.swapped /\ tr'.retired = tr.retired
      /\ tr'.cur = tr.cur
  BY <1>1 DEF ListenersInv, Types, TrType
<1>3. /\ Pre /\ Pre' /\ Full /\ Full' /\ n \in Same \ tr.swapped /\ n \in Wanted
      /\ tr.swapped \subseteq Same
  BY <1>1, <1>2, Lists DEF Pre, Full, ListenersInv, Steps, SwappedSoFar
<1>4. /\ tr.new[n] \in Sockets /\ tr.cand[n].path \in Paths /\ n \in DOMAIN tr.cand
      /\ made[tr.new[n]] = Rec(n, tr.cand[n]) /\ made[tr.new[n]] # None
      /\ loop[tr.new[n]] = "bound" /\ made[tr.new[n]].path = tr.cand[n].path
      /\ n \in DOMAIN config /\ config[n].path = tr.cand[n].path /\ running[n] \in Sockets
  BY <1>3, Works, Lists, SocketFacts, RecFields DEF ListenersInv, Owned, FreshOK, Allocated
<1>5. /\ sock'[tr.cand[n].path] = tr.new[n] /\ stage'[tr.new[n]] = sock[tr.cand[n].path]
      /\ \A p \in Paths : p # tr.cand[n].path => sock'[p] = sock[p]
      /\ \A j \in Sockets : j # tr.new[n] => stage'[j] = stage[j]
  BY <1>1, <1>4 DEF ListenersInv, Types, TypeOK
<1>6. /\ Changed' = Changed /\ Disrupted' = Disrupted /\ Wanted' = Wanted
      /\ Same' = Same /\ Ordinary' = Ordinary /\ InUse' = InUse
  BY <1>1, <1>2, Lists, Views
<1>7. /\ Left' = Left /\ Drains' = Drains /\ Fresh' = Fresh
      /\ Tried' = tr.swapped \cup {n} /\ Tried = tr.swapped
      /\ Placed' = Placed \cup {n} /\ Placed = Ordinary \cup tr.swapped
  BY <1>1, <1>2, <1>3, <1>6 DEF Left, Drains, Fresh, Tried, Placed
<1>8. Steps'
  BY <1>1, <1>2, <1>3, <1>6 DEF ListenersInv, Steps, Unlocked, StagedSoFar, SwappedSoFar
<1>9. Owned'
  BY <1>1, <1>2, <1>3, <1>6, <1>7 DEF ListenersInv, Owned, Allocated, RunningOK, AllRunning,
     FreshOK, LeavingOK, Disjoint
<1>10. \A m \in Names : tr.new[m] = tr.new[n] => m = n
  BY <1>3, <1>4, SocketFacts, RecFields DEF ListenersInv, Owned, FreshOK
<1>11. Filed'
  <2>1. OwnedPaths'
    <3>1. \A j : Owner(j)' = Owner(j)
      BY <1>3, <1>6, <1>7 DEF Owner
    <3>2. Owner(tr.new[n])
      BY <1>3, <1>4, SocketFacts DEF Owner, Fresh
    <3>3. QED
      BY <1>1, <1>4, <1>5, <3>1, <3>2 DEF ListenersInv, Filed, OwnedPaths, Path
  <2>2. OldAt'
    <3>1. \A m \in Names : running[m] # 0 => m \in DOMAIN config /\ config[m].path \in Paths
      BY Lists DEF ListenersInv, Owned, RunningOK
    <3>2. \A m \in DOMAIN config : m # n => config[m].path # tr.cand[n].path
      BY <1>4, Lists
    <3>3. QED
      BY <1>1, <1>3, <1>5, <1>7, <3>1, <3>2 DEF ListenersInv, Filed, OldAt
  <2>3. NewAt'
    <3>1. \A m \in Placed : m \in DOMAIN tr.cand /\ tr.cand[m].path \in Paths
      BY <1>3, <1>7, Lists
    <3>2. \A m \in Placed : m # n => tr.cand[m].path # tr.cand[n].path
      BY <1>4, <3>1, Lists
    <3>3. QED
      BY <1>1, <1>2, <1>3, <1>5, <1>7, <3>1, <3>2 DEF ListenersInv, Filed, NewAt
  <2>4. StageOnly'
    <3> SUFFICES ASSUME NEW j \in Sockets, stage'[j] \in Sockets
                 PROVE  \E m \in Names : StagedFor(j, m)'
      BY <1>3 DEF StageOnly
    <3>1. CASE j = tr.new[n]
      <4>1. stage'[j] = running[n]
        BY <1>1, <1>5, <3>1 DEF ListenersInv, Filed, StageOld
      <4>2. StagedFor(j, n)'
        BY <1>1, <1>2, <1>7, <3>1, <4>1 DEF StagedFor
      <4>3. QED
        BY <4>2
    <3>2. CASE j # tr.new[n]
      <4>1. PICK m \in Names : StagedFor(j, m)
        BY <1>5, <3>2 DEF ListenersInv, Filed, StageOnly
      <4>2. StagedFor(j, m)'
        BY <1>1, <1>2, <1>5, <1>7, <3>2, <4>1 DEF StagedFor
      <4>3. QED
        BY <4>2
    <3>3. QED
      BY <3>1, <3>2
  <2>5. StageOld'
    <3>1. stage'[tr.new[n]] = running[n] \/ tr.cand[n].path \in touched
      BY <1>3, <1>4, <1>5, <1>7, SocketFacts DEF ListenersInv, Filed, OldAt
    <3>2. \A m \in tr.swapped : tr.new[m] \in Sockets /\ tr.new[m] # tr.new[n]
      BY <1>3, <1>10, Works, Lists
    <3>3. QED
      BY <1>1, <1>2, <1>3, <1>5, <3>1, <3>2 DEF ListenersInv, Filed, StageOld
  <2>6. QED
    BY <2>1, <2>2, <2>3, <2>4, <2>5 DEF Filed
<1>12. GateOver'
  BY <1>1, <1>2, <1>6, <1>7 DEF ListenersInv, GateOver, On, Active
<1>13. QED
  BY <1>1, <1>8, <1>9, <1>11, <1>12, RoutedFrame DEF Rest, ListenersInv

(* A new socket is nobody else's. *)
LEMMA FreshApart ==
  ASSUME ListenersInv, Pre, NEW j \in Fresh
  PROVE  /\ j \in Sockets /\ loop[j] = "bound" /\ made[j] # None
         /\ j \notin InUse /\ j \notin Left /\ j \notin Drains
         /\ \A c \in Ids : via[c] # j
<1>1. PICK n \in Names : j = tr.new[n] /\ j # 0
  BY DEF Fresh
<1>2. j \in Sockets /\ loop[j] = "bound"
  BY <1>1, Ranges DEF ListenersInv, Owned, FreshOK
<1>3. made[j] # None /\ j \notin InUse
  BY <1>1, <1>2 DEF ListenersInv, Owned, Allocated, RunningOK, InUse
<1>4. j \notin Left /\ j \notin Drains
  BY <1>1, <1>2 DEF ListenersInv, Owned, LeavingOK, Left, Drains
<1>5. \A c \in Ids : via[c] # j
  BY <1>1, <1>2 DEF ListenersInv, Routed
<1>6. QED
  BY <1>2, <1>3, <1>4, <1>5

(* rollback_exchanges and the guards' Drops leave the paths as they were,    *)
(* where nothing else has been at them.                                      *)
LEMMA AbortStep ==
  ASSUME ListenersInv, Abort
  PROVE  Rest'
<1>1. /\ UNCHANGED <<config, running, phase, draining, entries>>
      /\ tr' = IdleTr /\ Pre /\ tr.pc # "commit" /\ touched \subseteq touched'
  BY DEF Abort, Calm, Raced, OpenGate, Pre
<1>2. /\ tr.retired = {} /\ tr.cur = 0
      /\ tr'.pc = "idle" /\ tr'.retired = {} /\ tr'.cur = 0 /\ ~Pre' /\ Unlocked'
  BY <1>1 DEF ListenersInv, Steps, Unlocked, Pre, IdleTr
<1>3. \A j \in Sockets : IF j \in Fresh THEN loop'[j] = "none" /\ made'[j] = None
                                        ELSE loop'[j] = loop[j] /\ made'[j] = made[j]
  BY DEF Abort, Forget
<1>4. \A c \in Ids : via'[c] = via[c] /\ via[c] \notin Fresh
  <2>1. \A c \in Ids : via[c] \notin Fresh
    BY <1>1, FreshApart
  <2>2. QED
    BY <2>1 DEF Abort, Forget
<1>5. InUse' = InUse /\ Left' = Left /\ Drains' = Drains /\ Left = {0}
  BY <1>1, <1>2 DEF InUse, Left, Drains
<1>6. \A n \in Names : running[n] \notin Fresh
  BY <1>1, FreshApart DEF InUse
<1>7. Steps'
  BY <1>2 DEF Steps, StagedSoFar, SwappedSoFar, Full, Pre
<1>8. Owned'
  <2>1. Allocated' /\ RunningOK' /\ AllRunning' /\ FreshOK'
    BY <1>1, <1>2, <1>3, <1>6, Ranges
       DEF ListenersInv, Owned, Allocated, RunningOK, AllRunning, FreshOK
  <2>2. LeavingOK'
    <3>1. draining.left \cap Fresh = {} /\ draining.cur \notin Fresh
      BY <1>1, FreshApart DEF Drains
    <3>2. QED
      BY <1>1, <1>2, <1>3, <3>1, Ranges DEF ListenersInv, Owned, LeavingOK
  <2>3. Disjoint'
    BY <1>5 DEF ListenersInv, Owned, Disjoint
  <2>4. QED
    BY <2>1, <2>2, <2>3 DEF Owned
<1>9. /\ \A n \in Undone : /\ n \in Tried /\ n \in Same /\ n \in Names /\ n \in DOMAIN tr.cand
                           /\ n \in DOMAIN config /\ running[n] \in Sockets
                           /\ config[n].path = tr.cand[n].path /\ tr.cand[n].path \in Paths
  BY <1>1, Works, Lists DEF Undone, Tried
<1>10. ASSUME NEW n \in Undone PROVE sock'[tr.cand[n].path] = running[n]
  <2>1. \A m \in Undone : tr.cand[m].path = tr.cand[n].path => m = n
    BY <1>9, Lists
  <2>2. (CHOOSE m \in Undone : tr.cand[m].path = tr.cand[n].path) = n
    BY <2>1
  <2>3. QED
    BY <1>9, <2>2 DEF Abort
<1>11. ASSUME NEW p \in Paths, \A n \in Undone : tr.cand[n].path # p
       PROVE  sock'[p] = IF sock[p] \in Fresh THEN None ELSE sock[p]
  BY <1>11 DEF Abort, Unlink
<1>12. Filed'
  <2>1. OwnedPaths'
    <3> SUFFICES ASSUME NEW p \in Paths, sock'[p] \in Sockets
                 PROVE  made'[sock'[p]] # None /\ made'[sock'[p]].path = p /\ Owner(sock[p])'
      BY DEF OwnedPaths, Path
    <3>1. ASSUME NEW n \in Undone, tr.cand[n].path = p
          PROVE  made'[sock'[p]] # None /\ made'[sock'[p]].path = p /\ Owner(sock[p])'
      <4>1. sock'[p] = running[n] /\ made'[running[n]] = made[running[n]]
        BY <1>3, <1>6, <1>9, <1>10, <3>1
      <4>2. /\ made[running[n]] = Rec(n, config[n]) /\ loop[running[n]] # "none"
        BY <1>9, SocketFacts DEF ListenersInv, Owned, RunningOK
      <4>3. made[running[n]] # None /\ made[running[n]].path = p
        BY <1>9, <3>1, <4>2, RecFields DEF ListenersInv, Owned, Allocated
      <4>4. running[n] \in InUse'
        BY <1>5, <1>9 DEF InUse
      <4>5. QED
        BY <4>1, <4>3, <4>4 DEF Owner
    <3>2. CASE \A n \in Undone : tr.cand[n].path # p
      <4>1. sock'[p] = sock[p] /\ sock[p] \notin Fresh
        BY <1>11, <3>2, SocketFacts
      <4>2. made[sock[p]] # None /\ made[sock[p]].path = p /\ Owner(sock[p])
        BY <4>1 DEF ListenersInv, Filed, OwnedPaths, Path
      <4>3. Owner(sock[p])'
        BY <1>5, <4>1, <4>2 DEF Owner
      <4>4. made'[sock[p]] = made[sock[p]]
        BY <1>3, <4>1
      <4>5. QED
        BY <4>1, <4>2, <4>3, <4>4
    <3>3. QED
      BY <3>1, <3>2
  <2>2. OldAt'
    <3> SUFFICES ASSUME NEW n \in Names, running[n] # 0, config[n].path \notin touched'
                 PROVE  sock'[config[n].path] = running[n]
      BY <1>1, <1>2 DEF OldAt
    <3>1. n \in DOMAIN config /\ config[n].path \in Paths
      BY Lists DEF ListenersInv, Owned, RunningOK
    <3>2. CASE n \in Undone
      BY <1>9, <1>10, <3>2
    <3>3. n \notin Tried \ Undone
      <4> SUFFICES ASSUME n \in Tried PROVE n \in Undone
        OBVIOUS
      <4>1. n \in Same /\ n \in Placed /\ config[n].path = tr.cand[n].path
        BY <1>1, Works DEF Placed
      <4>2. sock[tr.cand[n].path] = tr.new[n]
        BY <1>1, <4>1 DEF ListenersInv, Filed, NewAt
      <4>3. stage[tr.new[n]] = running[n]
        BY <1>1, <4>1 DEF ListenersInv, Filed, StageOld, Tried
      <4>4. CASE tr.pc = "confirm" /\ n \in tr.todo
        BY <4>2, <4>3, <4>4 DEF Abort, Exchanged, ListenersInv, Steps, SwappedSoFar
      <4>5. QED
        BY <4>2, <4>3, <4>4 DEF Undone, Exchanged, Tried
    <3>4. CASE n \notin Tried
      <4>1. sock[config[n].path] = running[n]
        BY <1>1, <3>4 DEF ListenersInv, Filed, OldAt
      <4>2. \A m \in Undone : tr.cand[m].path # config[n].path
        BY <1>9, <3>1, <3>4, Lists
      <4>3. QED
        BY <1>6, <1>11, <3>1, <4>1, <4>2
    <3>5. QED
      BY <3>2, <3>3, <3>4
  <2>3. StageOnly'
    <3> SUFFICES ASSUME NEW j \in Sockets PROVE stage'[j] \notin Sockets
      BY DEF StageOnly
    <3>1. \/ stage'[j] = Alien
          \/ stage'[j] = Unlink(Fresh \cup {running[n] : n \in {m \in Tried : tr.new[m] = j}},
                               stage[j])
      BY DEF Abort
    <3>2. CASE stage[j] \in Sockets
      <4>1. PICK n \in Names : StagedFor(j, n)
        BY <3>2 DEF ListenersInv, Filed, StageOnly
      <4>2. j \in Fresh
        BY <4>1, SocketFacts DEF StagedFor, Fresh
      <4>3. stage[j] \in Fresh \cup {running[m] : m \in {m \in Tried : tr.new[m] = j}}
        BY <4>1, <4>2 DEF StagedFor
      <4>4. QED
        BY <3>1, <4>3, SocketFacts DEF Unlink
    <3>3. CASE stage[j] \notin Sockets
      BY <3>1, <3>3, SocketFacts DEF Unlink
    <3>4. QED
      BY <3>2, <3>3
  <2>4. NewAt' /\ StageOld'
    BY <1>2 DEF NewAt, StageOld
  <2>5. QED
    BY <2>1, <2>2, <2>3, <2>4 DEF Filed
<1>13. GateOver'
  BY <1>2 DEF GateOver, Left
<1>14. Routed'
  BY <1>1, <1>3, <1>4, Ranges, SMTT(30) DEF ListenersInv, Routed, Active, RegistryInv, RegistryTypeOK
<1>15. QED
  BY <1>7, <1>8, <1>12, <1>13, <1>14 DEF Rest

(* The new sockets become the running ones, and the ones they replace are    *)
(* retired with their listeners' gates still closed.                         *)
LEMMA CommitStep ==
  ASSUME ListenersInv, Commit
  PROVE  Rest'
<1>1. /\ UNCHANGED <<made, via, sock, phase, draining, touched, entries, holds>>
      /\ tr.pc = "commit" /\ config' = tr.cand
      /\ tr' = [tr EXCEPT !.pc = "retire", !.retired = {running[n] : n \in Changed} \ {0}]
  BY DEF Commit, history, registry, gates
<1>2. /\ tr'.pc = "retire" /\ tr'.cand = tr.cand /\ tr'.new = tr.new /\ tr'.cur = tr.cur
      /\ tr'.retired = {running[n] : n \in Changed} \ {0}
  BY <1>1 DEF ListenersInv, Types, TrType
<1>3. /\ Pre /\ Full /\ ~Pre' /\ ~Full' /\ tr.cur = 0 /\ tr.retired = {} /\ tr.swapped = Same
      /\ Tried = Same /\ Placed = Wanted
  BY <1>1, <1>2, Lists
     DEF Pre, Full, ListenersInv, Steps, Unlocked, SwappedSoFar, Tried, Placed
<1>4. \A n \in Names : running'[n] = IF n \in Changed THEN tr.new[n] ELSE running[n]
  BY DEF Commit
<1>5. \A j \in Sockets : loop'[j] = IF j \in Fresh THEN "serving" ELSE loop[j]
  BY DEF Commit
<1>6. \A n \in Names : running[n] \notin Fresh
  BY <1>3, FreshApart DEF InUse
<1>7. \A n \in Names : running[n] # 0 /\ n \notin Changed =>
        n \in DOMAIN config /\ n \in DOMAIN tr.cand /\ config[n] = tr.cand[n]
  BY DEF ListenersInv, Owned, RunningOK, Changed
<1>8. \A n \in Names : tr.new[n] # 0 =>
        /\ n \in Wanted /\ tr.new[n] \in Fresh /\ made[tr.new[n]] = Rec(n, tr.cand[n])
  BY <1>3 DEF ListenersInv, Owned, FreshOK, Fresh
<1>9. \A n \in Names : running[n] # 0 => made[running[n]].name = n /\ n \in DOMAIN config
  BY RecFields DEF ListenersInv, Owned, RunningOK
<1>10. Steps'
  BY <1>2, <1>3 DEF Steps, Unlocked, StagedSoFar, SwappedSoFar
<1>11. /\ Left' = tr'.retired \cup {0} /\ Drains' = Drains
       /\ \A i \in InUse' \ {0} : i \in Fresh \/ \E n \in Names \ Changed : i = running[n]
  <2>1. Left' = tr'.retired \cup {0} /\ Drains' = Drains
    BY <1>1, <1>2, <1>3 DEF Left, Drains
  <2>2. ASSUME NEW n \in Names, running'[n] # 0
        PROVE  running'[n] \in Fresh \/ \E m \in Names \ Changed : running'[n] = running[m]
    BY <1>4, <1>8, <2>2
  <2>3. QED
    BY <2>1, <2>2 DEF InUse
<1>12. Owned'
  <2>1. Allocated'
    BY <1>1, <1>3, <1>5, FreshApart DEF ListenersInv, Owned, Allocated
  <2>2. RunningOK'
    <3> SUFFICES ASSUME NEW n \in Names, running'[n] # 0
                 PROVE  /\ n \in DOMAIN tr.cand /\ loop'[running'[n]] \in {"serving", "failed"}
                        /\ made[running'[n]] = Rec(n, tr.cand[n])
      BY <1>1 DEF RunningOK, Rec
    <3>1. CASE n \in Changed
      BY <1>3, <1>4, <1>5, <1>8, <3>1, Lists, FreshApart
    <3>2. CASE n \notin Changed
      <4>1. running'[n] = running[n] /\ running[n] \in Sockets /\ running[n] \notin Fresh
        BY <1>4, <1>6, <3>2, Ranges
      <4>2. loop[running[n]] \in {"serving", "failed"} /\ made[running[n]] = Rec(n, config[n])
        BY <4>1, SocketFacts DEF ListenersInv, Owned, RunningOK
      <4>3. QED
        BY <1>5, <1>7, <3>2, <4>1, <4>2, SocketFacts
    <3>3. QED
      BY <3>1, <3>2
  <2>3. AllRunning'
    <3> SUFFICES ASSUME phase = "up", NEW n \in DOMAIN tr.cand PROVE running'[n] # 0
      BY <1>1 DEF AllRunning
    <3>1. CASE n \in Changed
      BY <1>3, <1>4, <3>1, Lists, SocketFacts, Works DEF Wanted
    <3>2. CASE n \notin Changed
      BY <1>4, <3>2, Lists DEF ListenersInv, Owned, AllRunning, Changed
    <3>3. QED
      BY <3>1, <3>2
  <2>4. FreshOK'
    BY <1>3 DEF FreshOK
  <2>5. LeavingOK'
    <3>1. \A i \in tr'.retired : i \in Sockets /\ loop'[i] = loop[i] /\ loop[i] \in {"serving", "failed"}
      BY <1>2, <1>5, <1>6, Lists, Ranges DEF ListenersInv, Owned, RunningOK
    <3>2. \A i \in Drains \ {0} : i \in Sockets /\ loop'[i] = loop[i]
      BY <1>3, <1>5, FreshApart, Ranges DEF Drains
    <3>3. QED
      BY <1>1, <1>2, <1>3, <3>1, <3>2, Ranges DEF ListenersInv, Owned, LeavingOK, Drains
  <2>6. Disjoint'
    <3>1. \A i \in Sockets : i \in InUse' => i \notin Left' /\ i \notin Drains'
      <4> SUFFICES ASSUME NEW i \in Sockets, i \in InUse' PROVE i \notin Left' /\ i \notin Drains'
        OBVIOUS
      <4>1. CASE i \in Fresh
        <5>1. i \notin tr'.retired
          BY <1>2, <1>6, <4>1, Lists
        <5>2. QED
          BY <1>3, <1>11, <4>1, <5>1, FreshApart, SocketFacts
      <4>2. ASSUME NEW n \in Names \ Changed, i = running[n]
            PROVE  i \notin Left' /\ i \notin Drains'
        <5>1. i \in InUse /\ made[i].name = n
          BY <1>9, <4>2, SocketFacts DEF InUse
        <5>2. i \notin tr'.retired
          BY <1>2, <1>9, <4>2, <5>1, Lists
        <5>3. QED
          BY <1>11, <5>1, <5>2, SocketFacts DEF ListenersInv, Owned, Disjoint
      <4>3. QED
        BY <1>11, <4>1, <4>2, SocketFacts
    <3>2. \A i \in Sockets : i \in Left' => i \notin Drains'
      BY <1>2, <1>11, Lists, SocketFacts DEF ListenersInv, Owned, Disjoint, InUse
    <3>3. QED
      BY <3>1, <3>2 DEF Disjoint
  <2>7. QED
    BY <2>1, <2>2, <2>3, <2>4, <2>5, <2>6 DEF Owned
<1>13. Filed'
  <2>1. OwnedPaths'
    <3> SUFFICES ASSUME NEW p \in Paths, sock[p] \in Sockets, Owner(sock[p])
                 PROVE  Owner(sock[p])'
      BY <1>1 DEF ListenersInv, Filed, OwnedPaths, Path
    <3>1. CASE sock[p] \in InUse
      <4>1. PICK n \in Names : sock[p] = running[n]
        BY <3>1 DEF InUse
      <4>2. CASE n \in Changed
        BY <1>1, <1>2, <1>11, <4>1, <4>2, SocketFacts DEF Owner
      <4>3. CASE n \notin Changed
        BY <1>1, <1>4, <4>1, <4>3 DEF Owner, InUse
      <4>4. QED
        BY <4>2, <4>3
    <3>2. CASE sock[p] \in Fresh
      <4>1. PICK n \in Names : sock[p] = tr.new[n] /\ tr.new[n] # 0
        BY <3>2 DEF Fresh
      <4>2. running'[n] = sock[p]
        BY <1>4, <1>8, <4>1 DEF Wanted
      <4>3. QED
        BY <1>1, <4>2 DEF Owner, InUse
    <3>3. CASE sock[p] \in Left \/ sock[p] \in Drains
      BY <1>1, <1>3, <1>11, <3>3, SocketFacts DEF Owner, Left
    <3>4. QED
      BY <3>1, <3>2, <3>3 DEF Owner
  <2>2. OldAt'
    <3> SUFFICES ASSUME NEW n \in Names, running'[n] # 0
                 PROVE  sock[tr.cand[n].path] = running'[n] \/ tr.cand[n].path \in touched
      BY <1>1 DEF OldAt
    <3>1. CASE n \in Changed
      BY <1>3, <1>4, <1>8, <3>1 DEF ListenersInv, Filed, NewAt
    <3>2. CASE n \notin Changed
      <4>1. n \notin Tried
        BY <1>3, <3>2, Works DEF Wanted
      <4>2. QED
        BY <1>4, <1>7, <3>2, <4>1 DEF ListenersInv, Filed, OldAt
    <3>3. QED
      BY <3>1, <3>2
  <2>3. StageOnly'
    <3> SUFFICES ASSUME NEW j \in Sockets PROVE stage'[j] \notin Sockets
      BY DEF StageOnly
    <3>1. stage'[j] = Unlink({running[n] : n \in {m \in tr.swapped : tr.new[m] = j}}, stage[j])
      BY DEF Commit
    <3>2. CASE stage[j] \in Sockets
      <4>1. PICK n \in Names : StagedFor(j, n)
        BY <3>2 DEF ListenersInv, Filed, StageOnly
      <4>2. n \in Wanted
        BY <1>8, <4>1, SocketFacts DEF StagedFor
      <4>3. stage[j] \in {running[m] : m \in {m \in tr.swapped : tr.new[m] = j}}
        BY <1>3, <4>1, <4>2 DEF StagedFor
      <4>4. QED
        BY <3>1, <4>3, SocketFacts DEF Unlink
    <3>3. CASE stage[j] \notin Sockets
      BY <3>1, <3>3, SocketFacts DEF Unlink
    <3>4. QED
      BY <3>2, <3>3
  <2>4. NewAt' /\ StageOld'
    BY <1>2, <1>3 DEF NewAt, StageOld
  <2>5. QED
    BY <2>1, <2>2, <2>3, <2>4 DEF Filed
<1>14. GateOver'
  <2>1. holds[Reload] = Disrupted /\ \A n \in holds[Reload] : On(n) = {} /\ On(n)' = On(n)
    BY <1>1 DEF ListenersInv, GateOver, On, Active
  <2>2. \A i \in tr'.retired : made[i].name \in Disrupted
    BY <1>2, <1>9, Lists DEF Disrupted
  <2>3. QED
    BY <1>1, <1>2, <1>11, <2>1, <2>2 DEF GateOver
<1>15. Routed'
  <2>1. \A c \in Ids : via[c] # 0 => via[c] \in Sockets /\ loop'[via[c]] = loop[via[c]]
    BY <1>3, <1>5, FreshApart, Ranges
  <2>2. QED
    BY <1>1, <2>1 DEF ListenersInv, Routed, Active
<1>16. QED
  BY <1>10, <1>12, <1>13, <1>14, <1>15 DEF Rest

(* A socket that is being retired has no transports: its gate is closed. *)
LEMMA RetiredIdle ==
  ASSUME ListenersInv, NEW i \in Left, i # 0
  PROVE  /\ i \in Sockets /\ tr.pc = "retire" /\ ~Pre /\ i \notin InUse /\ i \notin Drains
         /\ made[i] # None /\ \A c \in Ids : via[c] # i
<1>1. i \in Sockets /\ tr.pc = "retire" /\ ~Pre
  BY Ranges DEF Left, ListenersInv, Steps, Unlocked, Pre
<1>2. i \notin InUse /\ i \notin Drains
  BY <1>1 DEF ListenersInv, Owned, Disjoint
<1>3. made[i] # None
  BY <1>1 DEF ListenersInv, Owned, LeavingOK, Allocated, Left
<1>4. ASSUME NEW c \in Ids, via[c] = i PROVE FALSE
  <2>1. c \in Active /\ entries[c].name = made[i].name
    BY <1>4 DEF ListenersInv, Routed
  <2>2. made[i].name \in holds[Reload] /\ On(made[i].name) = {}
    BY <1>1 DEF ListenersInv, GateOver
  <2>3. QED
    BY <2>1, <2>2 DEF On
<1>5. QED
  BY <1>1, <1>2, <1>3, <1>4

LEMMA RetireStep ==
  ASSUME ListenersInv, NEW i \in Sockets, Retire(i)
  PROVE  Rest'
<1>1. /\ UNCHANGED <<config, made, sock, stage, running, phase, draining, touched, via>>
      /\ UNCHANGED <<entries, holds>>
      /\ tr.pc = "retire" /\ tr.cur = 0 /\ i \in tr.retired
      /\ tr' = [tr EXCEPT !.cur = i, !.retired = @ \ {i}]
  BY DEF Retire, Quiet, Calm, files, history, registry, gates
<1>2. /\ tr'.pc = "retire" /\ tr'.cur = i /\ tr'.retired = tr.retired \ {i}
  BY <1>1 DEF ListenersInv, Types, TrType
<1>3. /\ \A j \in Sockets : j # i => loop'[j] = loop[j]
      /\ loop'[i] = Ask(i) /\ loop[i] \in {"serving", "failed"} /\ loop'[i] \in {"asked", "failed"}
  BY <1>1 DEF Retire, ListenersInv, Types, TypeOK, Owned, LeavingOK, Ask
<1>4. ~Pre /\ ~Pre' /\ i \in Left /\ i # 0
  BY <1>1, <1>2, SocketFacts DEF Pre, Left
<1>5. i \notin InUse /\ i \notin Drains /\ \A c \in Ids : via[c] # i
  BY <1>4, RetiredIdle
<1>6. InUse' = InUse /\ Drains' = Drains /\ \A j \in Sockets : j \in Left' <=> j \in Left
  BY <1>1, <1>2, SocketFacts DEF InUse, Drains, Left
<1>7. Steps'
  BY <1>2, <1>4 DEF Steps, Unlocked, StagedSoFar, SwappedSoFar, Full, Pre
<1>8. Owned'
  <2>1. Allocated'
    BY <1>1, <1>3 DEF ListenersInv, Owned, Allocated
  <2>2. RunningOK' /\ AllRunning' /\ FreshOK'
    BY <1>1, <1>3, <1>4, <1>5, Ranges
       DEF ListenersInv, Owned, RunningOK, AllRunning, FreshOK, InUse
  <2>3. LeavingOK'
    BY <1>1, <1>2, <1>3, <1>5, Ranges DEF ListenersInv, Owned, LeavingOK, Drains
  <2>4. Disjoint'
    BY <1>6 DEF ListenersInv, Owned, Disjoint
  <2>5. QED
    BY <2>1, <2>2, <2>3, <2>4 DEF Owned
<1>9. Filed'
  <2>1. OwnedPaths'
    BY <1>1, <1>4, <1>6 DEF ListenersInv, Filed, OwnedPaths, Path, Owner
  <2>2. OldAt' /\ NewAt' /\ StageOnly' /\ StageOld'
    BY <1>1, <1>2, <1>4 DEF ListenersInv, Filed, OldAt, NewAt, StageOnly, StageOld
  <2>3. QED
    BY <2>1, <2>2 DEF Filed
<1>10. GateOver'
  BY <1>1, <1>2, <1>4 DEF ListenersInv, GateOver, On, Active, Left
<1>11. Routed'
  BY <1>1, <1>3, <1>5, Ranges DEF ListenersInv, Routed, Active
<1>12. QED
  BY <1>7, <1>8, <1>9, <1>10, <1>11 DEF Rest

(* The lease removes the path only if it still holds this socket. *)
LEMMA ReapStep ==
  ASSUME ListenersInv, Reap
  PROVE  Rest'
<1>0. PICK i \in Left : i = tr.cur /\ i # 0
  BY DEF Reap, Left
<1>1. /\ UNCHANGED <<config, stage, running, phase, draining, entries, holds>>
      /\ touched \subseteq touched' /\ tr.pc = "retire" /\ tr' = [tr EXCEPT !.cur = 0]
      /\ sock' = [sock EXCEPT ![Path(i)] = Unlink({i}, @)]
      /\ loop' = [loop EXCEPT ![i] = "none"] /\ Forget({i})
  BY <1>0 DEF Reap, Calm, Raced, registry, gates
<1>2. /\ i \in Sockets /\ ~Pre /\ i \notin InUse /\ i \notin Drains
      /\ made[i] # None /\ \A c \in Ids : via[c] # i
  BY <1>0, RetiredIdle
<1>3. /\ tr'.pc = "retire" /\ tr'.cur = 0 /\ tr'.retired = tr.retired /\ ~Pre'
  BY <1>1 DEF ListenersInv, Types, TrType, Pre
<1>4. /\ \A j \in Sockets : j # i => loop'[j] = loop[j] /\ made'[j] = made[j]
      /\ loop'[i] = "none" /\ made'[i] = None
      /\ \A c \in Ids : via'[c] = via[c]
  BY <1>1, <1>2 DEF Forget, ListenersInv, Types, TypeOK
<1>5. i \notin tr.retired
  BY <1>0 DEF ListenersInv, Owned, LeavingOK
<1>6. /\ Path(i) \in Paths /\ \A p \in Paths : sock'[p] \in Sockets => sock'[p] = sock[p] /\ sock[p] # i
      /\ \A p \in Paths : sock[p] # i => sock'[p] = sock[p]
  <2>1. Path(i) \in Paths
    BY <1>2 DEF ListenersInv, Types, TypeOK, Path
  <2>2. \A p \in Paths : sock[p] = i => p = Path(i)
    BY <1>2 DEF ListenersInv, Filed, OwnedPaths
  <2>3. \A p \in Paths : sock'[p] = IF p = Path(i) THEN Unlink({i}, sock[p]) ELSE sock[p]
    BY <1>1, <2>1 DEF ListenersInv, Types, TypeOK
  <2>4. QED
    BY <2>1, <2>2, <2>3, SocketFacts DEF Unlink
<1>7. /\ InUse' = InUse /\ Drains' = Drains
      /\ \A j \in Sockets : j \in Left' <=> j \in Left /\ j # i
  BY <1>0, <1>1, <1>3, <1>5, SocketFacts DEF InUse, Drains, Left
<1>8. Steps'
  BY <1>2, <1>3 DEF Steps, Unlocked, StagedSoFar, SwappedSoFar, Full, Pre
<1>9. \A n \in Names : running[n] # i
  BY <1>2 DEF InUse
<1>10. Owned'
  <2>1. Allocated'
    BY <1>4 DEF ListenersInv, Owned, Allocated
  <2>2. RunningOK' /\ AllRunning' /\ FreshOK'
    BY <1>1, <1>3, <1>4, <1>9, Ranges DEF ListenersInv, Owned, RunningOK, AllRunning, FreshOK
  <2>3. LeavingOK'
    BY <1>1, <1>2, <1>3, <1>4, <1>5, Ranges DEF ListenersInv, Owned, LeavingOK, Drains
  <2>4. Disjoint'
    BY <1>7 DEF ListenersInv, Owned, Disjoint
  <2>5. QED
    BY <2>1, <2>2, <2>3, <2>4 DEF Owned
<1>11. Filed'
  <2>1. OwnedPaths'
    BY <1>2, <1>3, <1>4, <1>6, <1>7 DEF ListenersInv, Filed, OwnedPaths, Path, Owner
  <2>2. OldAt'
    <3>1. \A n \in Names : running[n] # 0 => config[n].path \in Paths
      BY Lists DEF ListenersInv, Owned, RunningOK
    <3>2. QED
      BY <1>1, <1>2, <1>6, <1>9, <3>1 DEF ListenersInv, Filed, OldAt
  <2>3. NewAt' /\ StageOnly' /\ StageOld'
    BY <1>1, <1>2, <1>3 DEF ListenersInv, Filed, NewAt, StageOnly, StageOld
  <2>4. QED
    BY <2>1, <2>2, <2>3 DEF Filed
<1>12. GateOver'
  BY <1>1, <1>3, <1>4, <1>5, Ranges DEF ListenersInv, GateOver, On, Active, Left
<1>13. Routed'
  BY <1>1, <1>2, <1>4, Ranges, SMTT(30)
     DEF ListenersInv, Routed, Active, RegistryInv, RegistryTypeOK
<1>14. QED
  BY <1>8, <1>10, <1>11, <1>12, <1>13 DEF Rest

(* The retired listeners are dropped: their paths go, their tasks stay. *)
LEMMA DropStep ==
  ASSUME ListenersInv, DropRetiring
  PROVE  Rest'
<1> DEFINE gone == {i \in Left \ {0} : loop[i] \in EndedStates}
<1>1. /\ UNCHANGED <<config, stage, running, phase, draining, entries>>
      /\ touched \subseteq touched' /\ tr.pc = "retire" /\ tr' = IdleTr /\ Forget(gone)
  BY DEF DropRetiring, Calm, Raced, OpenGate
<1>2. /\ tr'.pc = "idle" /\ tr'.retired = {} /\ tr'.cur = 0 /\ ~Pre /\ ~Pre' /\ Unlocked'
  BY <1>1 DEF Pre, Unlocked, IdleTr
<1>3. \A i \in Left \ {0} : /\ i \in Sockets /\ i \notin InUse /\ i \notin Drains
                            /\ made[i] # None /\ \A c \in Ids : via[c] # i
  BY RetiredIdle
<1>4. /\ \A j \in Sockets : j \notin Left => loop'[j] = loop[j] /\ made'[j] = made[j]
      /\ \A j \in Sockets : IF j \in gone THEN loop'[j] = "none" /\ made'[j] = None
                            ELSE loop'[j] \in {loop[j], "asked"} /\ made'[j] = made[j]
      /\ \A c \in Ids : via'[c] = via[c]
  <2>1. \A j \in Sockets : made'[j] = IF j \in gone THEN None ELSE made[j]
    BY <1>1 DEF Forget
  <2>2. \A c \in Ids : via'[c] = via[c]
    BY <1>1, <1>3 DEF Forget
  <2>3. \A j \in Sockets : loop'[j] = IF j \in Left /\ loop[j] \in EndedStates THEN "none"
                                ELSE IF j \in tr.retired THEN Ask(j) ELSE loop[j]
    BY DEF DropRetiring
  <2>4. tr.retired \subseteq Left
    BY DEF Left
  <2>5. QED
    BY <2>1, <2>2, <2>3, <2>4, SocketFacts DEF Ask
<1> HIDE DEF gone
<1>5. /\ \A p \in Paths : sock'[p] \in Sockets => sock'[p] = sock[p] /\ sock[p] \notin Left
      /\ \A p \in Paths : sock[p] \notin Left => sock'[p] = sock[p]
  <2>1. \A p \in Paths : sock'[p] = Unlink({i \in Left : i # 0 /\ Path(i) = p}, sock[p])
    BY DEF DropRetiring
  <2>2. \A p \in Paths : sock[p] \in Sockets => Path(sock[p]) = p
    BY DEF ListenersInv, Filed, OwnedPaths
  <2>3. QED
    BY <2>1, <2>2, SocketFacts DEF Unlink
<1>6. InUse' = InUse /\ Drains' = Drains /\ Left' = {0}
  BY <1>1, <1>2 DEF InUse, Drains, Left
<1>7. Steps'
  BY <1>2 DEF Steps, StagedSoFar, SwappedSoFar, Full, Pre
<1>8. \A n \in Names : running[n] # 0 => running[n] \in Sockets /\ running[n] \notin Left
  BY <1>3, Ranges DEF InUse
<1>9. Owned'
  <2>1. Allocated'
    <3>1. \A j \in Sockets : made[j] = None <=> loop[j] = "none"
      BY DEF ListenersInv, Owned, Allocated
    <3>2. \A j \in Sockets : j \in Left => made[j] # None
      BY <1>3, SocketFacts
    <3>3. ASSUME NEW j \in Sockets PROVE made'[j] = None <=> loop'[j] = "none"
      <4>1. CASE j \in gone
        BY <1>4, <4>1
      <4>2. CASE j \notin gone /\ j \in Left
        BY <1>4, <3>1, <3>2, <4>2
      <4>3. CASE j \notin Left
        BY <1>4, <3>1, <4>3
      <4>4. QED
        BY <4>1, <4>2, <4>3
    <3>4. QED
      BY <3>3 DEF Allocated
  <2>2. RunningOK' /\ AllRunning' /\ FreshOK'
    BY <1>1, <1>2, <1>4, <1>8 DEF ListenersInv, Owned, RunningOK, AllRunning, FreshOK
  <2>3. LeavingOK'
    <3>1. \A j \in Drains \ {0} : j \in Sockets /\ j \notin Left
      BY <1>3, Ranges DEF Drains
    <3>2. QED
      BY <1>1, <1>2, <1>4, <3>1, Ranges DEF ListenersInv, Owned, LeavingOK, Drains
  <2>4. Disjoint'
    BY <1>6, SocketFacts DEF ListenersInv, Owned, Disjoint
  <2>5. QED
    BY <2>1, <2>2, <2>3, <2>4 DEF Owned
<1>10. Filed'
  <2>1. OwnedPaths'
    BY <1>2, <1>4, <1>5, <1>6 DEF ListenersInv, Filed, OwnedPaths, Path, Owner
  <2>2. OldAt'
    <3>1. \A n \in Names : running[n] # 0 => config[n].path \in Paths
      BY Lists DEF ListenersInv, Owned, RunningOK
    <3>2. QED
      BY <1>1, <1>2, <1>5, <1>8, <3>1 DEF ListenersInv, Filed, OldAt
  <2>3. NewAt' /\ StageOnly' /\ StageOld'
    BY <1>1, <1>2 DEF ListenersInv, Filed, NewAt, StageOnly, StageOld
  <2>4. QED
    BY <2>1, <2>2, <2>3 DEF Filed
<1>11. GateOver'
  BY <1>2, <1>6 DEF GateOver
<1>12. Routed'
  <2>1. \A c \in Ids : via[c] # 0 => via[c] \in Sockets /\ via[c] \notin Left
    BY <1>3, Ranges
  <2>2. \A c \in Ids : via[c] # 0 =>
           loop'[via[c]] = loop[via[c]] /\ made'[via[c]] = made[via[c]]
    BY <1>4, <2>1
  <2>3. Active' = Active /\ Active \subseteq Ids /\ \A c \in Ids : via'[c] = via[c]
    BY <1>1, <1>4 DEF Active, ListenersInv, RegistryInv, RegistryTypeOK
  <2>4. QED
    BY <1>1, <2>2, <2>3 DEF ListenersInv, Routed
<1>13. QED
  BY <1>7, <1>9, <1>10, <1>11, <1>12 DEF Rest

-----------------------------------------------------------------------------
(* Shutdown takes what is running, which is nobody else's. *)
LEMMA ShutdownStep ==
  ASSUME ListenersInv, Shutdown
  PROVE  Rest'
<1>1. /\ UNCHANGED <<config, made, loop, sock, stage, tr, touched, via, entries, holds>>
      /\ phase = "up" /\ phase' = "stopping" /\ ~Locked
      /\ draining' = [left |-> {running[n] : n \in Names} \ {0}, cur |-> 0]
      /\ running' = [n \in Names |-> 0]
  BY DEF Shutdown, files, history, registry, gates
<1>2. ~Pre /\ ~Pre' /\ tr.pc # "retire" /\ tr.retired = {} /\ tr.cur = 0
  BY <1>1 DEF Locked, Pre, ListenersInv, Steps, Unlocked
<1>3. /\ InUse' \subseteq {0} /\ Left' = {0} /\ Left = {0}
      /\ Drains' = (InUse \ {0}) \cup {0} /\ Drains = {0}
  BY <1>1, <1>2 DEF InUse, Left, Drains, ListenersInv, Owned, LeavingOK
<1>4. Steps'
  BY <1>1, <1>2 DEF ListenersInv, Steps, Unlocked, StagedSoFar, SwappedSoFar, Full, Pre
<1>5. Owned'
  <2>1. Allocated' /\ RunningOK' /\ AllRunning' /\ FreshOK'
    BY <1>1, <1>2 DEF ListenersInv, Owned, Allocated, RunningOK, AllRunning, FreshOK
  <2>2. LeavingOK'
    BY <1>1, <1>2 DEF ListenersInv, Owned, RunningOK, LeavingOK
  <2>3. Disjoint'
    BY <1>3, SocketFacts DEF Disjoint
  <2>4. QED
    BY <2>1, <2>2, <2>3 DEF Owned
<1>6. Filed'
  <2>1. OwnedPaths'
    BY <1>1, <1>2, <1>3, SocketFacts DEF ListenersInv, Filed, OwnedPaths, Path, Owner
  <2>2. OldAt' /\ NewAt' /\ StageOnly' /\ StageOld'
    BY <1>1, <1>2 DEF ListenersInv, Filed, OldAt, NewAt, StageOnly, StageOld, Pre
  <2>3. QED
    BY <2>1, <2>2 DEF Filed
<1>7. GateOver'
  BY <1>1, GateFrame DEF ListenersInv
<1>8. Routed'
  BY <1>1 DEF ListenersInv, Routed, Active
<1>9. QED
  BY <1>4, <1>5, <1>6, <1>7, <1>8 DEF Rest

LEMMA DrainStep ==
  ASSUME ListenersInv, NEW i \in Sockets, Drain(i)
  PROVE  Rest'
<1>1. /\ UNCHANGED <<config, made, sock, stage, running, phase, tr, touched, via>>
      /\ UNCHANGED <<entries, holds>>
      /\ phase = "stopping" /\ draining.cur = 0 /\ i \in draining.left
      /\ draining' = [left |-> draining.left \ {i}, cur |-> i]
  BY DEF Drain, files, history, registry, gates
<1>2. /\ \A j \in Sockets : j # i => loop'[j] = loop[j]
      /\ loop[i] \in {"serving", "failed"} /\ loop'[i] \in {"asked", "failed"}
  BY <1>1 DEF Drain, ListenersInv, Types, TypeOK, Owned, LeavingOK, Ask
<1>3. i \in Drains /\ i \notin InUse /\ i \notin Left
  BY <1>1 DEF Drains, ListenersInv, Owned, Disjoint
<1>4. /\ Pre' = Pre /\ Wanted' = Wanted /\ InUse' = InUse /\ Left' = Left /\ Fresh' = Fresh
      /\ Tried' = Tried /\ Placed' = Placed
      /\ \A j \in Sockets : j \in Drains' <=> j \in Drains
  BY <1>1, SocketFacts DEF Pre, Wanted, Changed, InUse, Left, Fresh, Drains, Tried, Placed,
     Ordinary, SamePath
<1>5. Steps' /\ GateOver'
  BY <1>1, StepsFrame, GateFrame DEF ListenersInv
<1>6. Owned'
  <2>1. Allocated'
    BY <1>1, <1>2 DEF ListenersInv, Owned, Allocated
  <2>2. RunningOK' /\ AllRunning'
    BY <1>1, <1>2, <1>3, Ranges DEF ListenersInv, Owned, RunningOK, AllRunning, InUse
  <2>3. FreshOK'
    BY <1>1, <1>2, <1>4, Ranges DEF ListenersInv, Owned, FreshOK
  <2>4. LeavingOK'
    BY <1>1, <1>2, <1>3, Ranges DEF ListenersInv, Owned, LeavingOK, Left
  <2>5. Disjoint'
    BY <1>4 DEF ListenersInv, Owned, Disjoint
  <2>6. QED
    BY <2>1, <2>2, <2>3, <2>4, <2>5 DEF Owned
<1>7. Filed'
  <2>1. OwnedPaths'
    BY <1>1, <1>4 DEF ListenersInv, Filed, OwnedPaths, Path, Owner
  <2>2. OldAt' /\ NewAt' /\ StageOnly' /\ StageOld'
    BY <1>1, <1>4 DEF ListenersInv, Filed, OldAt, NewAt, StageOnly, StageOld, StagedFor
  <2>3. QED
    BY <2>1, <2>2 DEF Filed
<1>8. Routed'
  BY <1>1, <1>2, Ranges DEF ListenersInv, Routed, Active
<1>9. QED
  BY <1>5, <1>6, <1>7, <1>8 DEF Rest

LEMMA DrainedStep ==
  ASSUME ListenersInv, Drained
  PROVE  Rest'
<1>0. PICK i \in Sockets : i = draining.cur
  BY Ranges DEF Drained
<1>1. /\ UNCHANGED <<config, stage, running, phase, tr, entries, holds>>
      /\ touched \subseteq touched' /\ phase = "stopping" /\ draining' = [draining EXCEPT !.cur = 0]
      /\ sock' = [sock EXCEPT ![Path(i)] = Unlink({i}, @)]
      /\ loop' = [loop EXCEPT ![i] = "none"] /\ Forget({i})
      /\ loop[i] \in {"closed", "failed"}
  BY <1>0 DEF Drained, Raced, registry, gates, EndedStates
<1>2. /\ i \in Drains /\ i \notin InUse /\ i \notin Left /\ (Pre => i \notin Fresh)
      /\ made[i] # None /\ i \notin draining.left
  <2>1. i \in Drains /\ i \notin InUse /\ i \notin Left /\ i \notin draining.left
    BY <1>0 DEF Drains, ListenersInv, Owned, Disjoint, LeavingOK
  <2>2. made[i] # None /\ (Pre => i \notin Fresh)
    BY <1>1, FreshApart DEF ListenersInv, Owned, Allocated
  <2>3. QED
    BY <2>1, <2>2
<1>3. draining'.cur = 0 /\ draining'.left = draining.left
  BY <1>1 DEF ListenersInv, Types
<1>4. /\ \A j \in Sockets : j # i => loop'[j] = loop[j] /\ made'[j] = made[j]
      /\ loop'[i] = "none" /\ made'[i] = None
      /\ \A c \in Ids : via'[c] = IF via[c] = i THEN 0 ELSE via[c]
  BY <1>1 DEF Forget, ListenersInv, Types, TypeOK
<1>5. /\ \A p \in Paths : sock'[p] \in Sockets => sock'[p] = sock[p] /\ sock[p] # i
      /\ \A p \in Paths : sock[p] # i => sock'[p] = sock[p]
  <2>1. Path(i) \in Paths
    BY <1>2 DEF ListenersInv, Types, TypeOK, Path
  <2>2. \A p \in Paths : sock[p] = i => p = Path(i)
    BY <1>2 DEF ListenersInv, Filed, OwnedPaths
  <2>3. \A p \in Paths : sock'[p] = IF p = Path(i) THEN Unlink({i}, sock[p]) ELSE sock[p]
    BY <1>1, <2>1 DEF ListenersInv, Types, TypeOK
  <2>4. QED
    BY <2>1, <2>2, <2>3, SocketFacts DEF Unlink
<1>6. \A n \in Names : running[n] # i /\ (Pre => tr.new[n] # i)
  BY <1>2, SocketFacts DEF InUse, Fresh
<1>7. /\ Changed' = Changed /\ Disrupted' = Disrupted /\ Wanted' = Wanted
      /\ Same' = Same /\ Ordinary' = Ordinary /\ InUse' = InUse
  <2>1. \A n \in Names : running[n] # 0 => made'[running[n]] = made[running[n]]
    BY <1>4, <1>6, Ranges
  <2>2. QED
    BY <1>1, <2>1, Lists, Views
<1>8. /\ Pre' = Pre /\ Full' = Full /\ Left' = Left /\ Fresh' = Fresh
      /\ Tried' = Tried /\ Placed' = Placed
      /\ \A j \in Sockets : j \in Drains' <=> j \in Drains /\ j # i
  BY <1>0, <1>1, <1>2, <1>3, <1>7, SocketFacts DEF Pre, Full, Left, Fresh, Tried, Placed, Drains
<1>9. Steps'
  BY <1>1, <1>7, <1>8 DEF ListenersInv, Steps, Unlocked, StagedSoFar, SwappedSoFar
<1>10. Owned'
  <2>1. Allocated'
    BY <1>4 DEF ListenersInv, Owned, Allocated
  <2>2. RunningOK' /\ AllRunning'
    BY <1>1, <1>4, <1>6, Ranges DEF ListenersInv, Owned, RunningOK, AllRunning
  <2>3. FreshOK'
    BY <1>1, <1>4, <1>6, <1>7, <1>8, Ranges DEF ListenersInv, Owned, FreshOK
  <2>4. LeavingOK'
    BY <1>1, <1>2, <1>3, <1>4, Ranges DEF ListenersInv, Owned, LeavingOK, Left
  <2>5. Disjoint'
    BY <1>7, <1>8 DEF ListenersInv, Owned, Disjoint
  <2>6. QED
    BY <2>1, <2>2, <2>3, <2>4, <2>5 DEF Owned
<1>11. Filed'
  <2>1. OwnedPaths'
    BY <1>4, <1>5, <1>7, <1>8 DEF ListenersInv, Filed, OwnedPaths, Path, Owner
  <2>2. OldAt'
    <3>1. \A n \in Names : running[n] # 0 => config[n].path \in Paths
      BY Lists DEF ListenersInv, Owned, RunningOK
    <3>2. QED
      BY <1>1, <1>5, <1>6, <1>8, <3>1 DEF ListenersInv, Filed, OldAt
  <2>3. NewAt'
    <3>1. Pre => \A n \in Placed : n \in Names /\ tr.cand[n].path \in Paths
      BY Lists, Works DEF Placed
    <3>2. Pre => \A n \in Placed :
            sock[tr.cand[n].path] = tr.new[n] \/ tr.cand[n].path \in touched
      BY DEF ListenersInv, Filed, NewAt
    <3>3. Pre => \A n \in Placed : sock[tr.cand[n].path] = tr.new[n] =>
            sock'[tr.cand[n].path] = tr.new[n]
      BY <1>5, <1>6, <3>1
    <3>4. QED
      BY <1>1, <1>8, <3>2, <3>3 DEF NewAt
  <2>4. StageOnly' /\ StageOld'
    <3>1. tr.pc = "swap" => \A n \in tr.todo : tr.cand[n].path \in Paths
      BY Lists, Works
    <3>2. StageOnly'
      BY <1>1, <1>8 DEF ListenersInv, Filed, StageOnly, StagedFor
    <3>3. StageOld'
      <4>1. StageOld /\ tr' = tr /\ stage' = stage /\ running' = running /\ touched \subseteq touched'
        BY <1>1 DEF ListenersInv, Filed
      <4>2. tr.pc = "swap" => \A n \in tr.todo :
              sock'[tr.cand[n].path] \in Sockets => sock'[tr.cand[n].path] = running[n]
        BY <1>5, <3>1, <4>1 DEF StageOld
      <4>3. QED
        BY <1>8, <4>1, <4>2 DEF StageOld
    <3>4. QED
      BY <3>2, <3>3
  <2>5. QED
    BY <2>1, <2>2, <2>3, <2>4 DEF Filed
<1>12. GateOver'
  <2>1. \A j \in Left \ {0} : made'[j] = made[j]
    BY <1>2, <1>4, Ranges DEF Left
  <2>2. QED
    BY <1>1, <1>7, <1>8, <2>1 DEF ListenersInv, GateOver, On, Active
<1>13. Routed'
  BY <1>1, <1>4, Ranges DEF ListenersInv, Routed, Active
<1>14. QED
  BY <1>9, <1>10, <1>11, <1>12, <1>13 DEF Rest

LEMMA ExitStep ==
  ASSUME ListenersInv, Exit
  PROVE  Rest'
<1>1. /\ UNCHANGED <<config, made, loop, sock, stage, running, tr, draining, touched, via>>
      /\ UNCHANGED <<entries, holds>>
      /\ phase' = "down" /\ draining = [left |-> {}, cur |-> 0]
  BY DEF Exit, files, history, registry, gates
<1>2. Steps' /\ Filed' /\ GateOver'
  BY <1>1, StepsFrame, FiledFrame, GateFrame DEF ListenersInv
<1>3. Owned' /\ Routed'
  BY <1>1 DEF ListenersInv, Owned, Allocated, RunningOK, AllRunning, FreshOK, LeavingOK, Disjoint,
     InUse, Left, Drains, Pre, Wanted, Changed, Routed, Active
<1>4. QED
  BY <1>2, <1>3 DEF Rest

-----------------------------------------------------------------------------
(* At startup every listener has a socket of its own. *)
LEMMA BoundIs ==
  /\ Bound \in [DOMAIN Startup -> Sockets]
  /\ \A m, n \in DOMAIN Startup : Bound[m] = Bound[n] => m = n
<1> DEFINE k == Cardinality(DOMAIN Startup)
<1>1. k \in Nat /\ ExistsBijection(1..k, DOMAIN Startup) /\ k <= LastInode /\ LastInode \in Nat
  BY ListenersOK, FS_CardinalityType
<1>2. ExistsBijection(DOMAIN Startup, 1..k)
  BY <1>1, Fun_ExistsBijSymmetric
<1>3. PICK b \in Bijection(DOMAIN Startup, 1..k) : TRUE
  BY <1>2 DEF ExistsBijection
<1>4. /\ b \in [DOMAIN Startup -> 1..k]
      /\ \A m, n \in DOMAIN Startup : b[m] = b[n] => m = n
  BY <1>3 DEF Bijection, Injection, IsInjective
<1>5. /\ Bound \in [DOMAIN Startup -> 1..k]
      /\ \A m, n \in DOMAIN Startup : Bound[m] = Bound[n] => m = n
  BY <1>4 DEF Bound
<1>6. 1..k \subseteq Sockets
  BY <1>1 DEF Sockets
<1>7. QED
  BY <1>5, <1>6

LEMMA ListenersInit ==
  ASSUME Init
  PROVE  ListenersInv
<1>1. RegistryInv
  BY InvInit DEF Init
<1>2. /\ config = Startup /\ ledger = NoSet /\ tr = IdleTr /\ phase = "up"
      /\ draining = [left |-> {}, cur |-> 0] /\ touched = {} /\ aliens = 0
      /\ original = [n \in DOMAIN Startup |-> Startup[n].path]
      /\ via = [c \in Ids |-> 0] /\ stage = [i \in Sockets |-> None]
      /\ loop = [i \in Sockets |-> IF made[i] = None THEN "none" ELSE "serving"]
      /\ running = [n \in Names |-> IF n \in DOMAIN Startup THEN Bound[n] ELSE 0]
  BY DEF Init
<1>3. /\ DOMAIN Startup \subseteq Names
      /\ \A n \in DOMAIN Startup : Startup[n] \in [kind : Kinds, path : Paths]
      /\ \A m, n \in DOMAIN Startup : Startup[m].path = Startup[n].path => m = n
  BY SocketFacts DEF WellFormed
<1>4. ASSUME NEW n \in DOMAIN Startup PROVE made[Bound[n]] = Rec(n, Startup[n])
  <2>1. (CHOOSE m \in DOMAIN Startup : Bound[m] = Bound[n]) = n /\ Bound[n] \in Sockets
    BY BoundIs
  <2>2. QED
    BY <2>1 DEF Init, Rec
<1>5. ASSUME NEW i \in Sockets, \A n \in DOMAIN Startup : Bound[n] # i PROVE made[i] = None
  BY <1>5 DEF Init
<1>6. ASSUME NEW n \in DOMAIN Startup PROVE sock[Startup[n].path] = Bound[n]
  <2>1. (CHOOSE m \in DOMAIN Startup : Startup[m].path = Startup[n].path) = n
        /\ Startup[n].path \in Paths
    BY <1>3
  <2>2. QED
    BY <2>1 DEF Init
<1>7. ASSUME NEW p \in Paths, \A n \in DOMAIN Startup : Startup[n].path # p PROVE sock[p] = None
  BY <1>7 DEF Init
<1>8. \A n \in DOMAIN Startup :
        /\ Rec(n, Startup[n]) \in [name : Names, kind : Kinds, path : Paths]
        /\ Rec(n, Startup[n]) # None
  BY <1>3, SocketFacts DEF Rec
<1>9. FileTypes
  <2>1. /\ DOMAIN made = Sockets /\ DOMAIN sock = Paths
        /\ made = [i \in Sockets |-> made[i]] /\ sock = [p \in Paths |-> sock[p]]
    BY DEF Init
  <2>2. \A i \in Sockets : made[i] \in [name : Names, kind : Kinds, path : Paths] \cup {None}
    BY <1>4, <1>5, <1>8
  <2>3. \A p \in Paths : sock[p] \in Sockets \cup {None, Alien}
    BY <1>6, <1>7, BoundIs
  <2>4. QED
    <3>1. made \in [Sockets -> [name : Names, kind : Kinds, path : Paths] \cup {None}]
      BY <2>1, <2>2
    <3>2. sock \in [Paths -> Sockets \cup {None, Alien}]
      BY <2>1, <2>3
    <3>3. QED
      BY <1>2, <3>1, <3>2 DEF FileTypes, States
<1>10. ListTypes /\ LedgerInv
  BY <1>2, SocketFacts DEF ListTypes, LedgerInv, LedgerExact, NoSet
<1>11. TrTypes /\ tr.pc = "idle" /\ tr.retired = {} /\ tr.cur = 0
  BY <1>2, IdleType DEF TrTypes, IdleTr
<1>12. ProcessTypes
  BY <1>2, BoundIs DEF ProcessTypes
<1>13. Types
  BY <1>1, <1>9, <1>10, <1>11, <1>12, TypesSplit DEF RegistryInv
<1>14. Steps
  BY <1>2, <1>11 DEF Steps, Unlocked, StagedSoFar, SwappedSoFar, Pre, Full, IdleTr
<1>15. \A n \in Names : running[n] # 0 =>
         /\ n \in DOMAIN Startup /\ running[n] = Bound[n] /\ made[running[n]] = Rec(n, Startup[n])
         /\ made[running[n]] # None
  BY <1>2, <1>4, <1>8
<1>16. Owned
  <2>1. Allocated
    BY <1>2 DEF Allocated
  <2>2. RunningOK
    BY <1>2, <1>15, BoundIs DEF RunningOK
  <2>3. AllRunning
    BY <1>2, <1>3, BoundIs, SocketFacts DEF AllRunning
  <2>4. FreshOK /\ LeavingOK
    BY <1>2, <1>11 DEF FreshOK, LeavingOK, Pre
  <2>5. Disjoint
    BY <1>2, <1>11, SocketFacts DEF Disjoint, Left, Drains
  <2>6. QED
    BY <2>1, <2>2, <2>3, <2>4, <2>5 DEF Owned
<1>17. Filed
  <2>1. OwnedPaths
    <3> SUFFICES ASSUME NEW p \in Paths, sock[p] \in Sockets
                 PROVE  made[sock[p]] # None /\ made[sock[p]].path = p /\ sock[p] \in InUse
      BY DEF OwnedPaths, Path, Owner
    <3>1. PICK n \in DOMAIN Startup : Startup[n].path = p
      BY <1>7, SocketFacts
    <3>2. sock[p] = Bound[n] /\ running[n] = Bound[n] /\ n \in Names
      BY <1>2, <1>3, <1>6, <3>1
    <3>3. QED
      BY <1>4, <1>8, <3>1, <3>2, RecFields DEF InUse
  <2>2. OldAt
    BY <1>2, <1>6, <1>15 DEF OldAt
  <2>3. NewAt /\ StageOnly /\ StageOld
    BY <1>2, <1>11, SocketFacts DEF NewAt, StageOnly, StageOld, Pre
  <2>4. QED
    BY <2>1, <2>2, <2>3 DEF Filed
<1>18. GateOver
  BY <1>11 DEF GateOver, Left
<1>19. Routed
  BY <1>2 DEF Routed, Init, RegistryInit, Active
<1>20. QED
  BY <1>1, <1>10, <1>13, <1>14, <1>16, <1>17, <1>18, <1>19 DEF ListenersInv

(* The invariant is kept by every step. *)
LEMMA ListenersNext == ListenersInv /\ [Next]_vars => ListenersInv'
<1> SUFFICES ASSUME ListenersInv, [Next]_vars PROVE ListenersInv'
  OBVIOUS
<1>1. ASSUME Next PROVE Rest'
  BY <1>1, AcceptStep, CloseStep, LoopStep, EndedStep, ForeignStep, BeginStep, BackToIdle,
     AwaitLockStep, LockStep, AdvanceStep, QualifyStep, ConfirmStep, StageStep, PublishStep,
     SwapStep, AbortStep, CommitStep, RetireStep, ReapStep, DropStep, ShutdownStep, DrainStep,
     DrainedStep, ExitStep
     DEF Next, Proceed
<1>2. CASE Next
  BY <1>1, <1>2, TypesNext DEF ListenersInv, Rest
<1>3. CASE UNCHANGED vars
  <2>1. RegistryInv'
    BY <1>3, InvNext DEF vars, ListenersInv
  <2>2. Steps' /\ Owned' /\ Filed' /\ GateOver' /\ Routed'
    BY <1>3, StepsFrame, OwnedFrame, FiledFrame, GateFrame, RoutedFrame
       DEF vars, ListenersInv, registry, gates
  <2>3. Types' /\ LedgerInv'
    <3>1. FileTypes' /\ ListTypes' /\ TrTypes' /\ ProcessTypes'
      BY <1>3, TypesSplit
         DEF vars, ListenersInv, FileTypes, ListTypes, TrTypes, ProcessTypes, WellFormed
    <3>2. QED
      BY <1>3, <2>1, <3>1, TypesSplit
         DEF vars, ListenersInv, RegistryInv, LedgerInv, LedgerExact
  <2>4. QED
    BY <2>1, <2>2, <2>3 DEF ListenersInv
<1>4. QED
  BY <1>2, <1>3

LEMMA ListenersHold == Spec => []ListenersInv
BY ListenersInit, ListenersNext, PTL DEF Spec

-----------------------------------------------------------------------------
(* The listener runtime uses the registry as Connections says it may be      *)
(* used: every step of Listeners is one of the registry's or leaves it       *)
(* alone, so what is proved of RegistrySpec holds of the running broker.     *)
THEOREM RuntimeUsesRegistry == Spec => RegistrySpec
<1>1. Init => RegistryInit
  BY DEF Init
<1>2. ListenersInv /\ [Next]_vars => [RegistryNext]_registry
  <2>1. ASSUME ListenersInv, Next PROVE [RegistryNext]_registry
    BY <2>1, ListenersUseRegistry DEF ListenersInv, Owned
  <2>2. ASSUME UNCHANGED vars PROVE [RegistryNext]_registry
    BY <2>2 DEF vars
  <2>3. QED
    BY <2>1, <2>2
<1>3. QED
  BY <1>1, <1>2, ListenersHold, PTL DEF Spec, RegistrySpec

(* Whatever a reload did, when it is over every listener of the serving      *)
(* generation accepts at its path under its own name and type, the broker    *)
(* has nothing else in the directory, and no transport of a retyped or       *)
(* removed listener is left (transition_with_hooks, install_transition).     *)
THEOREM ServedAsConfiguredHolds == Spec => []ServedAsConfigured
<1>1. ListenersInv => Settled
  <2> SUFFICES ASSUME ListenersInv, tr.pc = "idle", phase = "up"
               PROVE  /\ \A n \in DOMAIN config : Serves(n)
                      /\ \A p \in Paths : sock[p] \in Sockets => sock[p] = running[made[sock[p]].name]
                      /\ \A i \in Sockets : stage[i] \notin Sockets
    BY DEF Settled
  <2>1. ~Pre /\ Left = {0} /\ Drains = {0}
    BY DEF Pre, ListenersInv, Steps, Unlocked, Left, Owned, LeavingOK, Drains
  <2>2. \A n \in DOMAIN config : Serves(n)
    BY <2>1, Lists DEF ListenersInv, Owned, AllRunning, RunningOK, Filed, OldAt, Serves, Rec
  <2>3. ASSUME NEW p \in Paths, sock[p] \in Sockets PROVE sock[p] = running[made[sock[p]].name]
    <3>1. sock[p] \in InUse
      BY <2>1, <2>3, SocketFacts DEF ListenersInv, Filed, OwnedPaths, Owner
    <3>2. PICK n \in Names : sock[p] = running[n]
      BY <3>1 DEF InUse
    <3>3. QED
      BY <2>3, <3>2, SocketFacts, RecFields DEF ListenersInv, Owned, RunningOK
  <2>4. \A i \in Sockets : stage[i] \notin Sockets
    BY <2>1 DEF ListenersInv, Filed, StageOnly
  <2>5. QED
    BY <2>2, <2>3, <2>4
<1>2. ListenersInv => TypesMatch
  <2> SUFFICES ASSUME ListenersInv, phase = "up", NEW c \in Active, via[c] \notin Abandoned
               PROVE  /\ entries[c].name \in DOMAIN config
                      /\ entries[c].kind = config[entries[c].name].kind
    BY DEF TypesMatch
  <2>1. c \in Ids /\ via[c] # 0 /\ via[c] \in Sockets
    BY Ranges DEF ListenersInv, Routed, RegistryInv, RegistryTypeOK
  <2>2. via[c] \in InUse
    BY <2>1, RetiredIdle DEF Abandoned
  <2>3. PICK n \in Names : via[c] = running[n]
    BY <2>2 DEF InUse
  <2>4. n \in DOMAIN config /\ made[via[c]] = Rec(n, config[n])
    BY <2>1, <2>3 DEF ListenersInv, Owned, RunningOK
  <2>5. entries[c].name = n /\ entries[c].kind = config[n].kind
    BY <2>1, <2>4, RecFields DEF ListenersInv, Routed
  <2>6. QED
    BY <2>4, <2>5
<1>3. ListenersInv => ServedAsConfigured
  BY <1>1, <1>2 DEF ServedAsConfigured, ListenersInv, Types
<1>4. QED
  BY <1>3, ListenersHold, PTL

(* The ledger names the listeners that are not at the path they were added   *)
(* with, and a shutdown that no reload overtakes leaves no socket behind     *)
(* (RewireLedger::apply, run_until_shutdown).                                *)
THEOREM PathsAccountedHolds == Spec => []PathsAccounted
<1>1. ListenersInv => CleanExit
  <2> SUFFICES ASSUME ListenersInv, phase = "down", ~Locked, InUse = {0}, NEW p \in Paths
               PROVE  sock[p] \notin Sockets
    BY DEF CleanExit
  <2>1. ~Pre /\ Left = {0} /\ Drains = {0}
    BY DEF Pre, Locked, ListenersInv, Steps, Unlocked, Left, Owned, LeavingOK, Drains
  <2>2. QED
    BY <2>1, SocketFacts DEF ListenersInv, Filed, OwnedPaths, Owner
<1>2. ListenersInv => PathsAccounted
  BY <1>1 DEF PathsAccounted, ListenersInv, LedgerInv
<1>3. QED
  BY <1>2, ListenersHold, PTL

(* An object at a path that is not the broker's is not removed by a step     *)
(* that finds it there: at worst a swap that loses the race moves it into    *)
(* the staging directory.  What is removed has come, between the look and    *)
(* the unlink, where the broker was giving up its socket                     *)
(* (remove_owned_socket_at, exchange_inner, exchange_back).                  *)
THEOREM ForeignSurvivesHolds == Spec => ForeignSurvives
<1> DEFINE Stays(p) == \/ sock'[p] = Alien \/ Foreign(p)
                      \/ \E n \in tr.todo : tr.cand[n].path = p /\ stage'[tr.new[n]] = Alien
           Taken(p) == sock[p] \in Sockets \ InUse' /\ sock'[p] = None
<1>0. \A mine \in SUBSET Sockets : Unlink(mine, Alien) = Alien
  BY SocketFacts DEF Unlink
<1>1. ASSUME ListenersInv, Next, NEW p \in Paths, sock[p] = Alien PROVE Stays(p)
  <2> USE <1>1
  <2>1. CASE sock' = sock
    BY <2>1
  <2>2. ASSUME NEW q \in Paths, Foreign(q) PROVE Stays(p)
    <3>1. CASE p = q
      BY <2>2, <3>1
    <3>2. CASE p # q
      BY <2>2, <3>2 DEF Foreign, ListenersInv, Types, TypeOK
    <3>3. QED
      BY <3>1, <3>2
  <2>3. ASSUME NEW n \in Names, Publish(n) PROVE sock'[p] = Alien
    BY <2>3, SocketFacts DEF Publish, ListenersInv, Types, TypeOK
  <2>4. ASSUME NEW n \in Names, Swap(n) PROVE Stays(p)
    <3>1. tr.new[n] \in Sockets /\ tr.cand[n].path \in Paths /\ n \in tr.todo
      BY <2>4, Works, Lists DEF Swap, Full, Pre
    <3>2. stage'[tr.new[n]] = sock[tr.cand[n].path]
      BY <2>4, <3>1 DEF Swap, ListenersInv, Types, TypeOK
    <3>3. p # tr.cand[n].path => sock'[p] = sock[p]
      BY <2>4, <3>1 DEF Swap, ListenersInv, Types, TypeOK
    <3>4. QED
      BY <3>1, <3>2, <3>3
  <2>5. CASE Abort
    <3>1. ASSUME NEW n \in Undone PROVE tr.cand[n].path # p
      <4>1. n \in Wanted /\ Pre /\ Full
        BY <2>5, Works DEF Abort, Undone, Pre, Full, ListenersInv, Steps, SwappedSoFar
      <4>2. tr.new[n] \in Sockets
        BY <4>1, Works
      <4>3. QED
        BY <4>2, SocketFacts DEF Undone, Exchanged
    <3>2. Fresh \subseteq Sockets
      BY Ranges DEF Fresh
    <3>3. QED
      BY <1>0, <2>5, <3>1, <3>2 DEF Abort
  <2>6. CASE Reap \/ Drained
    <3>1. PICK i \in Sockets : sock' = [sock EXCEPT ![Path(i)] = Unlink({i}, @)]
      BY <2>6, Ranges DEF Reap, Drained
    <3>2. QED
      BY <1>0, <3>1 DEF ListenersInv, Types, TypeOK
  <2>7. CASE DropRetiring
    <3>1. \A i \in Left : i # 0 => i \in Sockets
      BY Ranges DEF Left
    <3>2. {i \in Left : i # 0 /\ Path(i) = p} \in SUBSET Sockets
      BY <3>1
    <3>3. QED
      BY <1>0, <2>7, <3>2 DEF DropRetiring
  <2>8. QED
    BY <2>1, <2>2, <2>3, <2>4, <2>5, <2>6, <2>7
       DEF Next, Proceed, Accept, Stopping, Ended, Fails, Drain, Close, Begin, DropWaiting,
           Refuse, AwaitLock, Lock, Preflight, Advance, Commit, Finish, StageSame,
           StageOrdinary, Stage, Qualify, Confirm, Retire, Shutdown, Exit, files
<1>2. ASSUME ListenersInv, Next, NEW p \in lost' \ lost PROVE Taken(p)
  <2> USE <1>2
  <2>1. CASE lost' = lost
    BY <2>1
  <2>2. ASSUME NEW i \in Sockets, i \notin InUse', p \in Holding({i}),
               sock' = [sock EXCEPT ![Path(i)] = Unlink({i}, @)]
        PROVE  Taken(p)
    <3>1. sock[p] = i /\ p \in Paths /\ Path(i) = p
      BY <2>2 DEF Holding, ListenersInv, Filed, OwnedPaths
    <3>2. sock'[p] = None
      BY <2>2, <3>1 DEF Unlink, ListenersInv, Types, TypeOK
    <3>3. QED
      BY <2>2, <3>1, <3>2
  <2>3. CASE Reap
    <3>1. tr.cur \in Left /\ tr.cur # 0 /\ InUse' = InUse /\ p \in Holding({tr.cur})
      BY <2>3 DEF Reap, Left, Calm, InUse, Raced
    <3>2. tr.cur \in Sockets /\ tr.cur \notin InUse
      BY <3>1, <2>3, RetiredIdle DEF Reap
    <3>3. QED
      BY <2>2, <2>3, <3>1, <3>2 DEF Reap
  <2>4. CASE Drained
    <3>1. draining.cur \in Drains /\ draining.cur \in Sockets /\ InUse' = InUse
          /\ p \in Holding({draining.cur})
      BY <2>4, Ranges DEF Drained, Drains, InUse, Raced
    <3>2. draining.cur \notin InUse
      BY <3>1 DEF ListenersInv, Owned, Disjoint
    <3>3. QED
      BY <2>2, <2>4, <3>1, <3>2 DEF Drained
  <2>5. CASE DropRetiring
    <3>1. p \in Paths /\ sock[p] \in Left /\ InUse' = InUse
      BY <2>5 DEF DropRetiring, Calm, InUse, Raced, Holding
    <3>2. sock[p] # 0
      BY SocketFacts, <3>1 DEF ListenersInv, Types, TypeOK
    <3>3. sock[p] \in Sockets /\ sock[p] \notin InUse
      BY <2>5, <3>1, <3>2, RetiredIdle DEF DropRetiring
    <3>4. Path(sock[p]) = p
      BY <3>1, <3>3 DEF ListenersInv, Filed, OwnedPaths
    <3>5. sock'[p] = None
      BY <2>5, <3>1, <3>2, <3>4 DEF DropRetiring, Unlink
    <3>6. QED
      BY <3>1, <3>3, <3>5
  <2>6. CASE Abort
    <3>1. /\ p \in Paths /\ sock[p] \in Fresh /\ InUse' = InUse
          /\ \A n \in Undone : tr.cand[n].path # p
      BY <2>6 DEF Abort, Calm, InUse, Raced, Holding
    <3>2. Pre
      BY <2>6 DEF Abort, Pre
    <3>3. sock[p] \in Sockets /\ sock[p] \notin InUse
      BY <3>1, <3>2, FreshApart, Ranges DEF Fresh
    <3>4. sock'[p] = None
      BY <2>6, <3>1 DEF Abort, Unlink
    <3>5. QED
      BY <3>1, <3>3, <3>4
  <2>7. QED
    BY <2>1, <2>3, <2>4, <2>5, <2>6
       DEF Next, Proceed, Accept, Stopping, Ended, Fails, Drain, Close, Begin, DropWaiting,
           Refuse, AwaitLock, Lock, Preflight, Advance, Commit, Finish, StageSame, Foreign,
           StageOrdinary, Stage, Qualify, Confirm, Retire, Shutdown, Exit, Publish, Swap, history
<1>3. ListenersInv /\ [Next]_vars
      => [/\ \A p \in Paths : sock[p] = Alien =>
               \/ sock'[p] = Alien \/ Foreign(p)
               \/ \E n \in tr.todo : tr.cand[n].path = p /\ stage'[tr.new[n]] = Alien
          /\ \A p \in lost' \ lost :
               sock[p] \in Sockets \ InUse' /\ sock'[p] = None]_vars
  BY <1>1, <1>2
<1>4. QED
  BY <1>3, ListenersHold, PTL DEF Spec, ForeignSurvives
=============================================================================

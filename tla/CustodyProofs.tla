--------------------------- MODULE CustodyProofs ---------------------------
(***************************************************************************)
(* The two parts of the broker that keep keys and secrets for its clients. *)
(* The challenge table, for any number of keys, sources and generations,   *)
(* any capacities, lifetimes and rates, any cleanup limit, and clocks that *)
(* may be set back.  The backend manager, for any catalog, any scenes that *)
(* ScenesAssumption admits, any number of clients, rotations, sweeps,      *)
(* imports, faults and restarts.                                           *)
(***************************************************************************)
EXTENDS Challenge, Custody, FiniteSetTheorems, SequenceTheorems, TLAPS

-----------------------------------------------------------------------------
(* What was handed out.  Suffixes are the numbers of the issues, so no two *)
(* challenges share one.                                                   *)
IssuedOK ==
  /\ IsFiniteSet(issued) /\ Cardinality(issued) <= MaxIssues
  /\ \A ch \in issued : ch.suffix < Cardinality(issued) /\ ch.inst <= instance
  /\ \A a, b \in issued : a.suffix = b.suffix => a = b

RecordOf(ch) == [jkt |-> ch.jkt, gen |-> ch.gen, expires |-> ch.expires]

(* Every record is that of a challenge of this instance, and one that was  *)
(* accepted has none.                                                      *)
RecordsOK ==
  /\ \A s \in DOMAIN records :
       \E ch \in issued : ch.suffix = s /\ ch.inst = instance /\ records[s] = RecordOf(ch)
  /\ \A s \in Suffix : accepts[s] > 0 => s \notin DOMAIN records /\ s < Cardinality(issued)

ClockOK == now <= latest

ChallengeInv ==
  /\ TypeOK /\ IssuedOK /\ RecordsOK /\ ClockOK
  /\ CountsExact /\ WithinCapacity /\ QueueCoversRecords /\ SingleUse /\ HolderNotRobbed

Entries == [suffix : Suffix, expires : Nat]

-----------------------------------------------------------------------------
(* Counting.                                                               *)

LEMMA SuffixFinite == IsFiniteSet(Suffix)
  BY ChallengeAssumption, FS_Interval DEF Suffix

LEMMA RecordsFinite ==
  ASSUME TypeOK PROVE IsFiniteSet(DOMAIN records)
  BY SuffixFinite, FS_Subset DEF TypeOK

(* Without a part of the records, the counts that remove_record decrements *)
(* are again the counts of the table.                                      *)
LEMMA CountsWithout ==
  ASSUME TypeOK, CountsExact, NEW gone, gone \subseteq DOMAIN records
  PROVE  /\ CountWithout(gone) = Outstanding(Without(gone))
         /\ CountWithout(gone) \in [Jkts -> Nat]
         /\ \A j \in Jkts : Outstanding(Without(gone))[j] <= Outstanding(records)[j]
<1> DEFINE Of(j) == {s \in DOMAIN records : records[s].jkt = j}
           Lost(j) == {s \in gone : records[s].jkt = j}
           Left(j) == {s \in DOMAIN Without(gone) : Without(gone)[s].jkt = j}
<1>1. ASSUME NEW j \in Jkts
      PROVE  /\ CountWithout(gone)[j] = Cardinality(Left(j)) /\ Cardinality(Left(j)) \in Nat
             /\ Cardinality(Left(j)) <= Cardinality(Of(j))
  <2>1. IsFiniteSet(Of(j)) /\ Lost(j) \subseteq Of(j)
    BY RecordsFinite, FS_Subset
  <2>2. Left(j) = Of(j) \ Lost(j) /\ Of(j) \cap Lost(j) = Lost(j)
    BY DEF Without
  <2> HIDE DEF Of, Lost, Left
  <2>3. /\ IsFiniteSet(Left(j)) /\ Cardinality(Left(j)) = Cardinality(Of(j)) - Cardinality(Lost(j))
    BY <2>1, <2>2, FS_Difference
  <2>4. /\ Cardinality(Of(j)) \in Nat /\ Cardinality(Lost(j)) \in Nat /\ Cardinality(Left(j)) \in Nat
        /\ Cardinality(Lost(j)) <= Cardinality(Of(j))
    BY <2>1, <2>3, FS_Subset, FS_CardinalityType
  <2>5. outstanding[j] = Cardinality(Of(j))
    BY DEF CountsExact, Outstanding, Of
  <2>6. CountWithout(gone)[j] = Cardinality(Of(j)) - Cardinality(Lost(j))
    BY <2>4, <2>5 DEF CountWithout, Lost
  <2> QED
    BY <2>3, <2>4, <2>6
<1>2. \A j \in Jkts : /\ Outstanding(Without(gone))[j] = Cardinality(Left(j))
                      /\ Outstanding(records)[j] = Cardinality(Of(j))
  BY DEF Outstanding
<1>3. CountWithout(gone) = [j \in Jkts |-> CountWithout(gone)[j]]
  BY DEF CountWithout
<1>4. Outstanding(Without(gone)) = [j \in Jkts |-> Outstanding(Without(gone))[j]]
  BY DEF Outstanding
<1> HIDE DEF Of, Left
<1> QED
  BY <1>1, <1>2, <1>3, <1>4

(* One more record of key j is one more in its count. *)
LEMMA CountsWith ==
  ASSUME NEW recs, IsFiniteSet(DOMAIN recs), NEW s, s \notin DOMAIN recs, NEW rec,
         NEW j \in Jkts, rec.jkt = j, NEW more,
         more = [x \in DOMAIN recs \cup {s} |-> IF x = s THEN rec ELSE recs[x]]
  PROVE  /\ Outstanding(more) = [Outstanding(recs) EXCEPT ![j] = @ + 1]
         /\ Cardinality(DOMAIN more) = Cardinality(DOMAIN recs) + 1
<1> DEFINE Of(k) == {x \in DOMAIN recs : recs[x].jkt = k}
           Now(k) == {x \in DOMAIN more : more[x].jkt = k}
<1>1. \A k \in Jkts : IsFiniteSet(Of(k)) /\ s \notin Of(k)
  BY FS_Subset
<1>2. Now(j) = Of(j) \cup {s} /\ \A k \in Jkts : k # j => Now(k) = Of(k)
  OBVIOUS
<1>3. Cardinality(Now(j)) = Cardinality(Of(j)) + 1
  BY <1>1, <1>2, FS_AddElement
<1>4. \A k \in Jkts : Outstanding(more)[k] = Cardinality(Now(k)) /\ Outstanding(recs)[k] = Cardinality(Of(k))
  BY DEF Outstanding
<1>5. /\ Outstanding(more) = [k \in Jkts |-> Outstanding(more)[k]]
      /\ Outstanding(recs) = [k \in Jkts |-> Outstanding(recs)[k]]
  BY DEF Outstanding
<1>6. Cardinality(DOMAIN more) = Cardinality(DOMAIN recs) + 1
  BY FS_AddElement
<1> HIDE DEF Of, Now
<1> QED
  BY <1>2, <1>3, <1>4, <1>5, <1>6

-----------------------------------------------------------------------------
(* The expiry queue after a purge.                                         *)

LEMMA ExaminedBounds ==
  ASSUME TypeOK
  PROVE  Len(queue) \in Nat /\ Examined \in 0 .. Len(queue) /\ \A i \in 1 .. Len(queue) : queue[i] \in Entries
<1>1. queue \in Seq(Entries)
  BY DEF TypeOK, Entries
<1>2. Len(queue) \in Nat /\ \A i \in 1 .. Len(queue) : queue[i] \in Entries
  BY <1>1
<1>3. Examined \in 0 .. Len(queue)
  BY <1>2, ChallengeAssumption DEF Examined, Least
<1> QED
  BY <1>2, <1>3

(* The entries that stay are all moved, and only they. *)
LEMMA MovedEntries ==
  ASSUME TypeOK
  PROVE  /\ Moved \in Seq(Entries)
         /\ \A k \in Staying : \E n \in 1 .. Len(Moved) : Moved[n] = queue[k]
<1> DEFINE N == Cardinality(Staying)
           Upto(k) == {m \in Staying : m <= k}
<1>1. Staying \subseteq 1 .. Examined /\ Examined \in Nat /\ IsFiniteSet(Staying) /\ N \in Nat
  <2>1. Staying \subseteq 1 .. Examined /\ Examined \in Nat
    BY ExaminedBounds DEF Staying
  <2>2. IsFiniteSet(1 .. Examined)
    BY <2>1, FS_Interval
  <2> QED
    BY <2>1, <2>2, FS_Subset, FS_CardinalityType
<1>2. \A k \in Staying : Place(k) \in 1 .. N
  <2> TAKE k \in Staying
  <2>1. Upto(k) \subseteq Staying /\ k \in Upto(k) /\ Upto(k) # {}
    BY <1>1
  <2>2. IsFiniteSet(Upto(k)) /\ Cardinality(Upto(k)) <= N /\ Cardinality(Upto(k)) \in Nat
    BY <1>1, <2>1, FS_Subset, FS_CardinalityType
  <2>3. Cardinality(Upto(k)) # 0
    BY <2>1, <2>2, FS_EmptySet
  <2> HIDE DEF N
  <2> QED
    BY <1>1, <2>2, <2>3 DEF Place
<1>3. \A k, l \in Staying : Place(k) = Place(l) => k = l
  <2>1. ASSUME NEW k \in Staying, NEW l \in Staying, k < l PROVE Place(k) # Place(l)
    <3>0. k \in Nat /\ l \in Nat /\ \A m \in Staying : m \in Nat
      BY <1>1
    <3>1. Upto(k) \subseteq Upto(l) /\ l \in Upto(l) /\ l \notin Upto(k)
      <4>1. \A m \in Staying : m <= k => m <= l
        BY <2>1, <3>0
      <4>2. l <= l /\ ~(l <= k)
        BY <2>1, <3>0
      <4> QED
        BY <4>1, <4>2, Zenon
    <3>2. IsFiniteSet(Upto(l))
      BY <1>1, FS_Subset
    <3> QED
      BY <3>1, <3>2, FS_Subset DEF Place
  <2> QED
    BY <1>1, <2>1
<1>4. \A n \in 1 .. N : \E k \in Staying : Place(k) = n
  <2> DEFINE f == [k \in Staying |-> Place(k)]
  <2>1. f \in Injection(Staying, 1 .. N)
    BY <1>2, <1>3 DEF Injection, IsInjective
  <2>2. IsFiniteSet(1 .. N) /\ Cardinality(1 .. N) = N
    BY <1>1, FS_Interval
  <2>3. f \in Surjection(Staying, 1 .. N)
    BY <2>1, <2>2, FS_Injection
  <2> QED
    BY <2>3 DEF Surjection
<1> DEFINE Held(n) == CHOOSE k \in Staying : Place(k) = n
<1>5. \A n \in 1 .. N : Held(n) \in Staying /\ Place(Held(n)) = n
  BY <1>4
<1>6. \A k \in Staying : queue[k] \in Entries
  BY <1>1, ExaminedBounds
<1>7. Moved = [n \in 1 .. N |-> queue[Held(n)]]
  BY DEF Moved
<1> HIDE DEF N, Held
<1>8. Moved \in Seq(Entries) /\ Len(Moved) = N
  <2>1. Moved \in [1 .. N -> Entries]
    BY <1>5, <1>6, <1>7
  <2>2. Moved \in Seq(Entries)
    BY <1>1, <2>1, SeqDef
  <2> QED
    BY <1>1, <2>1, <2>2, LenProperties
<1>9. \A k \in Staying : Place(k) \in 1 .. N /\ Moved[Place(k)] = queue[k]
  BY <1>2, <1>3, <1>5, <1>7
<1> QED
  BY <1>8, <1>9

(* After a purge the queue still has an entry for every record it left,    *)
(* and what it purged had lapsed.                                          *)
LEMMA PurgeCovers ==
  ASSUME TypeOK, QueueCoversRecords
  PROVE  /\ Purged \subseteq DOMAIN records
         /\ \A s \in Purged : now > records[s].expires
         /\ QueueAfterPurge \in Seq(Entries)
         /\ \A s \in DOMAIN records \ Purged : \E i \in 1 .. Len(QueueAfterPurge) :
              QueueAfterPurge[i] = [suffix |-> s, expires |-> records[s].expires]
<1> DEFINE Rest == SubSeq(queue, Examined + 1, Len(queue))
<1>1. /\ Len(queue) \in Nat /\ Examined \in 0 .. Len(queue)
      /\ \A i \in 1 .. Len(queue) : queue[i] \in Entries
  BY ExaminedBounds
<1>2. Purged \subseteq DOMAIN records /\ \A s \in Purged : now > records[s].expires
  BY DEF Purged, Matches
<1>3. /\ Rest \in Seq(Entries) /\ Len(Rest) = Len(queue) - Examined
      /\ \A i \in 1 .. Len(queue) - Examined : Rest[i] = queue[Examined + i]
  <2>1. Examined + 1 \in Int /\ Len(queue) \in Int /\ \A i \in Examined + 1 .. Len(queue) : queue[i] \in Entries
    BY <1>1
  <2>2. /\ Rest \in Seq(Entries)
        /\ Len(Rest) = IF Examined + 1 <= Len(queue) THEN Len(queue) - (Examined + 1) + 1 ELSE 0
        /\ \A i \in 1 .. Len(queue) - (Examined + 1) + 1 : Rest[i] = queue[(Examined + 1) + i - 1]
    BY <2>1, SubSeqProperties
  <2> QED
    BY <1>1, <2>2
<1>4. Moved \in Seq(Entries) /\ \A k \in Staying : \E n \in 1 .. Len(Moved) : Moved[n] = queue[k]
  BY MovedEntries
<1> HIDE DEF Rest
<1>5. /\ QueueAfterPurge \in Seq(Entries) /\ Len(QueueAfterPurge) = Len(Rest) + Len(Moved)
      /\ \A i \in 1 .. Len(Rest) + Len(Moved) :
           QueueAfterPurge[i] = IF i <= Len(Rest) THEN Rest[i] ELSE Moved[i - Len(Rest)]
  BY <1>3, <1>4, ConcatProperties DEF QueueAfterPurge, Rest
<1>6. ASSUME NEW s \in DOMAIN records \ Purged
      PROVE  \E i \in 1 .. Len(QueueAfterPurge) :
               QueueAfterPurge[i] = [suffix |-> s, expires |-> records[s].expires]
  <2> DEFINE e == [suffix |-> s, expires |-> records[s].expires]
  <2>1. PICK k \in 1 .. Len(queue) : queue[k] = e
    BY DEF QueueCoversRecords
  <2>2. Len(Rest) \in Nat /\ Len(Moved) \in Nat
    BY <1>1, <1>3, <1>4
  <2>3. CASE k > Examined
    <3>1. k - Examined \in 1 .. Len(Rest) /\ Rest[k - Examined] = e
      BY <1>1, <1>3, <2>1, <2>3
    <3> QED
      BY <1>5, <2>2, <3>1
  <2>4. CASE k <= Examined
    <3>1. Matches(queue[k]) /\ queue[k].suffix = s /\ queue[k].expires = records[s].expires /\ k \in 1 .. Examined
      BY <1>1, <2>1, <2>4 DEF Matches
    <3>2. ~(now > queue[k].expires)
      BY <3>1 DEF Purged
    <3>3. now \in Nat /\ records[s].expires \in Nat
      BY DEF TypeOK, Record
    <3>4. k \in Staying
      BY <3>1, <3>2, <3>3 DEF Staying, IsLive
    <3>5. PICK n \in 1 .. Len(Moved) : Moved[n] = e
      BY <1>4, <2>1, <3>4
    <3>6. Len(Rest) + n \in 1 .. Len(Rest) + Len(Moved) /\ ~(Len(Rest) + n <= Len(Rest))
          /\ Len(Rest) + n - Len(Rest) = n
      BY <2>2
    <3> QED
      BY <1>5, <3>5, <3>6
  <2> QED
    BY <1>1, <2>3, <2>4
<1> QED
  BY <1>2, <1>5, <1>6

-----------------------------------------------------------------------------
LEMMA ChallengeInit == Init => ChallengeInv
<1> SUFFICES ASSUME Init PROVE ChallengeInv
  OBVIOUS
<1>1. DOMAIN records = {} /\ issued = {} /\ \A s \in Suffix : accepts[s] = 0
  BY DEF Init, EmptyTable
<1>2. TypeOK
  <2>1. queue \in Seq([suffix : Suffix, expires : Nat])
    BY EmptySeq DEF Init, EmptyTable
  <2>2. globalBucket \in Bucket
    BY ChallengeAssumption DEF Init, EmptyTable, NewBucket, Bucket, Rate
  <2>3. /\ now \in Nat /\ latest \in Nat /\ stepped \in BOOLEAN /\ instance \in Nat
        /\ presented = {}
    BY DEF Init
  <2>4. outstanding \in [Jkts -> Nat] /\ accepts \in [Suffix -> Nat]
    BY DEF Init, EmptyTable
  <2>5. DOMAIN jktBuckets = {} /\ DOMAIN sourceBuckets = {}
    BY DEF Init, EmptyTable
  <2> QED
    BY <1>1, <2>1, <2>2, <2>3, <2>4, <2>5 DEF TypeOK
<1>3. IssuedOK
  BY <1>1, FS_EmptySet, ChallengeAssumption DEF IssuedOK
<1>4. RecordsOK /\ ClockOK /\ QueueCoversRecords /\ SingleUse /\ HolderNotRobbed
  BY <1>1 DEF RecordsOK, ClockOK, QueueCoversRecords, SingleUse, HolderNotRobbed, Init
<1>5. \A j \in Jkts : Outstanding(records)[j] = 0
  BY <1>1, FS_EmptySet DEF Outstanding
<1>6. CountsExact
  BY <1>5 DEF CountsExact, Init, EmptyTable, Outstanding
<1>7. WithinCapacity
  BY <1>1, <1>5, FS_EmptySet, ChallengeAssumption DEF WithinCapacity
<1> QED
  BY <1>2, <1>3, <1>4, <1>6, <1>7 DEF ChallengeInv

(* Records go: the counts follow and the limits hold. *)
LEMMA RemovalTable ==
  ASSUME ChallengeInv, NEW gone, gone \subseteq DOMAIN records,
         records' = Without(gone), outstanding' = CountWithout(gone)
  PROVE  /\ CountsExact' /\ WithinCapacity' /\ outstanding' \in [Jkts -> Nat]
         /\ DOMAIN records' = DOMAIN records \ gone
         /\ \A s \in DOMAIN records' : records'[s] = records[s]
<1>1. /\ CountWithout(gone) = Outstanding(Without(gone)) /\ CountWithout(gone) \in [Jkts -> Nat]
      /\ \A j \in Jkts : Outstanding(Without(gone))[j] <= Outstanding(records)[j]
  BY CountsWithout DEF ChallengeInv
<1>2. DOMAIN records' = DOMAIN records \ gone /\ \A s \in DOMAIN records' : records'[s] = records[s]
  BY DEF Without
<1>3. /\ IsFiniteSet(DOMAIN records) /\ Cardinality(DOMAIN records) \in Nat
      /\ Cardinality(DOMAIN records') \in Nat
      /\ Cardinality(DOMAIN records') <= Cardinality(DOMAIN records)
  <2>1. IsFiniteSet(DOMAIN records)
    BY RecordsFinite DEF ChallengeInv
  <2>2. DOMAIN records' \subseteq DOMAIN records
    BY <1>2
  <2> QED
    BY <2>1, <2>2, FS_Subset, FS_CardinalityType
<1>4. CountsExact'
  BY <1>1 DEF CountsExact
<1>5. WithinCapacity'
  <2>1. \A j \in Jkts : /\ Outstanding(records')[j] \in Nat /\ outstanding[j] \in Nat
                        /\ outstanding[j] = Outstanding(records)[j]
                        /\ Outstanding(records')[j] <= outstanding[j]
                        /\ outstanding[j] <= PerJktCapacity
    BY <1>1 DEF ChallengeInv, TypeOK, CountsExact, WithinCapacity
  <2>2. \A j \in Jkts : Outstanding(records')[j] <= PerJktCapacity
    BY <2>1, ChallengeAssumption
  <2>3. Cardinality(DOMAIN records') <= GlobalCapacity
    BY <1>3, ChallengeAssumption DEF ChallengeInv, WithinCapacity
  <2> QED
    BY <2>2, <2>3 DEF WithinCapacity
<1> QED
  BY <1>1, <1>2, <1>4, <1>5

(* The holder's challenge is a record that has not lapsed. *)
LEMMA HeldRecord ==
  ASSUME ChallengeInv, NEW ch \in issued, ch.inst = instance, latest <= ch.expires, ch.suffix \notin presented
  PROVE  /\ ch.suffix \in DOMAIN records /\ records[ch.suffix] = RecordOf(ch)
         /\ ~(now > records[ch.suffix].expires)
<1>1. ch.suffix \in DOMAIN records /\ records[ch.suffix] = RecordOf(ch)
  BY DEF ChallengeInv, HolderNotRobbed, RecordOf
<1>2. now \in Nat /\ latest \in Nat /\ ch.expires \in Nat /\ now <= latest
  BY DEF ChallengeInv, TypeOK, Token, ClockOK
<1> QED
  BY <1>1, <1>2 DEF RecordOf

LEMMA DeclineInv ==
  ASSUME ChallengeInv, Decline PROVE ChallengeInv'
<1>1. /\ Purged \subseteq DOMAIN records /\ \A s \in Purged : now > records[s].expires
      /\ QueueAfterPurge \in Seq(Entries)
      /\ \A s \in DOMAIN records \ Purged : \E i \in 1 .. Len(QueueAfterPurge) :
           QueueAfterPurge[i] = [suffix |-> s, expires |-> records[s].expires]
  BY PurgeCovers DEF ChallengeInv
<1>2. /\ CountsExact' /\ WithinCapacity' /\ outstanding' \in [Jkts -> Nat]
      /\ DOMAIN records' = DOMAIN records \ Purged
      /\ \A s \in DOMAIN records' : records'[s] = records[s]
  BY <1>1, RemovalTable DEF Decline
<1>3. /\ queue' = QueueAfterPurge
      /\ UNCHANGED <<now, instance, globalBucket, jktBuckets, sourceBuckets, latest, stepped, issued,
                     presented, accepts>>
  BY DEF Decline, bucketVars, historyVars
<1>4. TypeOK'
  BY <1>1, <1>2, <1>3 DEF ChallengeInv, TypeOK, Entries
<1>5. IssuedOK' /\ ClockOK' /\ SingleUse'
  BY <1>3 DEF ChallengeInv, IssuedOK, ClockOK, SingleUse
<1>6. RecordsOK'
  BY <1>2, <1>3 DEF ChallengeInv, RecordsOK, RecordOf
<1>7. QueueCoversRecords'
  BY <1>1, <1>2, <1>3 DEF QueueCoversRecords
<1>8. HolderNotRobbed'
  <2> SUFFICES ASSUME NEW ch \in issued, ch.inst = instance, latest <= ch.expires, ch.suffix \notin presented
               PROVE  ch.suffix \in DOMAIN records' /\ records'[ch.suffix] = RecordOf(ch)
    BY <1>3 DEF HolderNotRobbed, RecordOf
  <2> QED
    BY <1>1, <1>2, HeldRecord
<1> QED
  BY <1>2, <1>4, <1>5, <1>6, <1>7, <1>8 DEF ChallengeInv

LEMMA ConsumeInv ==
  ASSUME ChallengeInv, NEW ch \in issued, NEW j \in Jkts, NEW g \in Gens, Consume(ch, j, g)
  PROVE  ChallengeInv'
<1> DEFINE s == ch.suffix
           v == Outcome(ch, j, g)
<1>0. ch \in Token /\ s \in Suffix /\ ch.inst \in Nat /\ s < Cardinality(issued)
  BY DEF ChallengeInv, TypeOK, Token, IssuedOK
<1>1. /\ UNCHANGED <<now, instance, globalBucket, jktBuckets, sourceBuckets, latest, stepped, issued, queue>>
      /\ presented' = IF j = ch.jkt THEN presented \cup {s} ELSE presented
      /\ accepts' = [accepts EXCEPT ![s] = IF v = "ok" THEN @ + 1 ELSE @]
  BY DEF Consume, bucketVars, tableVars, Remove
<1>2. accepts' \in [Suffix -> Nat] /\ presented' \subseteq Suffix /\ presented \subseteq presented'
  BY <1>0, <1>1 DEF ChallengeInv, TypeOK
<1>3. IssuedOK' /\ ClockOK'
  BY <1>1 DEF ChallengeInv, IssuedOK, ClockOK
<1>4. CASE v \in {"expired", "generation_mismatch", "ok"}
  <2>1. /\ ch.inst = instance /\ s \in DOMAIN records
        /\ now > records[s].expires \/ records[s].jkt = j
    BY <1>4 DEF Outcome
  <2>2. /\ CountsExact' /\ WithinCapacity' /\ outstanding' \in [Jkts -> Nat]
        /\ DOMAIN records' = DOMAIN records \ {s}
        /\ \A x \in DOMAIN records' : records'[x] = records[x]
    BY <1>4, <2>1, RemovalTable DEF Consume, Remove
  <2>3. accepts[s] = 0
    BY <1>0, <2>1 DEF ChallengeInv, RecordsOK, TypeOK
  <2>4. TypeOK'
    BY <1>1, <1>2, <2>2 DEF ChallengeInv, TypeOK
  <2>5. RecordsOK'
    <3>1. \A x \in Suffix : accepts'[x] > 0 => accepts[x] > 0 \/ x = s
      BY <1>0, <1>1 DEF ChallengeInv, TypeOK
    <3> QED
      BY <1>0, <1>1, <2>2, <3>1 DEF ChallengeInv, RecordsOK, RecordOf
  <2>6. QueueCoversRecords'
    BY <1>1, <2>2 DEF ChallengeInv, QueueCoversRecords
  <2>7. SingleUse'
    BY <1>0, <1>1, <2>3 DEF ChallengeInv, SingleUse, TypeOK
  <2>8. HolderNotRobbed'
    <3> SUFFICES ASSUME NEW t \in issued, t.inst = instance, latest <= t.expires, t.suffix \notin presented'
                 PROVE  t.suffix \in DOMAIN records' /\ records'[t.suffix] = RecordOf(t)
      BY <1>1 DEF HolderNotRobbed, RecordOf
    <3>1. /\ t.suffix \in DOMAIN records /\ records[t.suffix] = RecordOf(t)
          /\ ~(now > records[t.suffix].expires)
      BY <1>2, HeldRecord
    <3>2. t.suffix # s
      <4> SUFFICES ASSUME t.suffix = s PROVE FALSE
        OBVIOUS
      <4>1. t = ch
        BY DEF ChallengeInv, IssuedOK
      <4>2. ch.jkt = j
        BY <2>1, <3>1, <4>1 DEF RecordOf
      <4> QED
        BY <1>1, <4>1, <4>2
    <3> QED
      BY <2>2, <3>1, <3>2
  <2> QED
    BY <1>3, <2>2, <2>4, <2>5, <2>6, <2>7, <2>8 DEF ChallengeInv
<1>5. CASE v \notin {"expired", "generation_mismatch", "ok"}
  <2>1. records' = records /\ outstanding' = outstanding
    BY <1>5 DEF Consume, tableVars
  <2>2. accepts' = accepts
    BY <1>1, <1>5 DEF ChallengeInv, TypeOK
  <2>3. TypeOK'
    BY <1>1, <1>2, <2>1 DEF ChallengeInv, TypeOK
  <2>4. RecordsOK' /\ QueueCoversRecords' /\ SingleUse' /\ CountsExact' /\ WithinCapacity'
    BY <1>1, <2>1, <2>2 DEF ChallengeInv, RecordsOK, RecordOf, QueueCoversRecords, SingleUse, CountsExact,
                            WithinCapacity
  <2>5. HolderNotRobbed'
    BY <1>1, <1>2, <2>1 DEF ChallengeInv, HolderNotRobbed
  <2> QED
    BY <1>3, <2>3, <2>4, <2>5 DEF ChallengeInv
<1> QED
  BY <1>4, <1>5

LEMMA TickInv ==
  ASSUME ChallengeInv, Tick PROVE ChallengeInv'
<1> PICK t \in 0 .. MaxTime :
      /\ now' = t /\ latest' = (IF t > latest THEN t ELSE latest) /\ stepped' = (stepped \/ t < now)
      /\ UNCHANGED <<instance, tableVars, bucketVars, issued, presented, accepts>>
  BY DEF Tick
<1>1. now' \in Nat /\ latest' \in Nat /\ latest <= latest' /\ now' <= latest' /\ stepped' \in BOOLEAN
  BY ChallengeAssumption DEF ChallengeInv, TypeOK
<1>2. TypeOK' /\ ClockOK'
  BY <1>1 DEF ChallengeInv, TypeOK, ClockOK, tableVars, bucketVars
<1>3. /\ IssuedOK' /\ RecordsOK' /\ QueueCoversRecords' /\ SingleUse' /\ CountsExact' /\ WithinCapacity'
  BY DEF ChallengeInv, IssuedOK, RecordsOK, RecordOf, QueueCoversRecords, SingleUse, CountsExact,
         WithinCapacity, tableVars
<1>4. HolderNotRobbed'
  <2> SUFFICES ASSUME NEW ch \in issued, ch.inst = instance, latest' <= ch.expires, ch.suffix \notin presented
               PROVE  ch.suffix \in DOMAIN records /\ records[ch.suffix] = RecordOf(ch)
    BY DEF HolderNotRobbed, RecordOf, tableVars
  <2>1. ch.expires \in Nat /\ latest \in Nat
    BY DEF ChallengeInv, TypeOK, Token
  <2> QED
    BY <1>1, <2>1, HeldRecord
<1> QED
  BY <1>2, <1>3, <1>4 DEF ChallengeInv

LEMMA RestartInv ==
  ASSUME ChallengeInv, Restart PROVE ChallengeInv'
<1>1. /\ DOMAIN records' = {} /\ instance' = instance + 1
      /\ UNCHANGED <<now, latest, stepped, issued, presented, accepts>>
  BY DEF Restart, EmptyTable
<1>2. TypeOK'
  <2>1. queue' \in Seq([suffix : Suffix, expires : Nat])
    BY EmptySeq DEF Restart, EmptyTable
  <2>2. globalBucket' \in Bucket
    BY ChallengeAssumption DEF Restart, EmptyTable, NewBucket, Bucket, Rate
  <2>3. outstanding' \in [Jkts -> Nat]
    BY DEF Restart, EmptyTable
  <2>4. DOMAIN jktBuckets' = {} /\ DOMAIN sourceBuckets' = {}
    BY DEF Restart, EmptyTable
  <2> QED
    BY <1>1, <2>1, <2>2, <2>3, <2>4 DEF ChallengeInv, TypeOK
<1>3. \A ch \in issued : ch.inst \in Nat /\ ch.inst <= instance /\ ch.inst # instance'
  BY <1>1 DEF ChallengeInv, TypeOK, Token, IssuedOK
<1>4. IssuedOK'
  BY <1>1, <1>3 DEF ChallengeInv, TypeOK, IssuedOK
<1>5. RecordsOK' /\ ClockOK' /\ QueueCoversRecords' /\ SingleUse' /\ HolderNotRobbed'
  BY <1>1, <1>3 DEF ChallengeInv, RecordsOK, ClockOK, QueueCoversRecords, SingleUse, HolderNotRobbed
<1>6. \A j \in Jkts : Outstanding(records')[j] = 0
  BY <1>1, FS_EmptySet DEF Outstanding
<1>7. CountsExact'
  BY <1>6 DEF CountsExact, Restart, EmptyTable, Outstanding
<1>8. WithinCapacity'
  BY <1>1, <1>6, FS_EmptySet, ChallengeAssumption DEF WithinCapacity
<1> QED
  BY <1>2, <1>4, <1>5, <1>7, <1>8 DEF ChallengeInv

-----------------------------------------------------------------------------
(* Token buckets.                                                          *)

LEMMA Products ==
  ASSUME NEW a \in Nat, NEW b \in Nat, NEW r \in Nat
  PROVE  a * r \in Nat /\ (a + b) * r = a * r + b * r /\ a * r <= (a + b) * r
  OBVIOUS

LEMMA RefillFacts ==
  ASSUME NEW b \in Bucket, NEW rate \in Rate, NEW t \in Nat
  PROVE  /\ Refill(b, rate, t) \in Bucket /\ Refill(b, rate, t).last = t
         /\ CanTake(b, rate, t) =>
              /\ Take(b, rate, t) \in Bucket
              /\ Take(b, rate, t) = [tokens |-> Refill(b, rate, t).tokens - 1, last |-> t]
<1>1. b.tokens \in Nat /\ b.last \in Nat /\ rate.burst \in Nat /\ rate.refill \in Nat
  BY DEF Bucket, Rate
<1>2. t > b.last => t - b.last \in Nat /\ (t - b.last) * rate.refill \in Nat
  BY <1>1, Products
<1>3. Refill(b, rate, t) \in Bucket /\ Refill(b, rate, t).last = t
  BY <1>1, <1>2 DEF Refill, Least, Bucket
<1>4. CanTake(b, rate, t) => /\ Take(b, rate, t) \in Bucket
                             /\ Take(b, rate, t) = [tokens |-> Refill(b, rate, t).tokens - 1, last |-> t]
  BY <1>3 DEF CanTake, Take, Bucket
<1> QED
  BY <1>3, <1>4

(* What a debit of key p does to a map of buckets: p pays, from a full     *)
(* bucket if it had none, and only an idle bucket is given up.             *)
LEMMA DebitsEffect ==
  ASSUME NEW buckets, NEW p, NEW rate, NEW t, NEW after \in Debits(buckets, p, rate, t),
         NEW cur, cur = IF p \in DOMAIN buckets THEN buckets[p] ELSE NewBucket(rate, t)
  PROVE  /\ CanTake(cur, rate, t) /\ p \in DOMAIN after /\ after[p] = Take(cur, rate, t)
         /\ DOMAIN after \subseteq DOMAIN buckets \cup {p}
         /\ \A q \in DOMAIN after : q # p => after[q] = buckets[q]
         /\ \A q \in DOMAIN buckets \ DOMAIN after : IsIdle(buckets[q], rate, t)
<1>1. CASE p \in DOMAIN buckets
  <2>1. CanTake(cur, rate, t) /\ after = [buckets EXCEPT ![p] = Take(buckets[p], rate, t)]
    BY <1>1 DEF Debits
  <2> QED
    BY <1>1, <2>1
<1>2. CASE p \notin DOMAIN buckets
  <2>1. PICK keys \in SUBSET DOMAIN buckets :
          /\ CanTake(cur, rate, t)
          /\ after = [q \in keys \cup {p} |-> IF q = p THEN Take(cur, rate, t) ELSE buckets[q]]
          /\ \A q \in DOMAIN buckets \ keys : IsIdle(buckets[q], rate, t)
    <3>1. CanTake(cur, rate, t)
      BY <1>2 DEF Debits
    <3>2. CASE Cardinality(DOMAIN buckets) >= TrackedPartitions
      <4>1. PICK q \in DOMAIN buckets :
              /\ IsIdle(buckets[q], rate, t)
              /\ after = [x \in (DOMAIN buckets \ {q}) \cup {p} |->
                            IF x = p THEN Take(cur, rate, t) ELSE buckets[x]]
        BY <1>2, <3>1, <3>2 DEF Debits
      <4> QED
        BY <3>1, <4>1
    <3>3. CASE ~(Cardinality(DOMAIN buckets) >= TrackedPartitions)
      <4>1. after = [x \in DOMAIN buckets \cup {p} |-> IF x = p THEN Take(cur, rate, t) ELSE buckets[x]]
        BY <1>2, <3>1, <3>3 DEF Debits
      <4> QED
        BY <3>1, <4>1
    <3> QED
      BY <3>2, <3>3
  <2> QED
    BY <1>2, <2>1
<1> QED
  BY <1>1, <1>2

LEMMA DebitsType ==
  ASSUME NEW buckets, NEW K, DOMAIN buckets \subseteq K, \A q \in DOMAIN buckets : buckets[q] \in Bucket,
         NEW p \in K, NEW rate \in Rate, NEW t \in Nat, NEW after \in Debits(buckets, p, rate, t)
  PROVE  DOMAIN after \subseteq K /\ \A q \in DOMAIN after : after[q] \in Bucket
<1> DEFINE cur == IF p \in DOMAIN buckets THEN buckets[p] ELSE NewBucket(rate, t)
<1>1. cur \in Bucket
  BY DEF NewBucket, Bucket, Rate
<1> HIDE DEF cur
<1>2. /\ CanTake(cur, rate, t) /\ p \in DOMAIN after /\ after[p] = Take(cur, rate, t)
      /\ DOMAIN after \subseteq DOMAIN buckets \cup {p}
      /\ \A q \in DOMAIN after : q # p => after[q] = buckets[q]
  BY DebitsEffect DEF cur
<1> QED
  BY <1>1, <1>2, RefillFacts

LEMMA IssueInv ==
  ASSUME ChallengeInv, NEW j \in Jkts, NEW src \in Sources, NEW g \in Gens, Issue(j, src, g)
  PROVE  ChallengeInv'
<1> DEFINE s == Cardinality(issued)
           rec == [jkt |-> j, gen |-> g, expires |-> now + Ttl]
           tok == [inst |-> instance, suffix |-> s, jkt |-> j, gen |-> g, expires |-> now + Ttl]
           kept == Without(Purged)
           entry == [suffix |-> s, expires |-> now + Ttl]
<1>1. /\ Cardinality(issued) < MaxIssues /\ HasCapacity(j)
      /\ records' = [x \in DOMAIN kept \cup {s} |-> IF x = s THEN rec ELSE kept[x]]
      /\ queue' = Append(QueueAfterPurge, entry)
      /\ outstanding' = [CountWithout(Purged) EXCEPT ![j] = @ + 1]
      /\ issued' = issued \cup {tok}
      /\ UNCHANGED <<now, instance, latest, stepped, presented, accepts>>
  BY DEF Issue
<1>2. /\ Purged \subseteq DOMAIN records /\ \A x \in Purged : now > records[x].expires
      /\ QueueAfterPurge \in Seq(Entries)
      /\ \A x \in DOMAIN records \ Purged : \E i \in 1 .. Len(QueueAfterPurge) :
           QueueAfterPurge[i] = [suffix |-> x, expires |-> records[x].expires]
  BY PurgeCovers DEF ChallengeInv
<1>3. /\ now \in Nat /\ now + Ttl \in Nat /\ s \in Nat /\ s \in Suffix /\ instance \in Nat
      /\ IsFiniteSet(issued)
  <2>1. IsFiniteSet(issued) /\ s \in Nat
    BY FS_CardinalityType DEF ChallengeInv, IssuedOK
  <2> QED
    BY <1>1, <2>1, ChallengeAssumption DEF ChallengeInv, TypeOK, Suffix
<1>4. /\ CountWithout(Purged) = Outstanding(kept) /\ CountWithout(Purged) \in [Jkts -> Nat]
      /\ \A k \in Jkts : Outstanding(kept)[k] <= Outstanding(records)[k]
  BY <1>2, CountsWithout DEF ChallengeInv
<1>5. DOMAIN kept = DOMAIN records \ Purged /\ \A x \in DOMAIN kept : kept[x] = records[x]
  BY DEF Without
<1>6. s \notin DOMAIN kept /\ s \notin DOMAIN records /\ IsFiniteSet(DOMAIN kept)
  <2>1. \A x \in DOMAIN records : x < s
    BY DEF ChallengeInv, RecordsOK, IssuedOK
  <2>2. s \notin DOMAIN records
    BY <1>3, <2>1
  <2> QED
    BY <1>5, <2>2, RecordsFinite, FS_Subset DEF ChallengeInv
<1> HIDE DEF s, kept
<1>7. /\ Outstanding(records') = [Outstanding(kept) EXCEPT ![j] = @ + 1]
      /\ Cardinality(DOMAIN records') = Cardinality(DOMAIN kept) + 1
  <2>1. rec.jkt = j /\ records' = [x \in DOMAIN kept \cup {s} |-> IF x = s THEN rec ELSE kept[x]]
    BY <1>1
  <2> HIDE DEF rec
  <2> QED
    BY <1>6, <2>1, CountsWith
<1>8. /\ DOMAIN records' = DOMAIN kept \cup {s} /\ records'[s] = rec
      /\ \A x \in DOMAIN kept : records'[x] = records[x] /\ x # s
  BY <1>1, <1>5, <1>6
<1>9. CountsExact'
  BY <1>1, <1>4, <1>7 DEF CountsExact
<1>10. WithinCapacity'
  <2>1. Cardinality(DOMAIN kept) < GlobalCapacity /\ CountWithout(Purged)[j] < PerJktCapacity
    BY <1>1 DEF HasCapacity, kept
  <2>2. Cardinality(DOMAIN records') <= GlobalCapacity
    BY <1>6, <1>7, <2>1, FS_CardinalityType, ChallengeAssumption
  <2>3. \A k \in Jkts : /\ Outstanding(kept)[k] \in Nat /\ outstanding[k] \in Nat
                        /\ outstanding[k] = Outstanding(records)[k]
                        /\ Outstanding(records)[k] <= PerJktCapacity
    BY <1>4 DEF ChallengeInv, TypeOK, CountsExact, WithinCapacity
  <2>4. \A k \in Jkts : Outstanding(records')[k] <= PerJktCapacity
    <3> TAKE k \in Jkts
    <3>1. CASE k = j
      BY <1>4, <1>7, <2>1, <2>3, <3>1, ChallengeAssumption
    <3>2. CASE k # j
      BY <1>4, <1>7, <2>3, <3>2, ChallengeAssumption
    <3> QED
      BY <3>1, <3>2
  <2> QED
    BY <2>2, <2>4 DEF WithinCapacity
<1>11. entry \in Entries /\ rec \in Record /\ tok \in Token
  BY <1>3 DEF Entries, Record, Token
<1>12. /\ queue' \in Seq(Entries) /\ Len(QueueAfterPurge) \in Nat
       /\ Len(queue') = Len(QueueAfterPurge) + 1 /\ queue'[Len(QueueAfterPurge) + 1] = entry
       /\ \A i \in 1 .. Len(QueueAfterPurge) : queue'[i] = QueueAfterPurge[i]
  BY <1>1, <1>2, <1>11, AppendProperties, LenProperties
<1>13. TypeOK'
  <2>1. DOMAIN sourceBuckets' \subseteq Sources /\ \A p \in DOMAIN sourceBuckets' : sourceBuckets'[p] \in Bucket
    BY <1>3, DebitsType, ChallengeAssumption DEF Issue, ChallengeInv, TypeOK
  <2>2. DOMAIN jktBuckets' \subseteq Jkts /\ \A p \in DOMAIN jktBuckets' : jktBuckets'[p] \in Bucket
    BY <1>3, DebitsType, ChallengeAssumption DEF Issue, ChallengeInv, TypeOK
  <2>3. globalBucket' \in Bucket
    BY <1>3, RefillFacts, ChallengeAssumption DEF Issue, ChallengeInv, TypeOK
  <2>4. DOMAIN records' \subseteq Suffix /\ \A x \in DOMAIN records' : records'[x] \in Record
    BY <1>3, <1>5, <1>8, <1>11 DEF ChallengeInv, TypeOK
  <2>5. outstanding' \in [Jkts -> Nat]
    BY <1>1, <1>4
  <2>6. issued' \subseteq Token
    BY <1>1, <1>11 DEF ChallengeInv, TypeOK
  <2> QED
    BY <1>1, <1>12, <2>1, <2>2, <2>3, <2>4, <2>5, <2>6 DEF ChallengeInv, TypeOK, Entries
<1>14. tok \notin issued /\ Cardinality(issued') = s + 1
  <2>1. tok \notin issued
    <3>1. tok.suffix = s /\ \A ch \in issued : ch.suffix < s
      BY DEF ChallengeInv, IssuedOK, s
    <3> QED
      BY <1>3, <3>1
  <2> QED
    BY <1>1, <1>3, <2>1, FS_AddElement DEF s
<1>15. \A ch \in issued : ch.suffix \in Nat /\ ch.suffix < s /\ ch.inst <= instance
  BY DEF ChallengeInv, IssuedOK, TypeOK, Token, Suffix, s
<1>16. IssuedOK'
  <2>1. IsFiniteSet(issued') /\ Cardinality(issued') <= MaxIssues
    BY <1>1, <1>3, <1>14, FS_AddElement, ChallengeAssumption DEF s
  <2>2. \A ch \in issued' : ch.suffix < Cardinality(issued') /\ ch.inst <= instance'
    BY <1>1, <1>3, <1>14, <1>15
  <2>3. \A a, b \in issued' : a.suffix = b.suffix => a = b
    BY <1>1, <1>3, <1>15 DEF ChallengeInv, IssuedOK
  <2> QED
    BY <2>1, <2>2, <2>3 DEF IssuedOK
<1>17. RecordsOK'
  <2>1. ASSUME NEW x \in DOMAIN records'
        PROVE  \E ch \in issued' : ch.suffix = x /\ ch.inst = instance' /\ records'[x] = RecordOf(ch)
    <3>1. CASE x = s
      <4>1. tok \in issued' /\ tok.suffix = s /\ tok.inst = instance /\ RecordOf(tok) = rec
        BY <1>1 DEF RecordOf
      <4> HIDE DEF tok, rec
      <4> QED
        BY <1>1, <1>8, <3>1, <4>1
    <3>2. CASE x # s
      BY <1>1, <1>5, <1>8, <2>1, <3>2 DEF ChallengeInv, RecordsOK
    <3> QED
      BY <3>1, <3>2
  <2>2. \A x \in Suffix : accepts[x] > 0 => x # s /\ x \notin DOMAIN records /\ x < s
    BY <1>3 DEF ChallengeInv, RecordsOK, s
  <2>3. \A x \in Suffix : accepts'[x] > 0 => x \notin DOMAIN records' /\ x < Cardinality(issued')
    BY <1>1, <1>3, <1>5, <1>8, <1>14, <2>2 DEF Suffix
  <2> QED
    BY <2>1, <2>3 DEF RecordsOK
<1>18. QueueCoversRecords'
  <2> SUFFICES ASSUME NEW x \in DOMAIN records'
               PROVE  \E i \in 1 .. Len(queue') : queue'[i] = [suffix |-> x, expires |-> records'[x].expires]
    BY DEF QueueCoversRecords
  <2>1. CASE x = s
    BY <1>8, <1>12, <2>1
  <2>2. CASE x # s
    <3>1. PICK i \in 1 .. Len(QueueAfterPurge) :
            QueueAfterPurge[i] = [suffix |-> x, expires |-> records'[x].expires]
      BY <1>2, <1>5, <1>8, <2>2
    <3> QED
      BY <1>12, <3>1
  <2> QED
    BY <2>1, <2>2
<1>19. HolderNotRobbed'
  <2> SUFFICES ASSUME NEW ch \in issued', ch.inst = instance, latest <= ch.expires, ch.suffix \notin presented
               PROVE  ch.suffix \in DOMAIN records' /\ records'[ch.suffix] = RecordOf(ch)
    BY <1>1 DEF HolderNotRobbed, RecordOf
  <2>1. CASE ch = tok
    BY <1>8, <2>1 DEF RecordOf
  <2>2. CASE ch \in issued
    BY <1>2, <1>5, <1>8, <2>2, HeldRecord
  <2> QED
    BY <1>1, <2>1, <2>2
<1>20. ClockOK' /\ SingleUse'
  BY <1>1 DEF ChallengeInv, ClockOK, SingleUse
<1> QED
  BY <1>9, <1>10, <1>13, <1>16, <1>17, <1>18, <1>19, <1>20 DEF ChallengeInv

LEMMA ChallengeNext ==
  ASSUME ChallengeInv, [Next]_vars PROVE ChallengeInv'
<1>1. ASSUME NEW j \in Jkts, NEW src \in Sources, NEW g \in Gens, Issue(j, src, g) PROVE ChallengeInv'
  BY <1>1, IssueInv
<1>2. ASSUME NEW ch \in issued, NEW j \in Jkts, NEW g \in Gens, Consume(ch, j, g) PROVE ChallengeInv'
  BY <1>2, ConsumeInv
<1>3. CASE Decline \/ Tick \/ Restart
  BY <1>3, DeclineInv, TickInv, RestartInv
<1>4. CASE UNCHANGED vars
  <2>1. (TypeOK /\ ClockOK /\ CountsExact /\ WithinCapacity)'
    BY <1>4 DEF vars, tableVars, bucketVars, historyVars, ChallengeInv, TypeOK, ClockOK, CountsExact,
                WithinCapacity
  <2>2. (IssuedOK /\ RecordsOK)'
    BY <1>4 DEF vars, tableVars, bucketVars, historyVars, ChallengeInv, IssuedOK, RecordsOK, RecordOf
  <2>3. (QueueCoversRecords /\ SingleUse /\ HolderNotRobbed)'
    BY <1>4 DEF vars, tableVars, bucketVars, historyVars, ChallengeInv, QueueCoversRecords, SingleUse,
                HolderNotRobbed
  <2> QED BY <2>1, <2>2, <2>3 DEF ChallengeInv
<1> QED
  BY <1>1, <1>2, <1>3, <1>4 DEF Next

(* After any sequence of issues, purges, consumptions, clock changes and   *)
(* restarts the per-key counts are those of the table, both limits hold,   *)
(* and every record has the queue entry that will purge it.                *)
THEOREM TableConsistentHolds == Spec => []TableConsistent
<1>1. Init => ChallengeInv
  BY ChallengeInit
<1>2. ChallengeInv /\ [Next]_vars => ChallengeInv'
  BY ChallengeNext
<1>3. ChallengeInv => TableConsistent
  BY DEF ChallengeInv, TableConsistent
<1> QED
  BY <1>1, <1>2, <1>3, PTL DEF Spec

(* A challenge is accepted at most once, and until it expires nobody but   *)
(* the holder of its key can use it up, whatever the clock does.           *)
THEOREM TakenByHolderOnceHolds == Spec => []TakenByHolderOnce
<1>1. Init => ChallengeInv
  BY ChallengeInit
<1>2. ChallengeInv /\ [Next]_vars => ChallengeInv'
  BY ChallengeNext
<1>3. ChallengeInv => TakenByHolderOnce
  BY DEF ChallengeInv, TakenByHolderOnce
<1> QED
  BY <1>1, <1>2, <1>3, PTL DEF Spec

-----------------------------------------------------------------------------
(* Refinement: every step of the bounded table is a step of the abstract   *)
(* store, with the suffixes accepted so far as what was used.              *)

(* A step that accepts nothing uses up nothing. *)
LEMMA UsedSame ==
  ASSUME accepts' = accepts PROVE {s \in Suffix : accepts'[s] > 0} = {s \in Suffix : accepts[s] > 0}
  OBVIOUS

LEMMA IssueRefines ==
  ASSUME ChallengeInv, NEW j \in Jkts, NEW src \in Sources, NEW g \in Gens, Issue(j, src, g)
  PROVE  Store!Hand(j, g)
<1>1. Purged \subseteq Store!Lapsed
  BY PurgeCovers DEF ChallengeInv, Store!Lapsed
<1>2. records' = [x \in (DOMAIN records \ Purged) \cup {Cardinality(issued)} |->
                    IF x = Cardinality(issued) THEN [jkt |-> j, gen |-> g, expires |-> now + Ttl] ELSE records[x]]
  BY DEF Issue, Without
<1>3. \E gone \in SUBSET Store!Lapsed :
        records' = [x \in (DOMAIN records \ gone) \cup {Cardinality(issued)} |->
                      IF x = Cardinality(issued) THEN [jkt |-> j, gen |-> g, expires |-> now + Ttl]
                                                 ELSE records[x]]
  BY <1>1, <1>2
<1>4. /\ Cardinality(issued) < MaxIssues
      /\ issued' = issued \cup {[inst |-> instance, suffix |-> Cardinality(issued), jkt |-> j, gen |-> g,
                                 expires |-> now + Ttl]}
      /\ UNCHANGED <<now, instance, accepts>>
  BY DEF Issue
<1>5. {s \in Suffix : accepts'[s] > 0} = {s \in Suffix : accepts[s] > 0}
  BY <1>4, UsedSame
<1>6. Store!Cardinality(issued) = Cardinality(issued)
  BY DEF Store!Cardinality, Cardinality
<1> QED
  BY <1>3, <1>4, <1>5, <1>6 DEF Store!Hand

LEMMA DeclineRefines ==
  ASSUME ChallengeInv, Decline PROVE Store!Purge
<1>1. Purged \subseteq Store!Lapsed
  BY PurgeCovers DEF ChallengeInv, Store!Lapsed
<1>2. records' = Store!Drop(records, Purged)
  BY DEF Decline, Without, Store!Drop
<1> QED
  BY <1>1, <1>2, UsedSame DEF Decline, Store!Purge, historyVars

LEMMA ConsumeRefines ==
  ASSUME ChallengeInv, NEW ch \in issued, NEW j \in Jkts, NEW g \in Gens, Consume(ch, j, g)
  PROVE  Store!Present(ch, j, g)
<1>1. Outcome(ch, j, g) = Store!Verdict(ch, j, g)
  BY DEF Outcome, Store!Verdict
<1>2. records' = IF Outcome(ch, j, g) \in {"ok", "expired", "generation_mismatch"}
                   THEN Store!Drop(records, {ch.suffix}) ELSE records
  BY DEF Consume, Remove, Without, Store!Drop, tableVars
<1>3. {s \in Suffix : accepts'[s] > 0} =
        IF Outcome(ch, j, g) = "ok" THEN {s \in Suffix : accepts[s] > 0} \cup {ch.suffix}
                                    ELSE {s \in Suffix : accepts[s] > 0}
  <2>1. accepts \in [Suffix -> Nat] /\ ch.suffix \in Suffix
    BY DEF ChallengeInv, TypeOK, Token
  <2>2. accepts' = [accepts EXCEPT ![ch.suffix] = IF Outcome(ch, j, g) = "ok" THEN @ + 1 ELSE @]
    BY DEF Consume
  <2>3. CASE Outcome(ch, j, g) = "ok"
    BY <2>1, <2>2, <2>3
  <2>4. CASE Outcome(ch, j, g) # "ok"
    BY <2>1, <2>2, <2>4
  <2> QED
    BY <2>3, <2>4
<1> QED
  BY <1>1, <1>2, <1>3 DEF Consume, Store!Present

LEMMA StepRefines ==
  ASSUME ChallengeInv, [Next]_vars PROVE [Store!StoreNext]_(Store!storeVars)
<1>1. ASSUME NEW j \in Jkts, NEW src \in Sources, NEW g \in Gens, Issue(j, src, g) PROVE Store!StoreNext
  BY <1>1, IssueRefines DEF Store!StoreNext
<1>2. ASSUME NEW ch \in issued, NEW j \in Jkts, NEW g \in Gens, Consume(ch, j, g) PROVE Store!StoreNext
  BY <1>2, ConsumeRefines DEF Store!StoreNext
<1>3. CASE Decline
  BY <1>3, DeclineRefines DEF Store!StoreNext
<1>4. CASE Tick
  <2>1. PICK t \in 0 .. MaxTime : now' = t /\ UNCHANGED <<instance, tableVars, issued, accepts>>
    BY <1>4 DEF Tick
  <2>2. Store!SetClock
    BY <2>1, UsedSame DEF Store!SetClock, tableVars
  <2> QED
    BY <2>2 DEF Store!StoreNext
<1>5. CASE Restart
  BY <1>5, UsedSame DEF Restart, EmptyTable, Store!Reborn, Store!StoreNext
<1>6. CASE UNCHANGED vars
  BY <1>6, UsedSame DEF vars, tableVars, historyVars, Store!storeVars
<1> QED
  BY <1>1, <1>2, <1>3, <1>4, <1>5, <1>6 DEF Next

LEMMA InitRefines ==
  ASSUME Init PROVE Store!StoreInit
  BY DEF Init, EmptyTable, Store!StoreInit

(* Whatever it purges, declines and meters, the bounded table is the       *)
(* abstract store of single-use challenges: a challenge is taken once and  *)
(* only as Verdict allows, and a lapsed record is the only kind that goes  *)
(* untaken (issue, consume).                                               *)
THEOREM ImplementsStoreHolds == Spec => ImplementsStore
<1>1. Init => ChallengeInv
  BY ChallengeInit
<1>2. ChallengeInv /\ [Next]_vars => ChallengeInv'
  BY ChallengeNext
<1>3. Init => Store!StoreInit
  BY InitRefines
<1>4. ChallengeInv /\ [Next]_vars => [Store!StoreNext]_(Store!storeVars)
  BY StepRefines
<1> QED
  BY <1>1, <1>2, <1>3, <1>4, PTL DEF Spec, ImplementsStore, Store!StoreSpec

-----------------------------------------------------------------------------
(* Rate limits.  While the clock only moves forward the bounded map holds  *)
(* the very buckets an unbounded one would, and a bucket it gave up is one *)
(* that would be full: to stay so as time passes, and to survive the next  *)
(* debit, it must be known to have been filled by the time it was dropped. *)

MeterOK(use, made, buckets, j, t) ==
  /\ use \in Bucket /\ made \in [count : Nat, first : Nat]
  /\ use.tokens <= JktRate.burst /\ use.last <= t
  /\ IF j \in DOMAIN buckets THEN buckets[j] = use
                             ELSE Refill(use, JktRate, t).tokens = JktRate.burst
  /\ made.count > 0 => /\ made.first <= use.last
                       /\ use.tokens + made.count <= JktRate.burst + (use.last - made.first) * JktRate.refill

RateInv ==
  ~stepped => /\ latest = now /\ DOMAIN jktUse = Jkts /\ DOMAIN jktIssues = Jkts
              /\ \A j \in Jkts : MeterOK(jktUse[j], jktIssues[j], jktBuckets, j, now)

(* A refill stays within the burst, adds no more than the time has earned, *)
(* and a bucket full at one time is full at every later one.               *)
LEMMA RefillBounds ==
  ASSUME NEW b \in Bucket, NEW rate \in Rate, NEW t \in Nat, b.last <= t, b.tokens <= rate.burst
  PROVE  /\ Refill(b, rate, t).tokens <= rate.burst
         /\ t - b.last \in Nat /\ (t - b.last) * rate.refill \in Nat
         /\ Refill(b, rate, t).tokens <= b.tokens + (t - b.last) * rate.refill
<1>1. b.tokens \in Nat /\ b.last \in Nat /\ rate.burst \in Nat /\ rate.refill \in Nat
  BY DEF Bucket, Rate
<1>2. t - b.last \in Nat /\ 0 \in Nat
  BY <1>1
<1>3. (t - b.last) * rate.refill \in Nat
  BY <1>1, <1>2, Products
<1> QED
  BY <1>1, <1>2, <1>3 DEF Refill, Least

LEMMA FullStaysFull ==
  ASSUME NEW b \in Bucket, NEW rate \in Rate, NEW t \in Nat, NEW u \in Nat, b.last <= t, t <= u,
         Refill(b, rate, t).tokens = rate.burst
  PROVE  Refill(b, rate, u).tokens = rate.burst
<1>1. b.tokens \in Nat /\ b.last \in Nat /\ rate.burst \in Nat /\ rate.refill \in Nat
  BY DEF Bucket, Rate
<1>2. t - b.last \in Nat /\ u - t \in Nat /\ (t - b.last) + (u - t) = u - b.last
  BY <1>1
<1>3. /\ (t - b.last) * rate.refill \in Nat /\ (u - b.last) * rate.refill \in Nat
      /\ (t - b.last) * rate.refill <= (u - b.last) * rate.refill
  BY <1>1, <1>2, Products
<1>4. CASE t = b.last
  <2>1. b.tokens = rate.burst
    BY <1>1, <1>4 DEF Refill
  <2> QED
    BY <1>1, <1>3, <2>1 DEF Refill, Least
<1>5. CASE t > b.last
  <2>1. b.tokens + (t - b.last) * rate.refill >= rate.burst
    BY <1>1, <1>3, <1>5 DEF Refill, Least
  <2>2. u > b.last /\ b.tokens + (u - b.last) * rate.refill >= rate.burst
    BY <1>1, <1>3, <1>5, <2>1
  <2> QED
    BY <1>1, <1>3, <2>2 DEF Refill, Least
<1> QED
  BY <1>1, <1>4, <1>5

(* A new bucket is full whenever it is looked at. *)
LEMMA NewIsFull ==
  ASSUME NEW rate \in Rate, NEW t \in Nat, NEW u \in Nat
  PROVE  NewBucket(rate, t) \in Bucket /\ Refill(NewBucket(rate, t), rate, u).tokens = rate.burst
<1>1. /\ rate.burst \in Nat /\ rate.refill \in Nat
      /\ NewBucket(rate, t).tokens = rate.burst /\ NewBucket(rate, t).last = t /\ NewBucket(rate, t) \in Bucket
  BY DEF Rate, Bucket, NewBucket
<1>2. u > t => u - t \in Nat /\ (u - t) * rate.refill \in Nat
  BY <1>1, Products
<1> QED
  BY <1>1, <1>2 DEF Refill, Least

LEMMA FreshMeters ==
  ASSUME NEW t \in Nat, NEW use, use = NewBucket(JktRate, 0), NEW j, NEW buckets, DOMAIN buckets = {}
  PROVE  MeterOK(use, NoIssue, buckets, j, t)
<1>1. JktRate \in Rate /\ JktRate.burst \in Nat
  BY ChallengeAssumption DEF Rate
<1>2. use \in Bucket /\ Refill(use, JktRate, t).tokens = JktRate.burst /\ use.tokens = JktRate.burst /\ use.last = 0
  BY <1>1, NewIsFull DEF NewBucket
<1>3. NoIssue \in [count : Nat, first : Nat] /\ ~(NoIssue.count > 0)
  BY DEF NoIssue
<1> QED
  BY <1>1, <1>2, <1>3 DEF MeterOK

LEMMA RateTick ==
  ASSUME ChallengeInv, RateInv, Tick PROVE RateInv'
<1>1. PICK t \in 0 .. MaxTime :
        /\ now' = t /\ latest' = (IF t > latest THEN t ELSE latest) /\ stepped' = (stepped \/ t < now)
        /\ jktBuckets' = jktBuckets /\ jktUse' = jktUse /\ jktIssues' = jktIssues
  BY DEF Tick, bucketVars
<1>2. now \in Nat /\ latest \in Nat /\ t \in Nat /\ JktRate \in Rate /\ stepped \in BOOLEAN
  BY ChallengeAssumption DEF ChallengeInv, TypeOK
<1>3. SUFFICES ASSUME ~stepped'
               PROVE  /\ latest' = now' /\ DOMAIN jktUse' = Jkts /\ DOMAIN jktIssues' = Jkts
                      /\ \A j \in Jkts : MeterOK(jktUse'[j], jktIssues'[j], jktBuckets', j, now')
  BY DEF RateInv
<1>4. ~stepped /\ ~(t < now)
  BY <1>1, <1>2, <1>3
<1>5. /\ now <= t /\ latest = now /\ DOMAIN jktUse = Jkts /\ DOMAIN jktIssues = Jkts
      /\ \A j \in Jkts : MeterOK(jktUse[j], jktIssues[j], jktBuckets, j, now)
  BY <1>2, <1>4 DEF RateInv
<1>6. ASSUME NEW j \in Jkts PROVE MeterOK(jktUse[j], jktIssues[j], jktBuckets, j, t)
  <2>1. jktUse[j] \in Bucket /\ jktUse[j].last \in Nat /\ jktUse[j].last <= now /\ jktUse[j].last <= t
    BY <1>2, <1>5 DEF MeterOK, Bucket
  <2>2. j \notin DOMAIN jktBuckets => Refill(jktUse[j], JktRate, t).tokens = JktRate.burst
    BY <1>2, <1>5, <2>1, FullStaysFull DEF MeterOK
  <2> QED
    BY <1>5, <2>1, <2>2 DEF MeterOK
<1> QED
  BY <1>1, <1>2, <1>5, <1>6

LEMMA RateRestart ==
  ASSUME ChallengeInv, RateInv, Restart PROVE RateInv'
<1>1. /\ now \in Nat /\ DOMAIN jktBuckets' = {} /\ jktUse' = [j \in Jkts |-> NewBucket(JktRate, 0)]
      /\ jktIssues' = [j \in Jkts |-> NoIssue] /\ UNCHANGED <<now, latest, stepped>>
  BY DEF Restart, EmptyTable, ChallengeInv, TypeOK
<1>2. ASSUME NEW j \in Jkts PROVE MeterOK(jktUse'[j], jktIssues'[j], jktBuckets', j, now')
  <2>1. jktUse'[j] = NewBucket(JktRate, 0) /\ jktIssues'[j] = NoIssue /\ now' \in Nat
    BY <1>1
  <2> QED
    BY <1>1, <2>1, FreshMeters
<1> QED
  BY <1>1, <1>2 DEF RateInv

(* The key that is debited.  Both maps take from a bucket with the same    *)
(* tokens, and the issue is paid for by the tokens the bucket gained.      *)
LEMMA MeterPays ==
  ASSUME NEW t \in Nat, NEW use, NEW made, NEW buckets, NEW j, MeterOK(use, made, buckets, j, t),
         NEW cur, cur = IF j \in DOMAIN buckets THEN buckets[j] ELSE NewBucket(JktRate, t),
         CanTake(cur, JktRate, t), NEW after, j \in DOMAIN after, after[j] = Take(cur, JktRate, t)
  PROVE  MeterOK(Take(use, JktRate, t),
                 [count |-> made.count + 1, first |-> IF made.count = 0 THEN t ELSE made.first],
                 after, j, t)
<1> DEFINE got == Refill(use, JktRate, t).tokens
           paid == Take(use, JktRate, t)
           next == [count |-> made.count + 1, first |-> IF made.count = 0 THEN t ELSE made.first]
<1>1. /\ JktRate \in Rate /\ JktRate.burst \in Nat /\ JktRate.refill \in Nat
      /\ use \in Bucket /\ use.tokens \in Nat /\ use.last \in Nat /\ made.count \in Nat /\ made.first \in Nat
      /\ use.tokens <= JktRate.burst /\ use.last <= t
  BY ChallengeAssumption DEF MeterOK, Bucket, Rate
<1>2. Refill(cur, JktRate, t) = Refill(use, JktRate, t)
  <2>1. CASE j \in DOMAIN buckets
    BY <2>1 DEF MeterOK
  <2>2. CASE j \notin DOMAIN buckets
    <3>1. Refill(cur, JktRate, t).tokens = JktRate.burst /\ Refill(use, JktRate, t).tokens = JktRate.burst
      BY <1>1, <2>2, NewIsFull DEF MeterOK
    <3> QED
      BY <3>1 DEF Refill
  <2> QED
    BY <2>1, <2>2
<1>3. CanTake(use, JktRate, t) /\ after[j] = paid
  BY <1>2 DEF CanTake, Take
<1>4. /\ paid \in Bucket /\ paid.tokens = got - 1 /\ paid.last = t /\ got \in Nat
      /\ got <= JktRate.burst /\ t - use.last \in Nat /\ (t - use.last) * JktRate.refill \in Nat
      /\ got <= use.tokens + (t - use.last) * JktRate.refill
  <2>1. paid \in Bucket /\ paid = [tokens |-> got - 1, last |-> t] /\ Refill(use, JktRate, t) \in Bucket
    BY <1>1, <1>3, RefillFacts
  <2>2. got \in Nat
    BY <2>1 DEF Bucket
  <2>3. /\ got <= JktRate.burst /\ t - use.last \in Nat /\ (t - use.last) * JktRate.refill \in Nat
        /\ got <= use.tokens + (t - use.last) * JktRate.refill
    BY <1>1, RefillBounds
  <2> HIDE DEF got, paid
  <2> QED
    BY <2>1, <2>2, <2>3
<1>5. next \in [count : Nat, first : Nat] /\ next.count = made.count + 1
      /\ next.first = IF made.count = 0 THEN t ELSE made.first
  BY <1>1
<1> HIDE DEF got, paid, next
<1>6. next.first <= paid.last /\ paid.tokens + next.count <= JktRate.burst + (paid.last - next.first) * JktRate.refill
  <2>1. CASE made.count = 0
    BY <1>1, <1>4, <1>5, <2>1
  <2>2. CASE made.count > 0
    <3>1. /\ made.first <= use.last
          /\ use.tokens + made.count <= JktRate.burst + (use.last - made.first) * JktRate.refill
      BY <2>2 DEF MeterOK
    <3>2. /\ use.last - made.first \in Nat
          /\ (use.last - made.first) + (t - use.last) = t - made.first
      BY <1>1, <1>4, <3>1
    <3>3. /\ (use.last - made.first) * JktRate.refill \in Nat /\ (t - made.first) * JktRate.refill \in Nat
          /\ (t - made.first) * JktRate.refill =
               (use.last - made.first) * JktRate.refill + (t - use.last) * JktRate.refill
      <4>1. t - made.first \in Nat
        BY <1>4, <3>2
      <4> QED
        BY <1>1, <1>4, <3>2, <4>1, Products
    <3>4. next.first = made.first /\ made.first <= t
      BY <1>1, <1>5, <2>2, <3>1
    <3> QED
      BY <1>1, <1>4, <1>5, <3>1, <3>3, <3>4
  <2> QED
    BY <1>1, <2>1, <2>2
<1> QED
  BY <1>1, <1>3, <1>4, <1>5, <1>6 DEF MeterOK, paid, next

(* A key that is not debited keeps its bucket, or loses one that is full.  *)
LEMMA MeterKept ==
  ASSUME NEW t \in Nat, NEW use, NEW made, NEW buckets, NEW k, MeterOK(use, made, buckets, k, t),
         NEW after, k \in DOMAIN after => k \in DOMAIN buckets /\ after[k] = buckets[k],
         k \in DOMAIN buckets /\ k \notin DOMAIN after => IsIdle(buckets[k], JktRate, t)
  PROVE  MeterOK(use, made, after, k, t)
<1>1. JktRate \in Rate /\ JktRate.burst \in Nat
  BY ChallengeAssumption DEF Rate
<1>2. CASE k \in DOMAIN after \/ k \notin DOMAIN buckets
  BY <1>2 DEF MeterOK
<1>3. CASE k \in DOMAIN buckets /\ k \notin DOMAIN after
  <2>1. use = buckets[k] /\ use \in Bucket /\ use.last <= t /\ use.tokens <= JktRate.burst
    BY <1>3 DEF MeterOK
  <2>2. Refill(use, JktRate, t).tokens >= JktRate.burst /\ Refill(use, JktRate, t).tokens <= JktRate.burst
    BY <1>1, <1>3, <2>1, RefillBounds DEF IsIdle
  <2>3. Refill(use, JktRate, t).tokens \in Nat
    BY <1>1, <2>1, RefillFacts DEF Bucket
  <2> QED
    BY <1>1, <1>3, <2>1, <2>2, <2>3 DEF MeterOK
<1> QED
  BY <1>2, <1>3

LEMMA RateIssue ==
  ASSUME ChallengeInv, RateInv, NEW j \in Jkts, NEW src \in Sources, NEW g \in Gens, Issue(j, src, g)
  PROVE  RateInv'
<1> DEFINE cur == IF j \in DOMAIN jktBuckets THEN jktBuckets[j] ELSE NewBucket(JktRate, now)
           paid == Take(jktUse[j], JktRate, now)
           next == [count |-> jktIssues[j].count + 1,
                    first |-> IF jktIssues[j].count = 0 THEN now ELSE jktIssues[j].first]
<1>1. /\ jktBuckets' \in Debits(jktBuckets, j, JktRate, now)
      /\ jktUse' = [jktUse EXCEPT ![j] = paid] /\ jktIssues' = [jktIssues EXCEPT ![j] = next]
      /\ UNCHANGED <<now, latest, stepped>>
  BY DEF Issue
<1>2. now \in Nat
  BY DEF ChallengeInv, TypeOK
<1>3. /\ CanTake(cur, JktRate, now) /\ j \in DOMAIN jktBuckets' /\ jktBuckets'[j] = Take(cur, JktRate, now)
      /\ DOMAIN jktBuckets' \subseteq DOMAIN jktBuckets \cup {j}
      /\ \A q \in DOMAIN jktBuckets' : q # j => jktBuckets'[q] = jktBuckets[q]
      /\ \A q \in DOMAIN jktBuckets \ DOMAIN jktBuckets' : IsIdle(jktBuckets[q], JktRate, now)
  BY <1>1, DebitsEffect
<1>4. SUFFICES ASSUME ~stepped
               PROVE  /\ DOMAIN jktUse' = Jkts /\ DOMAIN jktIssues' = Jkts
                      /\ \A k \in Jkts : MeterOK(jktUse'[k], jktIssues'[k], jktBuckets', k, now)
  BY <1>1 DEF RateInv
<1>5. /\ DOMAIN jktUse = Jkts /\ DOMAIN jktIssues = Jkts
      /\ \A k \in Jkts : MeterOK(jktUse[k], jktIssues[k], jktBuckets, k, now)
  BY <1>4 DEF RateInv
<1>6. MeterOK(paid, next, jktBuckets', j, now)
  BY <1>2, <1>3, <1>5, MeterPays
<1> HIDE DEF paid, next
<1>7. ASSUME NEW k \in Jkts, k # j PROVE MeterOK(jktUse[k], jktIssues[k], jktBuckets', k, now)
  BY <1>2, <1>3, <1>5, <1>7, MeterKept
<1>8. /\ DOMAIN jktUse' = Jkts /\ DOMAIN jktIssues' = Jkts /\ jktUse'[j] = paid /\ jktIssues'[j] = next
      /\ \A k \in Jkts : k # j => jktUse'[k] = jktUse[k] /\ jktIssues'[k] = jktIssues[k]
  BY <1>1, <1>5
<1> QED
  BY <1>6, <1>7, <1>8

LEMMA RateNext ==
  ASSUME ChallengeInv, RateInv, [Next]_vars PROVE RateInv'
<1>1. ASSUME NEW j \in Jkts, NEW src \in Sources, NEW g \in Gens, Issue(j, src, g) PROVE RateInv'
  BY <1>1, RateIssue
<1>2. CASE Tick \/ Restart
  BY <1>2, RateTick, RateRestart
<1>3. ASSUME UNCHANGED <<now, latest, stepped, jktBuckets, jktUse, jktIssues>> PROVE RateInv'
  BY <1>3 DEF RateInv
<1>4. ASSUME NEW ch \in issued, NEW j \in Jkts, NEW g \in Gens, Consume(ch, j, g) PROVE RateInv'
  BY <1>3, <1>4 DEF Consume, bucketVars
<1>5. CASE Decline \/ UNCHANGED vars
  BY <1>3, <1>5 DEF Decline, vars, bucketVars, historyVars
<1> QED
  BY <1>1, <1>2, <1>4, <1>5 DEF Next

LEMMA RateInvExact ==
  ASSUME ChallengeInv, RateInv PROVE RateExact
<1>1. SUFFICES ASSUME ~stepped PROVE EvictionLossless /\ NoDoubleMint
  BY DEF RateExact
<1>2. latest = now /\ now \in Nat /\ \A j \in Jkts : MeterOK(jktUse[j], jktIssues[j], jktBuckets, j, now)
  BY <1>1 DEF RateInv, ChallengeInv, TypeOK
<1>3. EvictionLossless
  BY <1>2 DEF EvictionLossless, Available, MeterOK
<1>4. ASSUME NEW j \in Jkts, jktIssues[j].count > 0
      PROVE  jktIssues[j].count <= JktRate.burst + JktRate.refill * (latest - jktIssues[j].first)
  <2> DEFINE use == jktUse[j]
             made == jktIssues[j]
             r == JktRate.refill
  <2>1. /\ JktRate.burst \in Nat /\ r \in Nat
        /\ use.tokens \in Nat /\ use.last \in Nat /\ made.count \in Nat /\ made.first \in Nat
        /\ use.last <= now /\ made.first <= use.last
        /\ use.tokens + made.count <= JktRate.burst + (use.last - made.first) * r
    BY <1>2, <1>4, ChallengeAssumption DEF MeterOK, Bucket, Rate
  <2> HIDE DEF use, made, r
  <2>2. /\ use.last - made.first \in Nat /\ now - use.last \in Nat
        /\ (use.last - made.first) + (now - use.last) = now - made.first
    BY <1>2, <2>1
  <2>3. /\ (use.last - made.first) * r \in Nat /\ (use.last - made.first) * r <= (now - made.first) * r
    BY <2>1, <2>2, Products
  <2>4. (now - made.first) * r = r * (now - made.first) /\ (now - made.first) * r \in Int
    BY <1>2, <2>1
  <2>5. made.count <= JktRate.burst + r * (now - made.first)
    BY <2>1, <2>3, <2>4
  <2> QED
    BY <1>2, <2>5 DEF made, r
<1> QED
  BY <1>3, <1>4 DEF NoDoubleMint

(* While the clock only moves forward, giving up idle buckets loses no     *)
(* rate-limit state, and no key is issued more than its burst and what the *)
(* elapsed time refills (plan_partition_token, refill).                    *)
THEOREM RateExactHolds == Spec => []RateExact
<1>1. Init => ChallengeInv /\ RateInv
  <2>1. ASSUME Init, NEW j \in Jkts PROVE MeterOK(jktUse[j], jktIssues[j], jktBuckets, j, now)
    <3>1. jktUse[j] = NewBucket(JktRate, 0) /\ jktIssues[j] = NoIssue /\ DOMAIN jktBuckets = {} /\ now = 0
      BY <2>1 DEF Init, EmptyTable
    <3> QED
      BY <3>1, FreshMeters
  <2> QED
    BY <2>1, ChallengeInit DEF RateInv, Init, EmptyTable
<1>2. ChallengeInv /\ RateInv /\ [Next]_vars => (ChallengeInv /\ RateInv)'
  BY ChallengeNext, RateNext
<1>3. ChallengeInv /\ RateInv => RateExact
  BY RateInvExact
<1> QED
  BY <1>1, <1>2, <1>3, PTL DEF Spec

-----------------------------------------------------------------------------
(***************************************************************************)
(* The backend manager.                                                    *)
(***************************************************************************)
(* The types of the stores, of the handlers' writes and of their state.      *)
TransitType == [mat : Seq(Nat), dec : Nat, avail : Nat, flags : SUBSET {"exportable"}]
PlainType == [what : {"seed", "value", "cert", "tlskey", "public"}, n : Nat]
RecordType == {CustodyRecord(k, n, w) : k \in Keys, n \in Nat, w \in Nat}
StoredType == PlainType \cup RecordType
WriteType == [p : Keys, v : [what : {"value", "cert", "tlskey"}, n : Nat]]
SpentType == [rotations : Nat, faults : Nat, sweeps : Nat, starts : Nat, meddles : Nat, reloads : Nat]
IdentityType == [state : {"none", "pending", "enrolled"}, pin : Nat]
NixAnswer == [c : Clients, n : Nat, new : BOOLEAN, pub : Nat, pin : Nat, sig : Nat]

(* A handler's record, whatever it is doing. *)
JobFields == {"op", "k", "at", "n", "ws", "post", "id", "solo", "half"}
JobShape(j) ==
  /\ DOMAIN j = JobFields
  /\ j.post \in TransitType /\ j.id \in IdentityType /\ j.solo \in BOOLEAN /\ j.half \in BOOLEAN
(* What a handler's state holds follows from its operation. *)
JobData(j) ==
  \/ j.op = "idle"
  \/ j.op = "rotate" /\ j.k \in Keys /\ j.n \in Nat /\ ~Entry[j.k].nix
  \/ j.op = "sweep" /\ (j.k \in Keys => j.n \in Nat)
  \/ j.op = "mint" /\ j.k \in Keys /\ j.n \in Nat /\ Plays("mint")
  \/ j.op = "seal" /\ j.k \in Keys /\ Entry[j.k].class \in {"asym", "sealing"}
     /\ Entry[j.k].storage \in Keys /\ \E n, w \in Nat : j.ws[1] = CustodyRecord(j.k, n, w)
  \/ j.op \in {"enroll", "nixsign"} /\ j.k \in Active /\ j.n \in Nat /\ Plays("nix") /\ NixRoute(j.k)
     /\ (j.id.state = "pending" => j.id.pin = 0) /\ j.id.state # "none"
  \/ j.op = "import" /\ j.ws \in Seq(Keys) /\ j.ws # << >> /\ Plays("import")
  \/ j.op = "nats" /\ j.k \in Keys /\ j.n \in Nat /\ Plays("nats")
  \/ j.op = "value" /\ j.ws \in Seq(WriteType)
  \/ j.op = "boot" /\ j.ws \in Seq(WriteType) /\ j.n \in Nat \ {0} /\ Plays("boot")
JobPlace(c) ==
  IF c = Boot THEN job[c].op \in {"idle", "boot"} ELSE job[c].op # "boot"

(* The stores, the handlers and the counters have their types. *)
StoresTyped ==
  /\ scene \in DOMAIN Scenes /\ order \in Orders
  /\ tk \in [Keys -> TransitType] /\ kv \in [Paths -> Seq(StoredType)]
  /\ serial \in Nat /\ spent \in SpentType
JobsTyped ==
  /\ DOMAIN job = Jobs
  /\ \A c \in Jobs : JobShape(job[c]) /\ JobData(job[c]) /\ JobPlace(c)
BrokerTyped ==
  /\ phase \in {"boot", "serving", "failed"} /\ (phase # "serving" => Plays("boot"))
  /\ lock \in Clients \cup {NoKey}
  /\ ident \in IdentityType /\ ident.state # "none" /\ (ident.state = "pending" => ident.pin = 0)
  /\ Plays("nix") => answers \subseteq NixAnswer
  /\ torn \subseteq Keys /\ grants \subseteq Active
CustodyTypeOK == StoresTyped /\ JobsTyped /\ BrokerTyped

-----------------------------------------------------------------------------
(* The grace window: floors stay behind the newest versions, a rotation    *)
(* has read a version that the key has reached, a record was wrapped by a  *)
(* storage key, and a token names a key.                                   *)
FloorKept(k) ==
  tk[k].avail <= tk[k].dec /\ (tk[k].dec <= 1 \/ tk[k].dec <= Latest(k) - Grace)
FloorsKept == \A k \in Keys : FloorKept(k)
RotationsBehind == \A c \in Jobs : job[c].op = "rotate" => job[c].n <= Latest(job[c].k)
SealedRecords ==
  \A k \in Keys : HasKv(k) /\ Last(kv[k]).what = "record" =>
    Entry[k].storage \in Keys /\ \E n, w \in Nat : Last(kv[k]) = CustodyRecord(k, n, w)
TokensOfKeys == Plays("mint") => \A t \in answers : t.k \in Keys

(* What can be read as a value is neither a seed nor a record. *)
ReadableValues ==
  \A k \in Keys : Entry[k].class \in {"value", "public"} /\ HasKv(k) =>
    Last(kv[k]).what \notin {"seed", "record"}

(* An import brings in what is left of a set that was granted as a whole. *)
Granted(set, g) == \A i \in DOMAIN set : set[i] \in g
GrantedSet(a) == Granted(a.set, a.grants)
ImportsGranted ==
  Plays("import") =>
    \A c \in Jobs : job[c].op = "import" =>
      \E a \in answers : /\ GrantedSet(a)
                         /\ \A i \in DOMAIN job[c].ws : \E m \in DOMAIN a.set : a.set[m] = job[c].ws[i]

(* Writers of generated values: one write, or a private key and then its   *)
(* certificate; a writer that is marked sole is the only one.              *)
WritesOk(s) ==
  /\ Len(s) \in {1, 2}
  /\ Len(s) = 1 => Entry[s[1].p].gen \in {"cert", "random"}
  /\ Len(s) = 2 => /\ Entry[s[1].p].gen = "pair" /\ Entry[s[2].p].gen = "cert"
                   /\ Entry[s[1].p].pairOf = s[2].p /\ s[1].v.n = s[2].v.n
SoleWriter(c) == job[c].solo => Writers = {c}
WritersOk ==
  \A c \in Writers : /\ WritesOk(job[c].ws) /\ SoleWriter(c)
                     /\ job[c].half => Len(job[c].ws) = 1
(* What a writer that overlaps no other leaves of the pair k. *)
PairAtWork(k, c) ==
  /\ ~job[c].half => Paired(k)
  /\ Len(job[c].ws) = 1 => HasKv(k) /\ job[c].ws[1].v.n = Number(k)
PairsAtWork ==
  \A k \in Keys : SolePair(k) =>
    \A c \in Writers : LastPath(c) = Entry[k].pairOf /\ job[c].solo => PairAtWork(k, c)
PairsRest == \A k \in Keys : SolePair(k) /\ ~Busy(Entry[k].pairOf) => Paired(k)

(* A signature was made by the pinned key, and describes it. *)
Pinned(a) == (a.sig # 0 => a.sig = a.pin) /\ (a.pin # 0 => a.pub = a.pin)
AnswersPinned == Plays("nix") => \A a \in answers : Pinned(a)

(* A token as the minter makes it: roles that fit, and times in seconds.   *)
(* One that waits for its signature names the version that was read, and   *)
(* one that was signed by another version was signed after a rotation.     *)
TokenOk(t) ==
  /\ t = [iss |-> t.iss, sub |-> t.sub, kind |-> t.kind, iat |-> t.iat, exp |-> t.exp, nbf |-> t.nbf,
          jti |-> t.jti, by |-> t.by]
  /\ t.iss.role \in {"A", "O", "N", "X"} /\ t.kind \in NatsJwtKind
  /\ ValidateNatsRoles(t.iss.role, t.kind, t.sub)
  /\ t.exp \in Int /\ t.nbf \in Int
ChainOk(a) ==
  /\ a = [jwt |-> a.jwt, at |-> a.at, turned |-> a.turned]
  /\ TokenOk(a.jwt) /\ a.at \in Nat
  /\ a.jwt.by # a.jwt.iss.pub => a.turned
ChainsOk == Plays("nats") => \A a \in answers : ChainOk(a)
NamesVersion(c) ==
  /\ TokenOk(job[c].ws[1]) /\ job[c].n \in 1..Latest(job[c].k)
  /\ job[c].ws[1].iss.pub = tk[job[c].k].mat[job[c].n]
TokensNamed == \A c \in Jobs : job[c].op = "nats" => NamesVersion(c)

(* The steps that may change the transit engine, the KV store, the answers, *)
(* the torn values, the lock and the phase.                                *)
TransitStep ==
  \/ BootProbe
  \/ \E k \in Keys : Meddle(k)
  \/ \E c \in Clients :
       \/ RotateFloor(c)
       \/ SweepFloor(c)
       \/ EnrollCreate(c)
       \/ ImportNext(c)
       \/ \E k \in Keys : RotatePost(c, k)

StoreStep ==
  \/ Put(Boot)
  \/ \E c \in Clients :
       \/ StoreRecord(c)
       \/ Put(c)
       \/ \E k \in Keys : SetValue(c, k)

AnswerStep ==
  \/ Clock
  \/ \E c \in Clients :
       \/ MintSign(c)
       \/ EnrollJudge(c)
       \/ SignAfter(c)
       \/ NatsFinish(c)
       \/ \E set \in {<<a, b>> : a, b \in Active} : ImportSet(c, set)

TornStep ==
  \/ Put(Boot)
  \/ Crash
  \/ \E c \in Clients :
       \/ Put(c)
       \/ Drop(c)
       \/ \E k \in Keys : SetValue(c, k)

LockStep ==
  \/ Crash
  \/ \E c \in Clients :
       \/ EnrollRead(c)
       \/ EnrollJudge(c)
       \/ Drop(c)

PhaseStep ==
  \/ BootProbe
  \/ BootEnds
  \/ Crash

(* Every handler's record but for its mark of overlap is as it was. *)
SameJob(d) ==
  /\ job'[d].op = job[d].op /\ job'[d].k = job[d].k /\ job'[d].at = job[d].at
  /\ job'[d].n = job[d].n /\ job'[d].ws = job[d].ws /\ job'[d].post = job[d].post
  /\ job'[d].id = job[d].id /\ job'[d].half = job[d].half

RotateMove(d) == (\E k \in Keys : RotatePost(d, k)) \/ RotateRead(d)
SweepMove(d) == SweepRead(d) \/ SweepFloor(d)
MintMove(d) == \E k \in Keys : MintRead(d, k)
SealMove(d) == \E k \in Keys : SealSeed(d, k)
EnrollMove(d) == (\E k \in Keys : NixStart(d, k, "enroll")) \/ EnrollRead(d) \/ EnrollCreate(d) \/ EnrollReread(d)
NixSignMove(d) == (\E k \in Keys : NixStart(d, k, "nixsign")) \/ SignBefore(d) \/ SignCall(d)
ImportMove(d) == (\E set \in {<<a, b>> : a, b \in Active} : ImportSet(d, set)) \/ ImportNext(d)
NatsMove(d) == \E k \in Keys : NatsMint(d, k) \/ NatsSign(d, k)
ValueMove(d) == (\E k \in Keys : RotateValue(d, k)) \/ Put(d)
BootMove(d) == d = Boot /\ (BootProbe \/ Put(d) \/ Crash)

(* The steps that leave handler d at an operation. *)
MovesTo(d) ==
  /\ job'[d].op = "rotate" => SameJob(d) \/ RotateMove(d)
  /\ job'[d].op = "sweep" => SameJob(d) \/ SweepMove(d)
  /\ job'[d].op = "mint" => SameJob(d) \/ MintMove(d)
  /\ job'[d].op = "seal" => SameJob(d) \/ SealMove(d)
  /\ job'[d].op = "enroll" => SameJob(d) \/ EnrollMove(d)
  /\ job'[d].op = "nixsign" => SameJob(d) \/ NixSignMove(d)
  /\ job'[d].op = "import" => SameJob(d) \/ ImportMove(d)
  /\ job'[d].op = "nats" => SameJob(d) \/ NatsMove(d)
  /\ job'[d].op = "value" => SameJob(d) \/ ValueMove(d)
  /\ job'[d].op = "boot" => SameJob(d) \/ BootMove(d)
  /\ job'[d].op \in {"idle", "rotate", "sweep", "mint", "seal", "enroll", "nixsign", "import", "nats", "value", "boot"}
  /\ IF d = Boot THEN job'[d].op \in {"idle", "boot"} ELSE job'[d].op # "boot"

OpNames == {"idle", "rotate", "sweep", "mint", "seal", "enroll", "nixsign", "import", "nats", "value", "boot"}
Moves == DOMAIN job' = Jobs /\ \A d \in Jobs : JobShape(job'[d]) /\ MovesTo(d)
OnlyJob(c) == DOMAIN job' = Jobs /\ JobShape(job'[c]) /\ \A d \in Jobs \ {c} : job'[d] = job[d]

(* Handlers. A handler is idle, or its operation is one of the names, and  *)
(* the handlers of clients never run the reconcile pass.                   *)
LEMMA IdleShape == JobShape(IdleJob) /\ IdleJob.op = "idle" /\ IdleJob.ws = << >> /\ IdleJob.k = NoKey
  BY DEF JobShape, JobFields, IdleJob, NoTk, TransitType, IdentityType

LEMMA JobsKnown ==
  ASSUME JobsTyped, NEW c \in Jobs
  PROVE JobShape(job[c]) /\ job[c].op \in OpNames /\ DOMAIN job = Jobs
        /\ (IF c = Boot THEN job[c].op \in {"idle", "boot"} ELSE job[c].op # "boot")
  BY DEF JobsTyped, JobData, JobPlace, OpNames

LEMMA BootIsAJob == Boot \in Jobs /\ Boot \notin Clients /\ Clients \subseteq Jobs
  BY ScenesAssumption DEF Boot, Jobs

LEMMA SameMoves ==
  ASSUME JobsTyped, NEW d \in Jobs, SameJob(d)
  PROVE MovesTo(d)
  BY JobsKnown DEF MovesTo, SameJob, OpNames

(* A step that sets one handler moves that handler and no other. *)
LEMMA OneJobMoves ==
  ASSUME JobsTyped, NEW c \in Jobs, OnlyJob(c), MovesTo(c)
  PROVE Moves
<1>1. ASSUME NEW d \in Jobs, d # c PROVE JobShape(job'[d]) /\ MovesTo(d)
  <2>1. job'[d] = job[d]
    BY <1>1 DEF OnlyJob
  <2>2. SameJob(d)
    BY <2>1 DEF SameJob
  <2>. QED BY <2>1, <2>2, SameMoves, JobsKnown
<1>. QED BY <1>1 DEF Moves, OnlyJob

LEMMA SetOnly ==
  ASSUME JobsTyped, NEW c \in Jobs, NEW j, Set(c, j), JobShape(j)
  PROVE OnlyJob(c) /\ job'[c] = j
<1>1. DOMAIN job = Jobs
  BY JobsKnown
<1>. QED BY <1>1 DEF OnlyJob, Set

LEMMA SameJobMoves ==
  ASSUME JobsTyped, job' = job
  PROVE Moves
<1>1. ASSUME NEW d \in Jobs PROVE JobShape(job'[d]) /\ MovesTo(d)
  <2>2. SameJob(d)
    BY DEF SameJob
  <2>. QED BY <2>2, SameMoves, JobsKnown
<1>. QED BY <1>1, JobsKnown, BootIsAJob DEF Moves

(* An enrollment or a signature is for a Nix route of the scene. *)
LEMMA NixJobs ==
  ASSUME CustodyTypeOK, NEW c \in Jobs, job[c].op \in {"enroll", "nixsign"}
  PROVE job[c].k \in Active /\ job[c].k \in Keys /\ tk[job[c].k] \in TransitType
        /\ Plays("nix") /\ NixRoute(job[c].k) /\ job[c].n \in Nat
<1>1. job[c].k \in Active /\ Plays("nix") /\ NixRoute(job[c].k) /\ job[c].n \in Nat
  BY DEF CustodyTypeOK, JobsTyped, JobData
<1>2. Active \subseteq Keys
  BY ScenesAssumption DEF CustodyTypeOK, StoresTyped, Active
<1>. QED BY <1>1, <1>2 DEF CustodyTypeOK, StoresTyped

(* Case by case: each step leaves every handler as it was, but for the     *)
(* mark of overlap, or moves it to its operation by one of the steps of    *)
(* that operation.                                                         *)
LEMMA RotatePostMoves ==
  ASSUME CustodyTypeOK, NEW c \in Clients, NEW k \in Keys, RotatePost(c, k)
  PROVE Moves
<1>. DEFINE j == [IdleJob EXCEPT !.op = "rotate", !.k = k, !.at = "read"]
<1>0. JobsTyped /\ c \in Jobs /\ c # Boot
  BY BootIsAJob DEF CustodyTypeOK
<1>1. JobShape(j) /\ j.op \in {"rotate"}
  BY <1>0, IdleShape, JobsKnown DEF JobShape, JobFields
<1>2. Set(c, j)
  BY DEF RotatePost
<1>3. OnlyJob(c) /\ job'[c] = j
  BY <1>0, <1>1, <1>2, SetOnly
<1>4. MovesTo(c)
  BY <1>0, <1>1, <1>3 DEF MovesTo, RotateMove
<1>. QED BY <1>0, <1>3, <1>4, OneJobMoves

LEMMA MintReadMoves ==
  ASSUME CustodyTypeOK, NEW c \in Clients, NEW k \in Keys, MintRead(c, k)
  PROVE Moves
<1>. DEFINE j == [IdleJob EXCEPT !.op = "mint", !.k = k, !.at = "sign", !.n = Last(tk[k].mat)]
<1>0. JobsTyped /\ c \in Jobs /\ c # Boot
  BY BootIsAJob DEF CustodyTypeOK
<1>1. JobShape(j) /\ j.op \in {"mint"}
  BY <1>0, IdleShape, JobsKnown DEF JobShape, JobFields
<1>2. Set(c, j)
  BY DEF MintRead
<1>3. OnlyJob(c) /\ job'[c] = j
  BY <1>0, <1>1, <1>2, SetOnly
<1>4. MovesTo(c)
  BY <1>0, <1>1, <1>3 DEF MovesTo, MintMove
<1>. QED BY <1>0, <1>3, <1>4, OneJobMoves

(* set leaves every handler as it was but for the mark of overlap. *)
LEMMA OverlapEffect ==
  ASSUME JobsTyped, job' = Overlapped, NEW d \in Jobs
  PROVE DOMAIN job' = Jobs /\ JobShape(job'[d]) /\ SameJob(d) /\ (Writing(d) => ~job'[d].solo)
        /\ (~Writing(d) => job'[d] = job[d])
<1>1. JobShape(job[d])
  BY JobsKnown
<1>2. DOMAIN job' = Jobs /\ job'[d] = IF Writing(d) THEN [job[d] EXCEPT !.solo = FALSE] ELSE job[d]
  BY DEF Overlapped
<1>. QED BY <1>1, <1>2 DEF JobShape, JobFields, SameJob

LEMMA SetValueMoves ==
  ASSUME CustodyTypeOK, NEW c \in Clients, NEW k \in Keys, SetValue(c, k)
  PROVE Moves
<1>0. JobsTyped /\ job' = Overlapped /\ Boot \in Jobs
  BY BootIsAJob DEF CustodyTypeOK, SetValue
<1>1. ASSUME NEW d \in Jobs PROVE JobShape(job'[d]) /\ MovesTo(d)
  BY <1>0, OverlapEffect, SameMoves
<1>. QED BY <1>0, <1>1, OverlapEffect DEF Moves

(* A NATS token waits, with the key version that was read, to be signed. *)
LEMMA NatsReadEffect ==
  ASSUME CustodyTypeOK, NEW c \in Clients, NEW k \in Keys, NEW jwt, NatsRead(c, k, jwt)
  PROVE OnlyJob(c) /\ job'[c].op = "nats" /\ job'[c].k = k /\ job'[c].n = Latest(k)
        /\ job'[c].ws[1] = jwt
<1>. DEFINE j == [IdleJob EXCEPT !.op = "nats", !.k = k, !.at = "sign", !.n = Latest(k), !.ws = <<jwt>>]
<1>0. JobsTyped /\ c \in Jobs
  BY BootIsAJob DEF CustodyTypeOK
<1>1. JobShape(j) /\ j.op = "nats" /\ j.k = k /\ j.n = Latest(k) /\ j.ws = <<jwt>>
  BY IdleShape DEF JobShape, JobFields
<1>2. Set(c, j)
  BY DEF NatsRead
<1>3. OnlyJob(c) /\ job'[c] = j
  BY <1>0, <1>1, <1>2, SetOnly
<1>. QED BY <1>1, <1>3

LEMMA NatsMoves ==
  ASSUME CustodyTypeOK, NEW c \in Clients, NEW k \in Keys, NatsMint(c, k) \/ NatsSign(c, k)
  PROVE Moves
<1>0. JobsTyped /\ c \in Jobs /\ c # Boot
  BY BootIsAJob DEF CustodyTypeOK
<1>1. \E jwt : NatsRead(c, k, jwt)
  BY DEF NatsMint, NatsSign
<1>2. OnlyJob(c) /\ job'[c].op = "nats"
  BY <1>1, NatsReadEffect
<1>3. MovesTo(c)
  BY <1>0, <1>2 DEF MovesTo, NatsMove
<1>. QED BY <1>0, <1>2, <1>3, OneJobMoves

LEMMA SealSeedMoves ==
  ASSUME CustodyTypeOK, NEW c \in Clients, NEW k \in Keys, SealSeed(c, k)
  PROVE Moves
<1>. DEFINE j == [IdleJob EXCEPT !.op = "seal", !.k = k, !.at = "store", !.n = serial + 1,
               !.ws = <<CustodyRecord(k, serial + 1, Latest(Entry[k].storage))>>]
<1>0. JobsTyped /\ c \in Jobs /\ c # Boot
  BY BootIsAJob DEF CustodyTypeOK
<1>1. JobShape(j) /\ j.op \in {"seal"}
  BY <1>0, IdleShape, JobsKnown DEF JobShape, JobFields
<1>2. Set(c, j)
  BY DEF SealSeed
<1>3. OnlyJob(c) /\ job'[c] = j
  BY <1>0, <1>1, <1>2, SetOnly
<1>4. MovesTo(c)
  BY <1>0, <1>1, <1>3 DEF MovesTo, SealMove
<1>. QED BY <1>0, <1>3, <1>4, OneJobMoves

LEMMA NixStartMovesEnroll ==
  ASSUME CustodyTypeOK, NEW c \in Clients, NEW k \in Keys, NixStart(c, k, "enroll")
  PROVE Moves
<1>. DEFINE j == [IdleJob EXCEPT !.op = "enroll", !.k = k, !.at = "first", !.id = ident]
<1>0. JobsTyped /\ c \in Jobs /\ c # Boot
  BY BootIsAJob DEF CustodyTypeOK
<1>1. JobShape(j) /\ j.op \in {"enroll"}
  BY <1>0, IdleShape, JobsKnown DEF JobShape, JobFields, CustodyTypeOK, BrokerTyped
<1>2. Set(c, j)
  BY DEF NixStart
<1>3. OnlyJob(c) /\ job'[c] = j
  BY <1>0, <1>1, <1>2, SetOnly
<1>4. MovesTo(c)
  BY <1>0, <1>1, <1>3 DEF MovesTo, EnrollMove, NixSignMove
<1>. QED BY <1>0, <1>3, <1>4, OneJobMoves

LEMMA NixStartMovesSign ==
  ASSUME CustodyTypeOK, NEW c \in Clients, NEW k \in Keys, NixStart(c, k, "nixsign")
  PROVE Moves
<1>. DEFINE j == [IdleJob EXCEPT !.op = "nixsign", !.k = k, !.at = "first", !.id = ident]
<1>0. JobsTyped /\ c \in Jobs /\ c # Boot
  BY BootIsAJob DEF CustodyTypeOK
<1>1. JobShape(j) /\ j.op \in {"nixsign"}
  BY <1>0, IdleShape, JobsKnown DEF JobShape, JobFields, CustodyTypeOK, BrokerTyped
<1>2. Set(c, j)
  BY DEF NixStart
<1>3. OnlyJob(c) /\ job'[c] = j
  BY <1>0, <1>1, <1>2, SetOnly
<1>4. MovesTo(c)
  BY <1>0, <1>1, <1>3 DEF MovesTo, EnrollMove, NixSignMove
<1>. QED BY <1>0, <1>3, <1>4, OneJobMoves

LEMMA RotateReadMoves ==
  ASSUME CustodyTypeOK, NEW c \in Clients, RotateRead(c)
  PROVE Moves
<1>. DEFINE j == [job[c] EXCEPT !.at = "floor", !.n = Latest(job[c].k)]
<1>0. JobsTyped /\ c \in Jobs /\ c # Boot
  BY BootIsAJob DEF CustodyTypeOK
<1>1. JobShape(j) /\ j.op \in {"rotate"}
  BY <1>0, IdleShape, JobsKnown DEF JobShape, JobFields, RotateRead, At
<1>2. Set(c, j)
  BY DEF RotateRead
<1>3. OnlyJob(c) /\ job'[c] = j
  BY <1>0, <1>1, <1>2, SetOnly
<1>4. MovesTo(c)
  BY <1>0, <1>1, <1>3 DEF MovesTo, RotateMove
<1>. QED BY <1>0, <1>3, <1>4, OneJobMoves

LEMMA RotateFloorMoves ==
  ASSUME CustodyTypeOK, NEW c \in Clients, RotateFloor(c)
  PROVE Moves
<1>. DEFINE j == IdleJob
<1>0. JobsTyped /\ c \in Jobs /\ c # Boot
  BY BootIsAJob DEF CustodyTypeOK
<1>1. JobShape(j) /\ j.op \in {"idle"}
  BY <1>0, IdleShape, JobsKnown DEF JobShape, JobFields
<1>2. Set(c, j)
  BY DEF RotateFloor
<1>3. OnlyJob(c) /\ job'[c] = j
  BY <1>0, <1>1, <1>2, SetOnly
<1>4. MovesTo(c)
  BY <1>0, <1>1, <1>3 DEF MovesTo
<1>. QED BY <1>0, <1>3, <1>4, OneJobMoves

LEMMA MintSignMoves ==
  ASSUME CustodyTypeOK, NEW c \in Clients, MintSign(c)
  PROVE Moves
<1>. DEFINE j == IdleJob
<1>0. JobsTyped /\ c \in Jobs /\ c # Boot
  BY BootIsAJob DEF CustodyTypeOK
<1>1. JobShape(j) /\ j.op \in {"idle"}
  BY <1>0, IdleShape, JobsKnown DEF JobShape, JobFields
<1>2. Set(c, j)
  BY DEF MintSign
<1>3. OnlyJob(c) /\ job'[c] = j
  BY <1>0, <1>1, <1>2, SetOnly
<1>4. MovesTo(c)
  BY <1>0, <1>1, <1>3 DEF MovesTo
<1>. QED BY <1>0, <1>3, <1>4, OneJobMoves

LEMMA NatsFinishMoves ==
  ASSUME CustodyTypeOK, NEW c \in Clients, NatsFinish(c)
  PROVE Moves
<1>. DEFINE j == IdleJob
<1>0. JobsTyped /\ c \in Jobs /\ c # Boot
  BY BootIsAJob DEF CustodyTypeOK
<1>1. JobShape(j) /\ j.op \in {"idle"}
  BY <1>0, IdleShape, JobsKnown DEF JobShape, JobFields
<1>2. Set(c, j)
  BY DEF NatsFinish
<1>3. OnlyJob(c) /\ job'[c] = j
  BY <1>0, <1>1, <1>2, SetOnly
<1>4. MovesTo(c)
  BY <1>0, <1>1, <1>3 DEF MovesTo
<1>. QED BY <1>0, <1>3, <1>4, OneJobMoves

LEMMA StoreRecordMoves ==
  ASSUME CustodyTypeOK, NEW c \in Clients, StoreRecord(c)
  PROVE Moves
<1>. DEFINE j == IdleJob
<1>0. JobsTyped /\ c \in Jobs /\ c # Boot
  BY BootIsAJob DEF CustodyTypeOK
<1>1. JobShape(j) /\ j.op \in {"idle"}
  BY <1>0, IdleShape, JobsKnown DEF JobShape, JobFields
<1>2. Set(c, j)
  BY DEF StoreRecord
<1>3. OnlyJob(c) /\ job'[c] = j
  BY <1>0, <1>1, <1>2, SetOnly
<1>4. MovesTo(c)
  BY <1>0, <1>1, <1>3 DEF MovesTo
<1>. QED BY <1>0, <1>3, <1>4, OneJobMoves

LEMMA EnrollJudgeMoves ==
  ASSUME CustodyTypeOK, NEW c \in Clients, EnrollJudge(c)
  PROVE Moves
<1>. DEFINE j == IdleJob
<1>0. JobsTyped /\ c \in Jobs /\ c # Boot
  BY BootIsAJob DEF CustodyTypeOK
<1>1. JobShape(j) /\ j.op \in {"idle"}
  BY <1>0, IdleShape, JobsKnown DEF JobShape, JobFields
<1>2. Set(c, j)
  BY DEF EnrollJudge
<1>3. OnlyJob(c) /\ job'[c] = j
  BY <1>0, <1>1, <1>2, SetOnly
<1>4. MovesTo(c)
  BY <1>0, <1>1, <1>3 DEF MovesTo
<1>. QED BY <1>0, <1>3, <1>4, OneJobMoves

LEMMA SignAfterMoves ==
  ASSUME CustodyTypeOK, NEW c \in Clients, SignAfter(c)
  PROVE Moves
<1>. DEFINE j == IdleJob
<1>0. JobsTyped /\ c \in Jobs /\ c # Boot
  BY BootIsAJob DEF CustodyTypeOK
<1>1. JobShape(j) /\ j.op \in {"idle"}
  BY <1>0, IdleShape, JobsKnown DEF JobShape, JobFields
<1>2. Set(c, j)
  BY DEF SignAfter
<1>3. OnlyJob(c) /\ job'[c] = j
  BY <1>0, <1>1, <1>2, SetOnly
<1>4. MovesTo(c)
  BY <1>0, <1>1, <1>3 DEF MovesTo
<1>. QED BY <1>0, <1>3, <1>4, OneJobMoves

LEMMA DropMoves ==
  ASSUME CustodyTypeOK, NEW c \in Clients, Drop(c)
  PROVE Moves
<1>. DEFINE j == IdleJob
<1>0. JobsTyped /\ c \in Jobs /\ c # Boot
  BY BootIsAJob DEF CustodyTypeOK
<1>1. JobShape(j) /\ j.op \in {"idle"}
  BY <1>0, IdleShape, JobsKnown DEF JobShape, JobFields
<1>2. Set(c, j)
  BY DEF Drop
<1>3. OnlyJob(c) /\ job'[c] = j
  BY <1>0, <1>1, <1>2, SetOnly
<1>4. MovesTo(c)
  BY <1>0, <1>1, <1>3 DEF MovesTo
<1>. QED BY <1>0, <1>3, <1>4, OneJobMoves

LEMMA ImportSetMoves ==
  ASSUME CustodyTypeOK, NEW c \in Clients, NEW set \in {<<a, b>> : a, b \in Active}, ImportSet(c, set)
  PROVE Moves
<1>. DEFINE j == [IdleJob EXCEPT !.op = "import", !.at = "next", !.ws = set]
<1>0. JobsTyped /\ c \in Jobs /\ c # Boot
  BY BootIsAJob DEF CustodyTypeOK
<1>1. JobShape(j) /\ j.op \in {"import"}
  BY <1>0, IdleShape, JobsKnown DEF JobShape, JobFields
<1>2. Set(c, j)
  BY DEF ImportSet
<1>3. OnlyJob(c) /\ job'[c] = j
  BY <1>0, <1>1, <1>2, SetOnly
<1>4. MovesTo(c)
  BY <1>0, <1>1, <1>3 DEF MovesTo, ImportMove
<1>. QED BY <1>0, <1>3, <1>4, OneJobMoves

LEMMA ImportNextMoves ==
  ASSUME CustodyTypeOK, NEW c \in Clients, ImportNext(c)
  PROVE Moves
<1>. DEFINE j == IF ImportOk(job[c].ws[1]) /\ ~HasTk(job[c].ws[1]) /\ Len(job[c].ws) > 1
               THEN [job[c] EXCEPT !.ws = Tail(@)] ELSE IdleJob
<1>0. JobsTyped /\ c \in Jobs /\ c # Boot
  BY BootIsAJob DEF CustodyTypeOK
<1>1. JobShape(j) /\ j.op \in {"import", "idle"}
  BY <1>0, IdleShape, JobsKnown DEF JobShape, JobFields, ImportNext, At
<1>2. Set(c, j)
  BY DEF ImportNext
<1>3. OnlyJob(c) /\ job'[c] = j
  BY <1>0, <1>1, <1>2, SetOnly
<1>4. MovesTo(c)
  BY <1>0, <1>1, <1>3 DEF MovesTo, ImportMove
<1>. QED BY <1>0, <1>3, <1>4, OneJobMoves

LEMMA EnrollCreateMoves ==
  ASSUME CustodyTypeOK, NEW c \in Clients, EnrollCreate(c)
  PROVE Moves
<1>. DEFINE j == [job[c] EXCEPT !.at = "reread"]
<1>0. JobsTyped /\ c \in Jobs /\ c # Boot
  BY BootIsAJob DEF CustodyTypeOK
<1>1. JobShape(j) /\ j.op \in {"enroll"}
  BY <1>0, IdleShape, JobsKnown DEF JobShape, JobFields, EnrollCreate, At
<1>2. Set(c, j)
  BY DEF EnrollCreate
<1>3. OnlyJob(c) /\ job'[c] = j
  BY <1>0, <1>1, <1>2, SetOnly
<1>4. MovesTo(c)
  BY <1>0, <1>1, <1>3 DEF MovesTo, EnrollMove
<1>. QED BY <1>0, <1>3, <1>4, OneJobMoves

LEMMA EnrollRereadMoves ==
  ASSUME CustodyTypeOK, NEW c \in Clients, EnrollReread(c)
  PROVE Moves
<1>. DEFINE j == [job[c] EXCEPT !.at = "judge", !.n = 1, !.post = tk[job[c].k]]
<1>0. JobsTyped /\ c \in Jobs /\ c # Boot
  BY BootIsAJob DEF CustodyTypeOK
<1>1. JobShape(j) /\ j.op \in {"enroll"}
  BY <1>0, IdleShape, JobsKnown, NixJobs DEF JobShape, JobFields, EnrollReread, At
<1>2. Set(c, j)
  BY DEF EnrollReread
<1>3. OnlyJob(c) /\ job'[c] = j
  BY <1>0, <1>1, <1>2, SetOnly
<1>4. MovesTo(c)
  BY <1>0, <1>1, <1>3 DEF MovesTo, EnrollMove
<1>. QED BY <1>0, <1>3, <1>4, OneJobMoves

LEMMA SignBeforeMoves ==
  ASSUME CustodyTypeOK, NEW c \in Clients, SignBefore(c)
  PROVE Moves
<1>. DEFINE j == IF PostureFits(c) THEN [job[c] EXCEPT !.at = "sign", !.post = tk[job[c].k]] ELSE IdleJob
<1>0. JobsTyped /\ c \in Jobs /\ c # Boot
  BY BootIsAJob DEF CustodyTypeOK
<1>1. JobShape(j) /\ j.op \in {"nixsign", "idle"}
  BY <1>0, IdleShape, JobsKnown, NixJobs DEF JobShape, JobFields, SignBefore, At
<1>2. Set(c, j)
  BY DEF SignBefore
<1>3. OnlyJob(c) /\ job'[c] = j
  BY <1>0, <1>1, <1>2, SetOnly
<1>4. MovesTo(c)
  BY <1>0, <1>1, <1>3 DEF MovesTo, NixSignMove
<1>. QED BY <1>0, <1>3, <1>4, OneJobMoves

LEMMA SignCallMoves ==
  ASSUME CustodyTypeOK, NEW c \in Clients, SignCall(c)
  PROVE Moves
<1>. DEFINE j == IF HasTk(job[c].k)
            THEN [job[c] EXCEPT !.at = "after", !.n = tk[job[c].k].mat[1]] ELSE IdleJob
<1>0. JobsTyped /\ c \in Jobs /\ c # Boot
  BY BootIsAJob DEF CustodyTypeOK
<1>1. JobShape(j) /\ j.op \in {"nixsign", "idle"}
  BY <1>0, IdleShape, JobsKnown DEF JobShape, JobFields, SignCall, At
<1>2. Set(c, j)
  BY DEF SignCall
<1>3. OnlyJob(c) /\ job'[c] = j
  BY <1>0, <1>1, <1>2, SetOnly
<1>4. MovesTo(c)
  BY <1>0, <1>1, <1>3 DEF MovesTo, NixSignMove
<1>. QED BY <1>0, <1>3, <1>4, OneJobMoves

LEMMA EnrollReadMoves ==
  ASSUME CustodyTypeOK, NEW c \in Clients, EnrollRead(c)
  PROVE Moves
<1>. DEFINE j == IF HasTk(job[c].k)
                THEN [job[c] EXCEPT !.at = "judge", !.n = 0, !.post = tk[job[c].k]]
                ELSE IF job[c].id.state = "pending" THEN [job[c] EXCEPT !.at = "create"] ELSE IdleJob
<1>0. JobsTyped /\ c \in Jobs /\ c # Boot
  BY BootIsAJob DEF CustodyTypeOK
<1>1. JobShape(j) /\ j.op \in {"enroll", "idle"}
  BY <1>0, IdleShape, JobsKnown, NixJobs DEF JobShape, JobFields, EnrollRead, At
<1>2. Set(c, j)
  BY DEF EnrollRead
<1>3. OnlyJob(c) /\ job'[c] = j
  BY <1>0, <1>1, <1>2, SetOnly
<1>4. MovesTo(c)
  BY <1>0, <1>1, <1>3 DEF MovesTo, EnrollMove
<1>. QED BY <1>0, <1>3, <1>4, OneJobMoves

LEMMA SweepFloorMoves ==
  ASSUME CustodyTypeOK, NEW c \in Clients, SweepFloor(c)
  PROVE Moves
<1>. DEFINE j == IF Supports(job[c].k, "configure") /\ ConfigOk(job[c].k, tk[job[c].k].dec, RetentionFloor(job[c].n)) /\ job[c].ws # << >>
               THEN [job[c] EXCEPT !.at = "next"] ELSE IdleJob
<1>0. JobsTyped /\ c \in Jobs /\ c # Boot
  BY BootIsAJob DEF CustodyTypeOK
<1>1. JobShape(j) /\ j.op \in {"sweep", "idle"}
  BY <1>0, IdleShape, JobsKnown DEF JobShape, JobFields, SweepFloor, At
<1>2. Set(c, j)
  BY DEF SweepFloor
<1>3. OnlyJob(c) /\ job'[c] = j
  BY <1>0, <1>1, <1>2, SetOnly
<1>4. MovesTo(c)
  BY <1>0, <1>1, <1>3 DEF MovesTo, SweepMove
<1>. QED BY <1>0, <1>3, <1>4, OneJobMoves

(* A writer that starts marks itself and every writer at work. *)
LEMMA BeginEffect ==
  ASSUME JobsTyped, NEW c \in Jobs, NEW j, Begin(c, j), JobShape(j)
  PROVE /\ DOMAIN job' = Jobs /\ JobShape(job'[c])
        /\ job'[c].op = j.op /\ job'[c].k = j.k /\ job'[c].at = j.at /\ job'[c].n = j.n
        /\ job'[c].ws = j.ws /\ job'[c].half = j.half /\ job'[c].solo = (Writers = {})
        /\ job'[c].post = j.post /\ job'[c].id = j.id
        /\ \A d \in Jobs \ {c} :
             /\ JobShape(job'[d]) /\ SameJob(d)
             /\ Writing(d) => job'[d].solo = FALSE
             /\ ~Writing(d) => job'[d].solo = job[d].solo
<1>1. DOMAIN job' = Jobs /\ job'[c] = [j EXCEPT !.solo = Writers = {}]
  BY DEF Begin
<1>2. JobShape(job'[c]) /\ job'[c].op = j.op /\ job'[c].k = j.k /\ job'[c].at = j.at
      /\ job'[c].n = j.n /\ job'[c].ws = j.ws /\ job'[c].half = j.half
      /\ job'[c].solo = (Writers = {}) /\ job'[c].post = j.post /\ job'[c].id = j.id
  BY <1>1 DEF JobShape, JobFields
<1>3. ASSUME NEW d \in Jobs \ {c}
      PROVE /\ JobShape(job'[d]) /\ SameJob(d)
            /\ Writing(d) => job'[d].solo = FALSE
            /\ ~Writing(d) => job'[d].solo = job[d].solo
  <2>1. JobShape(job[d])
    BY JobsKnown
  <2>2. CASE Writing(d)
    <3>1. job'[d] = [job[d] EXCEPT !.solo = FALSE]
      BY <2>2 DEF Begin
    <3>. QED BY <2>1, <2>2, <3>1 DEF JobShape, JobFields, SameJob
  <2>3. CASE ~Writing(d)
    <3>1. job'[d] = job[d]
      BY <2>3 DEF Begin
    <3>. QED BY <2>1, <2>3, <3>1 DEF SameJob
  <2>. QED BY <2>2, <2>3
<1>. QED BY <1>1, <1>2, <1>3

LEMMA BeginMoves ==
  ASSUME JobsTyped, NEW c \in Jobs, NEW j, Begin(c, j), JobShape(j), MovesTo(c)
  PROVE Moves
<1>1. ASSUME NEW d \in Jobs \ {c} PROVE JobShape(job'[d]) /\ MovesTo(d)
  BY BeginEffect, SameMoves
<1>. QED BY <1>1, BeginEffect DEF Moves

LEMMA RotateValueMoves ==
  ASSUME CustodyTypeOK, NEW c \in Clients, NEW k \in Keys, RotateValue(c, k)
  PROVE Moves
<1>. DEFINE j == [IdleJob EXCEPT !.op = "value", !.k = k, !.at = "put",
                              !.ws = GeneratedWrites(k, serial + 1)]
<1>0. JobsTyped /\ c \in Jobs /\ c # Boot
  BY BootIsAJob DEF CustodyTypeOK
<1>1. JobShape(j) /\ j.op = "value"
  BY IdleShape DEF JobShape, JobFields
<1>2. Begin(c, j)
  BY DEF RotateValue
<1>3. job'[c].op = "value"
  BY <1>0, <1>1, <1>2, BeginEffect
<1>4. MovesTo(c)
  BY <1>0, <1>3 DEF MovesTo, ValueMove
<1>. QED BY <1>0, <1>1, <1>2, <1>4, BeginMoves

LEMMA SweepReadMoves ==
  ASSUME CustodyTypeOK, NEW c \in Clients, SweepRead(c)
  PROVE Moves
<1>. DEFINE i == IF HasTk(Sweepable[1])
                 THEN [IdleJob EXCEPT !.op = "sweep", !.at = "floor", !.k = Sweepable[1],
                                      !.n = Latest(Sweepable[1]), !.ws = Tail(Sweepable)]
                 ELSE IdleJob
            k == job[c].ws[1]
            j == IF HasTk(k)
                 THEN [job[c] EXCEPT !.at = "floor", !.k = k, !.n = Latest(k), !.ws = Tail(@)]
                 ELSE IdleJob
<1>0. JobsTyped /\ c \in Jobs /\ c # Boot
  BY BootIsAJob DEF CustodyTypeOK
<1>1. JobShape(i) /\ i.op \in {"sweep", "idle"}
  BY IdleShape DEF JobShape, JobFields
<1>2. At(c, "sweep", "next") => JobShape(j) /\ j.op \in {"sweep", "idle"}
  BY <1>0, IdleShape, JobsKnown DEF JobShape, JobFields, At
<1>3. Set(c, i) \/ (At(c, "sweep", "next") /\ Set(c, j))
  BY DEF SweepRead
<1>4. OnlyJob(c) /\ job'[c].op \in {"sweep", "idle"}
  BY <1>0, <1>1, <1>2, <1>3, SetOnly, ZenonT(60)
<1>5. MovesTo(c)
  BY <1>0, <1>4 DEF MovesTo, SweepMove
<1>. QED BY <1>0, <1>4, <1>5, OneJobMoves

LEMMA PutMoves ==
  ASSUME CustodyTypeOK, NEW c \in Jobs, Put(c)
  PROVE Moves
<1>. DEFINE j == IF Len(job[c].ws) # 1 THEN [job[c] EXCEPT !.ws = Tail(@), !.half = TRUE]
                 ELSE IF c = Boot
                 THEN [job[c] EXCEPT !.ws = << >>, !.at = "probe", !.n = @ + 1, !.half = FALSE]
                 ELSE IdleJob
<1>0. JobsTyped
  BY DEF CustodyTypeOK
<1>1. JobShape(j) /\ j.op \in {job[c].op, "idle"}
  BY <1>0, IdleShape, JobsKnown DEF JobShape, JobFields
<1>2. Set(c, j)
  BY DEF Put
<1>3. OnlyJob(c) /\ job'[c] = j
  BY <1>0, <1>1, <1>2, SetOnly
<1>4. IF c = Boot THEN job[c].op = "boot" ELSE job[c].op = "value"
  BY <1>0, JobsKnown DEF Put, Writing
<1>5. MovesTo(c)
  BY <1>1, <1>3, <1>4 DEF MovesTo, ValueMove, BootMove
<1>. QED BY <1>0, <1>3, <1>5, OneJobMoves

LEMMA BootEndsMoves ==
  ASSUME CustodyTypeOK, BootEnds
  PROVE Moves
<1>0. JobsTyped /\ Set(Boot, IdleJob)
  BY DEF CustodyTypeOK, BootEnds
<1>1. OnlyJob(Boot) /\ job'[Boot] = IdleJob
  BY <1>0, IdleShape, BootIsAJob, SetOnly
<1>2. MovesTo(Boot)
  BY <1>1, IdleShape DEF MovesTo
<1>. QED BY <1>0, <1>1, <1>2, BootIsAJob, OneJobMoves

LEMMA BootProbeMoves ==
  ASSUME CustodyTypeOK, BootProbe
  PROVE Moves
<1>. DEFINE k == order[job[Boot].n]
            next == [job[Boot] EXCEPT !.n = @ + 1]
            miss == [next EXCEPT !.k = k]
            put == [job[Boot] EXCEPT !.at = "put", !.ws = GeneratedWrites(k, serial + 1)]
<1>0. JobsTyped /\ Boot \in Jobs /\ job[Boot].op = "boot"
  BY BootIsAJob DEF CustodyTypeOK, BootProbe, At
<1>1. JobShape(next) /\ next.op = "boot"
  BY <1>0, JobsKnown DEF JobShape, JobFields
<1>2. JobShape(miss) /\ miss.op = "boot"
  BY <1>1 DEF JobShape, JobFields
<1>3. JobShape(put) /\ put.op = "boot"
  BY <1>0, JobsKnown DEF JobShape, JobFields
<1>4. Set(Boot, next) \/ Set(Boot, miss) \/ Set(Boot, IdleJob) \/ Begin(Boot, put)
  BY DEF BootProbe
<1>5. job'[Boot].op \in {"boot", "idle"}
  <2>1. ASSUME NEW j, JobShape(j), j.op \in {"boot", "idle"}, Set(Boot, j)
        PROVE job'[Boot].op \in {"boot", "idle"}
    BY <1>0, <2>1, SetOnly
  <2>2. CASE Begin(Boot, put)
    BY <1>0, <1>3, <2>2, BeginEffect
  <2>. QED BY <1>1, <1>2, <1>4, <2>1, <2>2, IdleShape
<1>6. MovesTo(Boot)
  BY <1>5 DEF MovesTo, BootMove
<1>7. OnlyJob(Boot) \/ Begin(Boot, put)
  BY <1>0, <1>1, <1>2, <1>4, IdleShape, SetOnly
<1>. QED BY <1>0, <1>3, <1>6, <1>7, BeginMoves, OneJobMoves

LEMMA CrashMoves ==
  ASSUME CustodyTypeOK, Crash
  PROVE Moves
<1>1. DOMAIN job' = Jobs /\ \A c \in Jobs : job'[c] = IF c = Boot THEN BootJob ELSE IdleJob
  BY DEF Crash
<1>2. JobShape(BootJob) /\ BootJob.op = "boot"
  BY IdleShape DEF BootJob, JobShape, JobFields
<1>3. ASSUME NEW d \in Jobs PROVE JobShape(job'[d]) /\ MovesTo(d)
  BY <1>1, <1>2, IdleShape DEF MovesTo, BootMove
<1>. QED BY <1>1, <1>3 DEF Moves

(* Every step moves the handlers as MovesTo says. *)
LEMMA CustodyMoves ==
  ASSUME CustodyTypeOK, [CustodyNext]_custodyVars
  PROVE Moves
<1>0. JobsTyped /\ Clients \subseteq Jobs /\ Boot \in Jobs
  BY BootIsAJob DEF CustodyTypeOK
<1>1. CASE job' = job
  BY <1>0, <1>1, SameJobMoves
<1>2. CASE BootProbe \/ BootEnds \/ Put(Boot) \/ Crash
  BY <1>0, <1>2, BootProbeMoves, BootEndsMoves, PutMoves, CrashMoves
<1>3. CASE Adopt \/ ReloadGrants \/ Clock \/ \E k \in Keys : Meddle(k)
  BY <1>3, <1>1 DEF Adopt, ReloadGrants, Clock, Meddle
<1>4. ASSUME NEW c \in Clients, NEW k \in Keys, Starts(c, k) PROVE Moves
  BY <1>4, <1>1, RotatePostMoves, MintReadMoves, RotateValueMoves, SealSeedMoves,
     NixStartMovesEnroll, NixStartMovesSign, SetValueMoves, NatsMoves DEF Starts, Ask
<1>5. ASSUME NEW c \in Clients, RotationSteps(c) PROVE Moves
  BY <1>5, RotateReadMoves, RotateFloorMoves, SweepReadMoves, SweepFloorMoves, MintSignMoves,
     StoreRecordMoves, NatsFinishMoves DEF RotationSteps
<1>6. ASSUME NEW c \in Clients, NixSteps(c) PROVE Moves
  BY <1>6, EnrollReadMoves, EnrollCreateMoves, EnrollRereadMoves, EnrollJudgeMoves,
     SignBeforeMoves, SignCallMoves, SignAfterMoves DEF NixSteps
<1>7. ASSUME NEW c \in Clients, Put(c) \/ Drop(c) \/ ImportNext(c) PROVE Moves
  BY <1>0, <1>7, PutMoves, DropMoves, ImportNextMoves
<1>8. ASSUME NEW c \in Clients, NEW set \in {<<a, b>> : a, b \in Active}, ImportSet(c, set)
      PROVE Moves
  BY <1>8, ImportSetMoves
<1>9. CASE UNCHANGED custodyVars
  BY <1>9, <1>1 DEF custodyVars
<1>. QED BY <1>2, <1>3, <1>4, <1>5, <1>6, <1>7, <1>8, <1>9 DEF CustodyNext

(* What a step may change. *)
Framed ==
  /\ scene' = scene /\ order' = order
  /\ tk' = tk \/ TransitStep
  /\ kv' = kv \/ StoreStep
  /\ answers' = answers \/ AnswerStep
  /\ torn' = torn \/ TornStep
  /\ lock' = lock \/ LockStep
  /\ phase' = phase \/ PhaseStep
  /\ ident' = ident \/ Adopt
  /\ grants' = grants \/ ReloadGrants
  /\ seen' = seen \/ \E c \in Clients : \E k \in Keys : Ask(c, k)

(* Each variable changes only in the steps that assign it. *)
LEMMA CustodyFrame ==
  ASSUME [CustodyNext]_custodyVars
  PROVE Framed
<1>1. ASSUME BootProbe PROVE Framed
  BY <1>1 DEF Framed, BootProbe, TransitStep, PhaseStep
<1>2. ASSUME BootEnds PROVE Framed
  BY <1>2, SMTT(40) DEF Framed, BootEnds, PhaseStep
<1>3. ASSUME Put(Boot) PROVE Framed
  BY <1>3 DEF Framed, Put, StoreStep, TornStep
<1>4. ASSUME Crash PROVE Framed
  BY <1>4 DEF Framed, Crash, TornStep, LockStep, PhaseStep
<1>5. ASSUME Adopt PROVE Framed
  BY <1>5 DEF Framed, Adopt
<1>6. ASSUME ReloadGrants PROVE Framed
  BY <1>6 DEF Framed, ReloadGrants
<1>7. ASSUME Clock PROVE Framed
  BY <1>7 DEF Framed, Clock, AnswerStep
<1>8. ASSUME NEW k \in Keys, Meddle(k) PROVE Framed
  BY <1>8 DEF Framed, Meddle, TransitStep
<1>9. ASSUME NEW c \in Clients, NEW k \in Keys, Ask(c, k) PROVE Framed
  BY <1>9 DEF Framed, Ask
<1>10. ASSUME NEW c \in Clients, NEW k \in Keys, SetValue(c, k) PROVE Framed
  BY <1>10 DEF Framed, SetValue, StoreStep, TornStep
<1>11. ASSUME NEW c \in Clients, NEW k \in Keys, RotatePost(c, k) PROVE Framed
  BY <1>11 DEF Framed, RotatePost, TransitStep
<1>12. ASSUME NEW c \in Clients, NEW k \in Keys, MintRead(c, k) PROVE Framed
  BY <1>12 DEF Framed, MintRead
<1>13. ASSUME NEW c \in Clients, NEW k \in Keys, RotateValue(c, k) PROVE Framed
  BY <1>13 DEF Framed, RotateValue
<1>14. ASSUME NEW c \in Clients, NEW k \in Keys, SealSeed(c, k) PROVE Framed
  BY <1>14 DEF Framed, SealSeed
<1>15. ASSUME NEW c \in Clients, NEW k \in Keys, NixStart(c, k, "enroll") PROVE Framed
  BY <1>15 DEF Framed, NixStart
<1>16. ASSUME NEW c \in Clients, NEW k \in Keys, NixStart(c, k, "nixsign") PROVE Framed
  BY <1>16 DEF Framed, NixStart
<1>17. ASSUME NEW c \in Clients, RotateRead(c) PROVE Framed
  BY <1>17 DEF Framed, RotateRead
<1>18. ASSUME NEW c \in Clients, RotateFloor(c) PROVE Framed
  BY <1>18 DEF Framed, RotateFloor, TransitStep
<1>19. ASSUME NEW c \in Clients, SweepRead(c) PROVE Framed
  BY <1>19 DEF Framed, SweepRead
<1>20. ASSUME NEW c \in Clients, SweepFloor(c) PROVE Framed
  BY <1>20 DEF Framed, SweepFloor, TransitStep
<1>21. ASSUME NEW c \in Clients, MintSign(c) PROVE Framed
  BY <1>21 DEF Framed, MintSign, AnswerStep
<1>22. ASSUME NEW c \in Clients, StoreRecord(c) PROVE Framed
  BY <1>22 DEF Framed, StoreRecord, StoreStep
<1>23. ASSUME NEW c \in Clients, EnrollRead(c) PROVE Framed
  BY <1>23 DEF Framed, EnrollRead, LockStep
<1>24. ASSUME NEW c \in Clients, EnrollCreate(c) PROVE Framed
  BY <1>24 DEF Framed, EnrollCreate, TransitStep
<1>25. ASSUME NEW c \in Clients, EnrollReread(c) PROVE Framed
  BY <1>25 DEF Framed, EnrollReread
<1>26. ASSUME NEW c \in Clients, EnrollJudge(c) PROVE Framed
  <2>1. UNCHANGED <<scene, order, tk, kv, serial, phase, ident, grants, seen, torn, spent>>
    BY <1>26 DEF EnrollJudge
  <2>2. AnswerStep /\ LockStep
    BY <1>26 DEF AnswerStep, LockStep
  <2>. QED BY <2>1, <2>2 DEF Framed
<1>27. ASSUME NEW c \in Clients, SignBefore(c) PROVE Framed
  BY <1>27 DEF Framed, SignBefore
<1>28. ASSUME NEW c \in Clients, SignCall(c) PROVE Framed
  BY <1>28 DEF Framed, SignCall
<1>29. ASSUME NEW c \in Clients, SignAfter(c) PROVE Framed
  <2>1. UNCHANGED <<scene, order, tk, kv, serial, phase, ident, lock, grants, seen, torn, spent>>
    BY <1>29 DEF SignAfter
  <2>2. AnswerStep
    BY <1>29, SMTT(40) DEF AnswerStep
  <2>. QED BY <2>1, <2>2 DEF Framed
<1>30. ASSUME NEW c \in Clients, Put(c) PROVE Framed
  BY <1>30 DEF Framed, Put, StoreStep, TornStep
<1>31. ASSUME NEW c \in Clients, Drop(c) PROVE Framed
  BY <1>31 DEF Framed, Drop, TornStep, LockStep
<1>32. ASSUME NEW c \in Clients, ImportNext(c) PROVE Framed
  BY <1>32 DEF Framed, ImportNext, TransitStep
<1>33. ASSUME NEW c \in Clients, NEW k \in Keys, NatsMint(c, k) \/ NatsSign(c, k) PROVE Framed
  BY <1>33 DEF Framed, NatsMint, NatsSign, NatsRead
<1>34. ASSUME NEW c \in Clients, NatsFinish(c) PROVE Framed
  BY <1>34 DEF Framed, NatsFinish, AnswerStep
<1>35. ASSUME NEW c \in Clients, NEW set \in {<<a, b>> : a, b \in Active}, ImportSet(c, set) PROVE Framed
  <2>1. UNCHANGED <<scene, order, tk, kv, serial, phase, ident, lock, grants, seen, torn>>
    BY <1>35 DEF ImportSet
  <2>2. AnswerStep
    BY <1>35 DEF AnswerStep
  <2>. QED BY <2>1, <2>2 DEF Framed
<1>36. CASE UNCHANGED custodyVars
  BY <1>36 DEF Framed, custodyVars
<1>. QED
  BY <1>1, <1>2, <1>3, <1>4, <1>5, <1>6, <1>7, <1>8, <1>9, <1>10, <1>11, <1>12, <1>13,
     <1>14, <1>15, <1>16, <1>17, <1>18, <1>19, <1>20, <1>21, <1>22, <1>23, <1>24, <1>25,
     <1>26, <1>27, <1>28, <1>29, <1>30, <1>31, <1>32, <1>33, <1>34, <1>35, <1>36 DEF
     CustodyNext, Starts, RotationSteps, NixSteps

(* How a step may change the counters. *)
Counted ==
  /\ serial' \in Nat /\ spent' \in SpentType
  /\ spent'.meddles = spent.meddles \/ \E k \in Keys : Meddle(k)

LEMMA SpendTyped ==
  ASSUME spent \in SpentType,
         NEW f \in {"rotations", "faults", "sweeps", "starts", "meddles", "reloads"},
         spent' = [spent EXCEPT ![f] = @ + 1]
  PROVE spent' \in SpentType /\ (f # "meddles" => spent'.meddles = spent.meddles)
  BY DEF SpentType

(* A step changes the counters within their types, and only meddling       *)
(* counts as meddling.                                                     *)
LEMMA CustodyCounters ==
  ASSUME serial \in Nat, spent \in SpentType, [CustodyNext]_custodyVars
  PROVE Counted
<1>1. ASSUME BootProbe PROVE Counted
  <2>1. spent' = spent /\ serial' \in {serial, serial + 1}
    BY <1>1 DEF BootProbe
  <2>. QED BY <2>1 DEF Counted
<1>2. ASSUME BootEnds PROVE Counted
  <2>1. spent' = spent /\ serial' \in {serial, serial + 1}
    BY <1>2 DEF BootEnds
  <2>. QED BY <2>1 DEF Counted
<1>3. ASSUME Put(Boot) PROVE Counted
  <2>1. spent' = spent /\ serial' \in {serial, serial + 1}
    BY <1>3 DEF Put
  <2>. QED BY <2>1 DEF Counted
<1>4. ASSUME Crash PROVE Counted
  <2>1. spent' = [spent EXCEPT !["faults"] = @ + 1]
    BY <1>4 DEF Crash, Spend
  <2>2. serial' = serial
    BY <1>4 DEF Crash
  <2>. QED BY <2>1, <2>2, SpendTyped DEF Counted
<1>5. ASSUME Adopt PROVE Counted
  <2>1. spent' = spent /\ serial' \in {serial, serial + 1}
    BY <1>5 DEF Adopt
  <2>. QED BY <2>1 DEF Counted
<1>6. ASSUME ReloadGrants PROVE Counted
  <2>1. spent' = [spent EXCEPT !["reloads"] = @ + 1]
    BY <1>6 DEF ReloadGrants, Spend
  <2>2. serial' = serial
    BY <1>6 DEF ReloadGrants
  <2>. QED BY <2>1, <2>2, SpendTyped DEF Counted
<1>7. ASSUME Clock PROVE Counted
  <2>1. spent' = spent /\ serial' \in {serial, serial + 1}
    BY <1>7 DEF Clock
  <2>. QED BY <2>1 DEF Counted
<1>8. ASSUME NEW k \in Keys, Meddle(k) PROVE Counted
  <2>1. spent' = [spent EXCEPT !["meddles"] = @ + 1]
    BY <1>8 DEF Meddle, Spend
  <2>2. serial' = serial
    BY <1>8 DEF Meddle
  <2>. QED BY <2>1, <2>2, SpendTyped, <1>8 DEF Counted
<1>9. ASSUME NEW c \in Clients, NEW k \in Keys, Ask(c, k) PROVE Counted
  <2>1. spent' = spent /\ serial' \in {serial, serial + 1}
    BY <1>9 DEF Ask
  <2>. QED BY <2>1 DEF Counted
<1>10. ASSUME NEW c \in Clients, NEW k \in Keys, SetValue(c, k) PROVE Counted
  <2>1. spent' = spent /\ serial' \in {serial, serial + 1}
    BY <1>10 DEF SetValue
  <2>. QED BY <2>1 DEF Counted
<1>11. ASSUME NEW c \in Clients, NEW k \in Keys, RotatePost(c, k) PROVE Counted
  <2>1. spent' = [spent EXCEPT !["rotations"] = @ + 1]
    BY <1>11 DEF RotatePost, Spend
  <2>2. serial' = serial + 1
    BY <1>11 DEF RotatePost
  <2>. QED BY <2>1, <2>2, SpendTyped DEF Counted
<1>12. ASSUME NEW c \in Clients, NEW k \in Keys, MintRead(c, k) PROVE Counted
  <2>1. spent' = spent /\ serial' \in {serial, serial + 1}
    BY <1>12 DEF MintRead
  <2>. QED BY <2>1 DEF Counted
<1>13. ASSUME NEW c \in Clients, NEW k \in Keys, RotateValue(c, k) PROVE Counted
  <2>1. spent' = [spent EXCEPT !["rotations"] = @ + 1]
    BY <1>13 DEF RotateValue, Spend
  <2>2. serial' = serial + 1
    BY <1>13 DEF RotateValue
  <2>. QED BY <2>1, <2>2, SpendTyped DEF Counted
<1>14. ASSUME NEW c \in Clients, NEW k \in Keys, SealSeed(c, k) PROVE Counted
  <2>1. spent' = [spent EXCEPT !["starts"] = @ + 1]
    BY <1>14 DEF SealSeed, Spend
  <2>2. serial' = serial + 1
    BY <1>14 DEF SealSeed
  <2>. QED BY <2>1, <2>2, SpendTyped DEF Counted
<1>15. ASSUME NEW c \in Clients, NEW k \in Keys, NixStart(c, k, "enroll") PROVE Counted
  <2>1. spent' = [spent EXCEPT !["starts"] = @ + 1]
    BY <1>15 DEF NixStart, Spend
  <2>2. serial' = serial
    BY <1>15 DEF NixStart
  <2>. QED BY <2>1, <2>2, SpendTyped DEF Counted
<1>16. ASSUME NEW c \in Clients, NEW k \in Keys, NixStart(c, k, "nixsign") PROVE Counted
  <2>1. spent' = [spent EXCEPT !["starts"] = @ + 1]
    BY <1>16 DEF NixStart, Spend
  <2>2. serial' = serial
    BY <1>16 DEF NixStart
  <2>. QED BY <2>1, <2>2, SpendTyped DEF Counted
<1>17. ASSUME NEW c \in Clients, RotateRead(c) PROVE Counted
  <2>1. spent' = spent /\ serial' \in {serial, serial + 1}
    BY <1>17 DEF RotateRead
  <2>. QED BY <2>1 DEF Counted
<1>18. ASSUME NEW c \in Clients, RotateFloor(c) PROVE Counted
  <2>1. spent' = spent /\ serial' \in {serial, serial + 1}
    BY <1>18 DEF RotateFloor
  <2>. QED BY <2>1 DEF Counted
<1>19. ASSUME NEW c \in Clients, SweepRead(c) PROVE Counted
  <2>1. spent' = spent \/ spent' = [spent EXCEPT !["sweeps"] = @ + 1]
    BY <1>19 DEF SweepRead, Spend
  <2>2. serial' = serial
    BY <1>19 DEF SweepRead
  <2>. QED BY <2>1, <2>2, SpendTyped DEF Counted
<1>20. ASSUME NEW c \in Clients, SweepFloor(c) PROVE Counted
  <2>1. spent' = spent /\ serial' \in {serial, serial + 1}
    BY <1>20 DEF SweepFloor
  <2>. QED BY <2>1 DEF Counted
<1>21. ASSUME NEW c \in Clients, MintSign(c) PROVE Counted
  <2>1. spent' = spent /\ serial' \in {serial, serial + 1}
    BY <1>21 DEF MintSign
  <2>. QED BY <2>1 DEF Counted
<1>22. ASSUME NEW c \in Clients, StoreRecord(c) PROVE Counted
  <2>1. spent' = spent /\ serial' \in {serial, serial + 1}
    BY <1>22 DEF StoreRecord
  <2>. QED BY <2>1 DEF Counted
<1>23. ASSUME NEW c \in Clients, EnrollRead(c) PROVE Counted
  <2>1. spent' = spent /\ serial' \in {serial, serial + 1}
    BY <1>23 DEF EnrollRead
  <2>. QED BY <2>1 DEF Counted
<1>24. ASSUME NEW c \in Clients, EnrollCreate(c) PROVE Counted
  <2>1. spent' = spent /\ serial' \in {serial, serial + 1}
    BY <1>24 DEF EnrollCreate
  <2>. QED BY <2>1 DEF Counted
<1>25. ASSUME NEW c \in Clients, EnrollReread(c) PROVE Counted
  <2>1. spent' = spent /\ serial' \in {serial, serial + 1}
    BY <1>25 DEF EnrollReread
  <2>. QED BY <2>1 DEF Counted
<1>26. ASSUME NEW c \in Clients, EnrollJudge(c) PROVE Counted
  <2>1. spent' = spent /\ serial' \in {serial, serial + 1}
    BY <1>26 DEF EnrollJudge
  <2>. QED BY <2>1 DEF Counted
<1>27. ASSUME NEW c \in Clients, SignBefore(c) PROVE Counted
  <2>1. spent' = spent /\ serial' \in {serial, serial + 1}
    BY <1>27 DEF SignBefore
  <2>. QED BY <2>1 DEF Counted
<1>28. ASSUME NEW c \in Clients, SignCall(c) PROVE Counted
  <2>1. spent' = spent /\ serial' \in {serial, serial + 1}
    BY <1>28 DEF SignCall
  <2>. QED BY <2>1 DEF Counted
<1>29. ASSUME NEW c \in Clients, SignAfter(c) PROVE Counted
  <2>1. spent' = spent /\ serial' \in {serial, serial + 1}
    BY <1>29 DEF SignAfter
  <2>. QED BY <2>1 DEF Counted
<1>30. ASSUME NEW c \in Clients, Put(c) PROVE Counted
  <2>1. spent' = spent /\ serial' \in {serial, serial + 1}
    BY <1>30 DEF Put
  <2>. QED BY <2>1 DEF Counted
<1>31. ASSUME NEW c \in Clients, Drop(c) PROVE Counted
  <2>1. spent' = [spent EXCEPT !["faults"] = @ + 1]
    BY <1>31 DEF Drop, Spend
  <2>2. serial' = serial
    BY <1>31 DEF Drop
  <2>. QED BY <2>1, <2>2, SpendTyped DEF Counted
<1>32. ASSUME NEW c \in Clients, ImportNext(c) PROVE Counted
  <2>1. spent' = spent /\ serial' \in {serial, serial + 1}
    BY <1>32 DEF ImportNext
  <2>. QED BY <2>1 DEF Counted
<1>33. ASSUME NEW c \in Clients, NEW k \in Keys, NatsMint(c, k) \/ NatsSign(c, k) PROVE Counted
  <2>1. spent' = spent /\ serial' \in {serial, serial + 1}
    BY <1>33 DEF NatsMint, NatsSign, NatsRead
  <2>. QED BY <2>1 DEF Counted
<1>34. ASSUME NEW c \in Clients, NatsFinish(c) PROVE Counted
  <2>1. spent' = spent /\ serial' \in {serial, serial + 1}
    BY <1>34 DEF NatsFinish
  <2>. QED BY <2>1 DEF Counted
<1>35. ASSUME NEW c \in Clients, NEW set \in {<<a, b>> : a, b \in Active}, ImportSet(c, set) PROVE Counted
  <2>1. spent' = [spent EXCEPT !["starts"] = @ + 1]
    BY <1>35 DEF ImportSet, Spend
  <2>2. serial' = serial
    BY <1>35 DEF ImportSet
  <2>. QED BY <2>1, <2>2, SpendTyped DEF Counted
<1>36. CASE UNCHANGED custodyVars
  BY <1>36 DEF Counted, custodyVars
<1>. QED
  BY <1>1, <1>2, <1>3, <1>4, <1>5, <1>6, <1>7, <1>8, <1>9, <1>10, <1>11, <1>12, <1>13,
     <1>14, <1>15, <1>16, <1>17, <1>18, <1>19, <1>20, <1>21, <1>22, <1>23, <1>24, <1>25,
     <1>26, <1>27, <1>28, <1>29, <1>30, <1>31, <1>32, <1>33, <1>34, <1>35, <1>36 DEF
     CustodyNext, Starts, RotationSteps, NixSteps

(***************************************************************************)
(* The types of the stores.                                                *)
(***************************************************************************)
LEMMA ActiveKeys ==
  ASSUME StoresTyped
  PROVE Active \subseteq Keys
  BY ScenesAssumption DEF StoresTyped, Active

(* The transit engine: new keys, floors, and the one key that a step       *)
(* writes.                                                                 *)
LEMMA NewTransitTyped ==
  /\ NoTk \in TransitType /\ NoTk.mat = << >> /\ NoTk.dec = 1 /\ NoTk.avail = 1
  /\ \A n \in Nat : /\ TransitKey(n) \in TransitType /\ TransitKey(n).mat = <<n>>
                     /\ TransitKey(n).dec = 1 /\ TransitKey(n).avail = 1 /\ TransitKey(n).flags = {}
<1>1. NoTk \in TransitType /\ NoTk.mat = << >> /\ NoTk.dec = 1 /\ NoTk.avail = 1 /\ NoTk.flags = {}
  BY DEF NoTk, TransitType
<1>2. ASSUME NEW n \in Nat
      PROVE /\ TransitKey(n) \in TransitType /\ TransitKey(n).mat = <<n>>
            /\ TransitKey(n).dec = 1 /\ TransitKey(n).avail = 1 /\ TransitKey(n).flags = {}
  <2>1. <<n>> \in Seq(Nat)
    OBVIOUS
  <2>. QED BY <1>1, <2>1 DEF TransitKey, TransitType
<1>. QED BY <1>1, <1>2

LEMMA TransitFields ==
  ASSUME StoresTyped, NEW k \in Keys
  PROVE /\ tk[k] \in TransitType /\ Latest(k) \in Nat /\ tk[k].mat \in Seq(Nat)
        /\ tk[k].dec \in Nat /\ tk[k].avail \in Nat
        /\ HasTk(k) => Latest(k) > 0 /\ tk[k].mat[1] \in Nat /\ Last(tk[k].mat) \in Nat
        /\ HasTk(k) = (Latest(k) > 0)
  BY DEF StoresTyped, TransitType, Latest, HasTk, Last

LEMMA FloorTypes ==
  ASSUME NEW n \in Nat
  PROVE /\ GraceFloor(n) \in Nat /\ GraceFloor(n) >= 1 /\ (GraceFloor(n) = 1 \/ GraceFloor(n) = n - Grace)
        /\ RetentionFloor(n) \in Nat /\ RetentionFloor(n) >= 1
        /\ GraceFloor(n) <= n \/ GraceFloor(n) = 1
  BY RoutingAssumption DEF GraceFloor, RetentionFloor

(* A step writes one transit key at most: it sets its floors, adds a version *)
(* to it, creates it where there was none, or someone meddles with it.       *)
TransitWrite(k) ==
  \/ \E d \in Nat : ConfigOk(k, d, tk[k].avail) /\ tk' = [tk EXCEPT ![k].dec = d]
                    /\ ~Entry[k].nix
                    /\ \E c \in Jobs : job[c].op = "rotate" /\ job[c].k = k /\ d = GraceFloor(job[c].n)
  \/ \E a \in Nat : ConfigOk(k, tk[k].dec, a) /\ a >= 1 /\ tk' = [tk EXCEPT ![k].avail = a]
  \/ tk' = [tk EXCEPT ![k].mat = Append(@, serial + 1)] /\ HasTk(k) /\ ~Entry[k].nix
  \/ ~HasTk(k) /\ tk' = [tk EXCEPT ![k] = TransitKey(serial + 1)]
  \/ Meddle(k)

LEMMA CreatedTyped ==
  ASSUME StoresTyped, NEW k \in Keys, tk' = [tk EXCEPT ![k] = Created(k, serial + 1)]
  PROVE tk' = tk \/ TransitWrite(k)
<1>1. CASE HasTk(k)
  <2>1. tk' = tk
    BY <1>1 DEF StoresTyped, Created
  <2>. QED BY <2>1
<1>2. CASE ~HasTk(k)
  BY <1>2 DEF Created, TransitWrite
<1>. QED BY <1>1, <1>2

(* Every write of the engine is to one key: a floor from a rotation or a   *)
(* sweep, one more version, a new key, or meddling.                        *)
LEMMA TransitWrites ==
  ASSUME CustodyTypeOK, [CustodyNext]_custodyVars
  PROVE tk' = tk \/ \E k \in Keys : TransitWrite(k)
<1>0. StoresTyped /\ JobsTyped /\ Clients \subseteq Jobs
  BY BootIsAJob DEF CustodyTypeOK
<1>1. CASE BootProbe
  <2>. DEFINE k == order[job[Boot].n]
  <2>1. tk' = tk \/ (k \in Active /\ tk' = [tk EXCEPT ![k] = Created(k, serial + 1)])
    BY <1>1 DEF BootProbe
  <2>. QED BY <1>0, <2>1, ActiveKeys, CreatedTyped
<1>2. ASSUME NEW k \in Keys, Meddle(k) PROVE TransitWrite(k)
  BY <1>2 DEF TransitWrite
<1>3. ASSUME NEW c \in Clients, RotateFloor(c) PROVE tk' = tk \/ \E k \in Keys : TransitWrite(k)
  <2>1. job[c].k \in Keys /\ job[c].n \in Nat /\ ~Entry[job[c].k].nix /\ job[c].op = "rotate"
    BY <1>0, <1>3 DEF JobsTyped, JobData, RotateFloor, At
  <2>2. tk' = tk \/ (/\ ConfigOk(job[c].k, GraceFloor(job[c].n), tk[job[c].k].avail)
                     /\ tk' = [tk EXCEPT ![job[c].k].dec = GraceFloor(job[c].n)])
    BY <1>3 DEF RotateFloor, SetDec
  <2>. QED BY <1>0, <2>1, <2>2, FloorTypes DEF TransitWrite
<1>4. ASSUME NEW c \in Clients, SweepFloor(c) PROVE tk' = tk \/ \E k \in Keys : TransitWrite(k)
  <2>1. job[c].k \in Keys => job[c].n \in Nat
    BY <1>0, <1>4 DEF JobsTyped, JobData, SweepFloor, At
  <2>2. tk' = tk \/ (/\ ConfigOk(job[c].k, tk[job[c].k].dec, RetentionFloor(job[c].n))
                     /\ tk' = [tk EXCEPT ![job[c].k].avail = RetentionFloor(job[c].n)])
    BY <1>4 DEF SweepFloor, SetAvail
  <2>3. CASE job[c].k \in Keys
    BY <2>1, <2>2, <2>3, FloorTypes DEF TransitWrite
  <2>4. CASE job[c].k \notin Keys
    <3>1. tk' = tk
      BY <1>0, <2>2, <2>4 DEF StoresTyped
    <3>. QED BY <3>1
  <2>. QED BY <2>3, <2>4
<1>5. ASSUME NEW c \in Clients, EnrollCreate(c) PROVE tk' = tk \/ \E k \in Keys : TransitWrite(k)
  <2>1. job[c].k \in Keys
    BY <1>0, <1>5, NixJobs DEF EnrollCreate, At
  <2>2. tk' = [tk EXCEPT ![job[c].k] = Created(job[c].k, serial + 1)]
    BY <1>5 DEF EnrollCreate
  <2>. QED BY <1>0, <2>1, <2>2, CreatedTyped
<1>6. ASSUME NEW c \in Clients, ImportNext(c) PROVE tk' = tk \/ \E k \in Keys : TransitWrite(k)
  <2>1. job[c].ws[1] \in Keys
    BY <1>0, <1>6 DEF JobsTyped, JobData, ImportNext, At
  <2>2. tk' = tk \/ (~HasTk(job[c].ws[1]) /\ tk' = [tk EXCEPT ![job[c].ws[1]] = TransitKey(serial + 1)])
    BY <1>6 DEF ImportNext
  <2>. QED BY <2>1, <2>2 DEF TransitWrite
<1>7. ASSUME NEW c \in Clients, NEW k \in Keys, RotatePost(c, k) PROVE TransitWrite(k)
  BY <1>7 DEF RotatePost, Rotatable, TransitWrite
<1>. QED BY <1>1, <1>2, <1>3, <1>4, <1>5, <1>6, <1>7, CustodyFrame DEF Framed, TransitStep

(* What the engine holds keeps its type. *)
LEMMA TransitTyped ==
  ASSUME StoresTyped, BrokerTyped, NEW k \in Keys, TransitWrite(k)
  PROVE tk' \in [Keys -> TransitType]
<1>0. tk \in [Keys -> TransitType] /\ serial \in Nat /\ tk[k] \in TransitType /\ tk[k].mat \in Seq(Nat)
  BY DEF StoresTyped, TransitType
<1>1. ASSUME NEW d \in Nat, tk' = [tk EXCEPT ![k].dec = d] PROVE tk' \in [Keys -> TransitType]
  BY <1>0, <1>1 DEF TransitType
<1>2. ASSUME NEW a \in Nat, tk' = [tk EXCEPT ![k].avail = a] PROVE tk' \in [Keys -> TransitType]
  BY <1>0, <1>2 DEF TransitType
<1>3. ASSUME NEW n \in Nat, tk' = [tk EXCEPT ![k].mat = Append(@, n)] PROVE tk' \in [Keys -> TransitType]
  <2>1. Append(tk[k].mat, n) \in Seq(Nat)
    BY <1>0
  <2>. QED BY <1>0, <1>3, <2>1 DEF TransitType
<1>4. ASSUME NEW t \in TransitType, tk' = [tk EXCEPT ![k] = t] PROVE tk' \in [Keys -> TransitType]
  BY <1>0, <1>4
<1>5. CASE Meddle(k)
  <2>1. ident.pin \in Nat
    BY DEF BrokerTyped, IdentityType
  <2>2. [tk[k] EXCEPT !.mat = Append(@, 99)] \in TransitType
    <3>1. Append(tk[k].mat, 99) \in Seq(Nat)
      BY <1>0
    <3>. QED BY <1>0, <3>1 DEF TransitType
  <2>3. [tk[k] EXCEPT !.flags = {"exportable"}] \in TransitType
    BY <1>0 DEF TransitType
  <2>4. PICK t \in {NoTk, TransitKey(ident.pin), TransitKey(99), [tk[k] EXCEPT !.mat = Append(@, 99)],
                    [tk[k] EXCEPT !.flags = {"exportable"}]} : tk' = [tk EXCEPT ![k] = t]
    BY <1>5 DEF Meddle
  <2>5. NoTk \in TransitType /\ TransitKey(ident.pin) \in TransitType /\ TransitKey(99) \in TransitType
    BY <2>1, NewTransitTyped
  <2>6. \/ t = NoTk \/ t = TransitKey(ident.pin) \/ t = TransitKey(99)
        \/ t = [tk[k] EXCEPT !.mat = Append(@, 99)] \/ t = [tk[k] EXCEPT !.flags = {"exportable"}]
    BY <2>4, Zenon
  <2>7. t \in TransitType
    BY <2>2, <2>3, <2>5, <2>6, Zenon
  <2>. QED BY <1>4, <2>4, <2>7
<1>6. serial + 1 \in Nat /\ TransitKey(serial + 1) \in TransitType
  BY <1>0, NewTransitTyped
<1>. QED BY <1>1, <1>2, <1>3, <1>4, <1>5, <1>6 DEF TransitWrite

(***************************************************************************)
(* The KV store.                                                           *)
(***************************************************************************)
LEMMA StoredNumbers ==
  ASSUME NEW v \in StoredType
  PROVE v.n \in Nat
  BY DEF StoredType, PlainType, RecordType, CustodyRecord

(* The KV store: what is written to it, and that a write changes one path. *)
LEMMA PlainStored ==
  ASSUME NEW n \in Nat, NEW what \in {"seed", "value", "cert", "tlskey", "public"}
  PROVE [what |-> what, n |-> n] \in StoredType
  BY DEF StoredType, PlainType

LEMMA WriteStored ==
  ASSUME NEW w \in WriteType
  PROVE w.p \in Keys /\ w.v \in StoredType /\ w.v.n \in Nat /\ w.v.what \notin {"seed", "record"}
<1>1. w.p \in Keys /\ w.v \in [what : {"value", "cert", "tlskey"}, n : Nat]
  BY DEF WriteType
<1>2. w.v \in PlainType
  BY <1>1 DEF PlainType
<1>. QED BY <1>1, <1>2 DEF StoredType

LEMMA RecordStored ==
  ASSUME NEW k \in Keys, NEW n \in Nat, NEW w \in Nat
  PROVE CustodyRecord(k, n, w) \in StoredType
  BY DEF StoredType, RecordType

LEMMA KeysArePaths == Keys \subseteq Paths
  BY DEF Paths

LEMMA LastStored ==
  ASSUME StoresTyped, NEW p \in Paths
  PROVE /\ kv[p] \in Seq(StoredType)
        /\ HasKv(p) => Len(kv[p]) > 0 /\ Last(kv[p]) \in StoredType /\ Last(kv[p]).n \in Nat
<1>1. kv[p] \in Seq(StoredType)
  BY DEF StoresTyped
<1>2. HasKv(p) => Len(kv[p]) > 0 /\ Last(kv[p]) \in StoredType
  BY <1>1 DEF HasKv, Last
<1>. QED BY <1>1, <1>2, StoredNumbers

(* Version v is stored under p and nothing else changes. *)
Writes(p, v) == kv' = [kv EXCEPT ![p] = Stored(p, v)]

(* A write leaves its value as the last one of its path, and every other   *)
(* path as it was.                                                         *)
LEMMA WriteEffect ==
  ASSUME StoresTyped, NEW p \in Keys, NEW v \in StoredType, Writes(p, v)
  PROVE /\ kv' \in [Paths -> Seq(StoredType)]
        /\ kv'[p] # << >> /\ kv'[p][Len(kv'[p])] = v
        /\ \A q \in Paths \ {p} : kv'[q] = kv[q]
<1>1. kv[p] \in Seq(StoredType) /\ p \in Paths
  BY KeysArePaths, LastStored
<1>2. Stored(p, v) \in Seq(StoredType) /\ Stored(p, v) # << >>
      /\ Stored(p, v)[Len(Stored(p, v))] = v
  <2>1. CASE Stored(p, v) = <<v>>
    BY <2>1
  <2>2. CASE Stored(p, v) = Append(kv[p], v)
    BY <1>1, <2>2
  <2>. QED BY <2>1, <2>2 DEF Stored
<1>. QED BY <1>1, <1>2 DEF Writes, StoresTyped

(* A step stores a version that a writer has made, a value that a client     *)
(* sets, or a custody record.                                                *)
WriterStores(p, v) ==
  \E c \in Writers : /\ Put(c) /\ job[c].ws[1].p = p /\ job[c].ws[1].v = v
ClientStores(p, v) ==
  \E c \in Clients : SetValue(c, p) /\ Entry[p].class = "value" /\ v.what \in {"value", "tlskey"}
SealerStores(p, v) ==
  /\ Entry[p].class \in {"asym", "sealing"} /\ Entry[p].storage \in Keys
  /\ \E n, w \in Nat : v = CustodyRecord(p, n, w)

(* What is written is a value that a writer has queued, a value of a       *)
(* client, or a record that a sealer has wrapped.                          *)
LEMMA StoreWrites ==
  ASSUME CustodyTypeOK, [CustodyNext]_custodyVars
  PROVE \/ kv' = kv
        \/ \E p \in Keys : \E v \in StoredType :
             Writes(p, v) /\ (WriterStores(p, v) \/ ClientStores(p, v) \/ SealerStores(p, v))
<1>0. StoresTyped /\ JobsTyped /\ Clients \subseteq Jobs /\ Boot \in Jobs
  BY BootIsAJob DEF CustodyTypeOK
<1>1. ASSUME NEW c \in Jobs, Put(c)
      PROVE \E p \in Keys : \E v \in StoredType : Writes(p, v) /\ WriterStores(p, v)
  <2>1. job[c].ws \in Seq(WriteType) /\ job[c].ws # << >>
    BY <1>0, <1>1 DEF Put, Writing, JobsTyped, JobData
  <2>2. job[c].ws[1] \in WriteType
    BY <2>1
  <2>3. Writes(job[c].ws[1].p, job[c].ws[1].v)
    BY <1>1 DEF Put, Writes
  <2>4. c \in Writers
    BY <1>1 DEF Put, Writers
  <2>. QED BY <1>1, <2>2, <2>3, <2>4, WriteStored DEF WriterStores
<1>2. ASSUME NEW c \in Clients, StoreRecord(c)
      PROVE \E p \in Keys : \E v \in StoredType : Writes(p, v) /\ SealerStores(p, v)
  <2>1. /\ job[c].k \in Keys /\ Entry[job[c].k].class \in {"asym", "sealing"}
        /\ Entry[job[c].k].storage \in Keys
        /\ \E n, w \in Nat : job[c].ws[1] = CustodyRecord(job[c].k, n, w)
    BY <1>0, <1>2 DEF StoreRecord, At, JobsTyped, JobData
  <2>2. Writes(job[c].k, job[c].ws[1])
    BY <1>2 DEF StoreRecord, Writes
  <2>. QED BY <2>1, <2>2, RecordStored DEF SealerStores
<1>3. ASSUME NEW c \in Clients, NEW k \in Keys, SetValue(c, k)
      PROVE \E p \in Keys : \E v \in StoredType : Writes(p, v) /\ ClientStores(p, v)
  <2>1. PICK what \in {"value", "tlskey"} : Writes(k, [what |-> what, n |-> serial + 1])
    BY <1>3 DEF SetValue, Writes
  <2>2. [what |-> what, n |-> serial + 1] \in StoredType
    <3>1. serial + 1 \in Nat
      BY <1>0 DEF StoresTyped
    <3>. QED BY <3>1, PlainStored
  <2>3. ClientStores(k, [what |-> what, n |-> serial + 1])
    BY <1>3 DEF SetValue, RequireClass, ClientStores
  <2>. QED BY <2>1, <2>2, <2>3
<1>4. kv' = kv \/ StoreStep
  BY CustodyFrame DEF Framed
<1>. QED BY <1>0, <1>1, <1>2, <1>3, <1>4 DEF StoreStep

(* The writes of a generated value: itself, the certificate of a stored      *)
(* private key, or a private key and then its certificate.                   *)
SingleWrite(k, n, s) ==
  /\ Entry[k].gen = "random" \/ (Entry[k].gen = "cert" /\ PairKey(k) = NoKey)
  /\ \E what \in {"value", "cert"} : s = <<[p |-> k, v |-> [what |-> what, n |-> n]]>>
CertWrite(k, s) ==
  /\ Entry[k].gen = "cert" /\ PairKey(k) \in Keys /\ HasKv(PairKey(k))
  /\ s = <<[p |-> k, v |-> CertPem(Number(PairKey(k)))]>>
DoubleWrite(k, n, s) ==
  \E q, c \in Keys : /\ Entry[q].gen = "pair" /\ Entry[q].pairOf = c /\ Entry[c].gen = "cert"
                     /\ k = q \/ (k = c /\ ~HasKv(q))
                     /\ s = <<[p |-> q, v |-> KeyPem(n)], [p |-> c, v |-> CertPem(n)]>>

LEMMA PairKeyKnown ==
  ASSUME NEW k \in Keys, PairKey(k) # NoKey
  PROVE PairKey(k) \in Keys /\ Entry[PairKey(k)].gen = "pair" /\ Entry[PairKey(k)].pairOf = k
  BY DEF PairKey

(* generated_writes_for_key gives one value, one certificate for the       *)
(* stored private key, or a private key and then its certificate.          *)
LEMMA GeneratedForms ==
  ASSUME NEW k \in Keys, CanGenerate(k), NEW n \in Nat
  PROVE \/ SingleWrite(k, n, GeneratedWrites(k, n))
        \/ CertWrite(k, GeneratedWrites(k, n))
        \/ DoubleWrite(k, n, GeneratedWrites(k, n))
<1>1. Entry[k].gen \in {"random", "cert", "pair"}
  <2>1. Entry[k].gen \in {"none", "random", "cert", "pair"}
    BY RoutingAssumption
  <2>2. Entry[k].gen # "none"
    BY DEF CanGenerate
  <2>. QED BY <2>1, <2>2
<1>2. CASE Entry[k].gen = "random"
  BY <1>2 DEF GeneratedWrites, Generated, SingleWrite
<1>3. CASE Entry[k].gen = "pair"
  <2>1. Entry[k].pairOf \in Keys /\ Entry[Entry[k].pairOf].gen = "cert"
    BY <1>3 DEF CanGenerate, CertRecipe
  <2>2. GeneratedWrites(k, n) = <<[p |-> k, v |-> KeyPem(n)], [p |-> Entry[k].pairOf, v |-> CertPem(n)]>>
    BY <1>3 DEF GeneratedWrites, PairWrites
  <2>. QED BY <1>3, <2>1, <2>2 DEF DoubleWrite
<1>4. CASE Entry[k].gen = "cert"
  <2>1. GeneratedWrites(k, n) = CertWrites(k, n)
    BY <1>4 DEF GeneratedWrites
  <2>2. CASE PairKey(k) = NoKey
    BY <1>4, <2>1, <2>2 DEF CertWrites, CertPem, SingleWrite
  <2>3. CASE PairKey(k) # NoKey /\ HasKv(PairKey(k))
    BY <1>4, <2>1, <2>3, PairKeyKnown DEF CertWrites, CertWrite
  <2>4. CASE PairKey(k) # NoKey /\ ~HasKv(PairKey(k))
    <3>1. GeneratedWrites(k, n) = <<[p |-> PairKey(k), v |-> KeyPem(n)], [p |-> k, v |-> CertPem(n)]>>
      BY <2>1, <2>4 DEF CertWrites
    <3>. QED BY <1>4, <2>4, <3>1, PairKeyKnown DEF DoubleWrite
  <2>. QED BY <2>2, <2>3, <2>4
<1>. QED BY <1>1, <1>2, <1>3, <1>4

(* Among the writes for a key is one to the key itself. *)
LEMMA GeneratedTyped ==
  ASSUME StoresTyped, NEW k \in Keys, CanGenerate(k), NEW n \in Nat
  PROVE /\ GeneratedWrites(k, n) \in Seq(WriteType) /\ GeneratedWrites(k, n) # << >>
        /\ WritesOk(GeneratedWrites(k, n))
        /\ \E i \in DOMAIN GeneratedWrites(k, n) : GeneratedWrites(k, n)[i].p = k
<1>. DEFINE s == GeneratedWrites(k, n)
<1>0. \A m \in Nat : \A q \in Keys : \A what \in {"value", "cert", "tlskey"} :
        [p |-> q, v |-> [what |-> what, n |-> m]] \in WriteType
  BY DEF WriteType
<1>1. ASSUME NEW w \in WriteType, w.p = k, Entry[k].gen \in {"cert", "random"}, s = <<w>>
      PROVE s \in Seq(WriteType) /\ s # << >> /\ WritesOk(s) /\ \E i \in DOMAIN s : s[i].p = k
  <2>1. s \in Seq(WriteType) /\ Len(s) = 1 /\ s[1] = w /\ 1 \in DOMAIN s
    BY <1>1
  <2>. QED BY <1>1, <2>1 DEF WritesOk
<1>2. ASSUME NEW a \in WriteType, NEW b \in WriteType, s = <<a, b>>, a.p = k \/ b.p = k, a.v.n = b.v.n,
             Entry[a.p].gen = "pair", Entry[a.p].pairOf = b.p, Entry[b.p].gen = "cert"
      PROVE s \in Seq(WriteType) /\ s # << >> /\ WritesOk(s) /\ \E i \in DOMAIN s : s[i].p = k
  <2>1. s \in Seq(WriteType) /\ Len(s) = 2 /\ s[1] = a /\ s[2] = b /\ 1 \in DOMAIN s /\ 2 \in DOMAIN s
    BY <1>2
  <2>. QED BY <1>2, <2>1 DEF WritesOk
<1>3. CASE SingleWrite(k, n, s)
  <2>1. PICK what \in {"value", "cert"} : s = <<[p |-> k, v |-> [what |-> what, n |-> n]]>>
    BY <1>3 DEF SingleWrite
  <2>2. Entry[k].gen \in {"cert", "random"}
    BY <1>3 DEF SingleWrite
  <2>. QED BY <1>0, <1>1, <2>1, <2>2
<1>4. CASE CertWrite(k, s)
  <2>1. Number(PairKey(k)) \in Nat
    BY <1>4, KeysArePaths, LastStored DEF CertWrite, Number
  <2>2. s = <<[p |-> k, v |-> [what |-> "cert", n |-> Number(PairKey(k))]]>> /\ Entry[k].gen = "cert"
    BY <1>4 DEF CertWrite, CertPem
  <2>. QED BY <1>0, <1>1, <2>1, <2>2
<1>5. CASE DoubleWrite(k, n, s)
  <2>1. PICK q, c \in Keys : /\ Entry[q].gen = "pair" /\ Entry[q].pairOf = c /\ Entry[c].gen = "cert"
                             /\ k = q \/ k = c
                             /\ s = <<[p |-> q, v |-> KeyPem(n)], [p |-> c, v |-> CertPem(n)]>>
    BY <1>5 DEF DoubleWrite
  <2>2. [p |-> q, v |-> KeyPem(n)] \in WriteType /\ [p |-> c, v |-> CertPem(n)] \in WriteType
    BY <1>0 DEF KeyPem, CertPem
  <2>. QED BY <1>2, <2>1, <2>2 DEF KeyPem, CertPem
<1>. QED BY <1>3, <1>4, <1>5, GeneratedForms

(***************************************************************************)
(* The types of the handlers and of the broker.                            *)
(***************************************************************************)
LEMMA OneKind ==
  ASSUME StoresTyped,
         NEW p \in {"mint", "nix", "import", "nats"}, NEW q \in {"mint", "nix", "import", "nats"},
         Plays(p), Plays(q)
  PROVE p = q
  BY ScenesAssumption DEF StoresTyped, Plays

(* A scene that reconciles has neither Nix keys nor import sets. *)
LEMMA BootKind ==
  ASSUME StoresTyped
  PROVE /\ Plays("crash") => Plays("boot")
        /\ Plays("boot") => ~Plays("nix") /\ ~Plays("import")
  BY ScenesAssumption DEF StoresTyped, Plays

LEMMA SetIs ==
  ASSUME JobsTyped, NEW c \in Jobs, NEW j, Set(c, j)
  PROVE job'[c] = j
<1>1. DOMAIN job = Jobs
  BY JobsKnown
<1>. QED BY <1>1 DEF Set

(* What a handler holds keeps its type at every operation. *)
LEMMA DataSame ==
  ASSUME scene' = scene, NEW d \in Jobs, SameJob(d), JobData(job[d])
  PROVE JobData(job[d])'
  BY DEF SameJob, JobData, Plays, Active

LEMMA RotateData ==
  ASSUME CustodyTypeOK, NEW d \in Jobs, RotateMove(d), job'[d].op = "rotate"
  PROVE JobData(job[d])'
<1>0. StoresTyped /\ JobsTyped
  BY DEF CustodyTypeOK
<1>1. ASSUME NEW k \in Keys, RotatePost(d, k) PROVE JobData(job[d])'
  <2>1. job'[d] = [IdleJob EXCEPT !.op = "rotate", !.k = k, !.at = "read"]
    BY <1>0, <1>1, SetIs DEF RotatePost
  <2>2. job'[d].k = k /\ job'[d].n = 0
    BY <2>1 DEF IdleJob
  <2>3. ~Entry[k].nix
    BY <1>1 DEF RotatePost, Rotatable
  <2>. QED BY <2>2, <2>3 DEF JobData
<1>2. CASE RotateRead(d)
  <2>1. job'[d] = [job[d] EXCEPT !.at = "floor", !.n = Latest(job[d].k)]
    BY <1>0, <1>2, SetIs DEF RotateRead
  <2>2. job'[d].k = job[d].k /\ job'[d].n = Latest(job[d].k)
    BY <1>0, <2>1, JobsKnown DEF JobShape, JobFields
  <2>3. job[d].k \in Keys /\ ~Entry[job[d].k].nix
    BY <1>0, <1>2 DEF RotateRead, At, JobsTyped, JobData
  <2>4. Latest(job[d].k) \in Nat
    BY <1>0, <2>3, TransitFields
  <2>. QED BY <2>2, <2>3, <2>4 DEF JobData
<1>. QED BY <1>1, <1>2 DEF RotateMove

LEMMA SweepData ==
  ASSUME CustodyTypeOK, NEW d \in Jobs, SweepMove(d), job'[d].op = "sweep"
  PROVE JobData(job[d])'
<1>0. StoresTyped /\ JobsTyped
  BY DEF CustodyTypeOK
<1>1. job'[d].k \in Keys => job'[d].n \in Nat
  <2>1. CASE SweepFloor(d)
    <3>. DEFINE j == IF /\ Supports(job[d].k, "configure")
                        /\ ConfigOk(job[d].k, tk[job[d].k].dec, RetentionFloor(job[d].n))
                        /\ job[d].ws # << >>
                     THEN [job[d] EXCEPT !.at = "next"] ELSE IdleJob
    <3>1. job'[d] = j
      BY <1>0, <2>1, SetIs DEF SweepFloor
    <3>2. job'[d].k = job[d].k /\ job'[d].n = job[d].n
      BY <1>0, <3>1, JobsKnown, IdleShape DEF JobShape, JobFields
    <3>3. job[d].k \in Keys => job[d].n \in Nat
      BY <1>0, <2>1 DEF SweepFloor, At, JobsTyped, JobData
    <3>. QED BY <3>2, <3>3
  <2>2. CASE SweepRead(d)
    <3>1. ASSUME NEW k, NEW j, HasTk(k) => j.k = k /\ j.n = Latest(k),
                 job'[d] = IF HasTk(k) THEN j ELSE IdleJob
          PROVE job'[d].k \in Keys => job'[d].n \in Nat
      BY <1>0, <3>1, IdleShape, TransitFields
    <3>2. [IdleJob EXCEPT !.op = "sweep", !.at = "floor", !.k = Sweepable[1],
                          !.n = Latest(Sweepable[1]), !.ws = Tail(Sweepable)].k = Sweepable[1]
          /\ [IdleJob EXCEPT !.op = "sweep", !.at = "floor", !.k = Sweepable[1],
                             !.n = Latest(Sweepable[1]), !.ws = Tail(Sweepable)].n = Latest(Sweepable[1])
      BY DEF IdleJob
    <3>3. [job[d] EXCEPT !.at = "floor", !.k = job[d].ws[1], !.n = Latest(job[d].ws[1]), !.ws = Tail(@)].k
             = job[d].ws[1]
          /\ [job[d] EXCEPT !.at = "floor", !.k = job[d].ws[1], !.n = Latest(job[d].ws[1]), !.ws = Tail(@)].n
             = Latest(job[d].ws[1])
      BY <1>0, JobsKnown DEF JobShape, JobFields
    <3>4. \/ Set(d, IF HasTk(Sweepable[1])
                    THEN [IdleJob EXCEPT !.op = "sweep", !.at = "floor", !.k = Sweepable[1],
                                         !.n = Latest(Sweepable[1]), !.ws = Tail(Sweepable)]
                    ELSE IdleJob)
          \/ Set(d, IF HasTk(job[d].ws[1])
                    THEN [job[d] EXCEPT !.at = "floor", !.k = job[d].ws[1],
                                        !.n = Latest(job[d].ws[1]), !.ws = Tail(@)]
                    ELSE IdleJob)
      BY <2>2 DEF SweepRead
    <3>. QED BY <1>0, <3>1, <3>2, <3>3, <3>4, SetIs
  <2>. QED BY <2>1, <2>2 DEF SweepMove
<1>. QED BY <1>1 DEF JobData

LEMMA MintData ==
  ASSUME CustodyTypeOK, scene' = scene, NEW d \in Jobs, MintMove(d), job'[d].op = "mint"
  PROVE JobData(job[d])'
<1>0. StoresTyped /\ JobsTyped
  BY DEF CustodyTypeOK
<1>1. PICK k \in Keys : MintRead(d, k)
  BY DEF MintMove
<1>2. job'[d] = [IdleJob EXCEPT !.op = "mint", !.k = k, !.at = "sign", !.n = Last(tk[k].mat)]
  BY <1>0, <1>1, SetIs DEF MintRead
<1>3. job'[d].k = k /\ job'[d].n = Last(tk[k].mat)
  BY <1>2 DEF IdleJob
<1>4. HasTk(k)
  BY <1>1 DEF MintRead, JwtReply, Either, Refuse
<1>5. Last(tk[k].mat) \in Nat /\ Plays("mint")'
  BY <1>0, <1>1, <1>4, TransitFields DEF MintRead, Plays
<1>. QED BY <1>3, <1>5 DEF JobData

LEMMA NatsData ==
  ASSUME CustodyTypeOK, scene' = scene, NEW d \in Jobs, NatsMove(d), job'[d].op = "nats"
  PROVE JobData(job[d])'
<1>0. StoresTyped /\ JobsTyped
  BY DEF CustodyTypeOK
<1>1. PICK k \in Keys : NatsMint(d, k) \/ NatsSign(d, k)
  BY DEF NatsMove
<1>2. NatsKey(d, k) /\ \E jwt : NatsRead(d, k, jwt)
  BY <1>1 DEF NatsMint, NatsSign
<1>3. PICK jwt : Set(d, [IdleJob EXCEPT !.op = "nats", !.k = k, !.at = "sign", !.n = Latest(k), !.ws = <<jwt>>])
  BY <1>2 DEF NatsRead
<1>4. job'[d] = [IdleJob EXCEPT !.op = "nats", !.k = k, !.at = "sign", !.n = Latest(k), !.ws = <<jwt>>]
  BY <1>0, <1>3, SetIs
<1>5. job'[d].k = k /\ job'[d].n = Latest(k)
  BY <1>4 DEF IdleJob
<1>6. Latest(k) \in Nat /\ Plays("nats")'
  BY <1>0, <1>2, TransitFields DEF NatsKey, Plays
<1>. QED BY <1>5, <1>6 DEF JobData

LEMMA SealData ==
  ASSUME CustodyTypeOK, NEW d \in Jobs, SealMove(d), job'[d].op = "seal"
  PROVE JobData(job[d])'
<1>0. StoresTyped /\ JobsTyped
  BY DEF CustodyTypeOK
<1>1. PICK k \in Keys : SealSeed(d, k)
  BY DEF SealMove
<1>. DEFINE r == CustodyRecord(k, serial + 1, Latest(Entry[k].storage))
<1>2. job'[d] = [IdleJob EXCEPT !.op = "seal", !.k = k, !.at = "store", !.n = serial + 1, !.ws = <<r>>]
  BY <1>0, <1>1, SetIs DEF SealSeed
<1>3. job'[d].k = k /\ job'[d].ws[1] = r
  <2>. HIDE DEF r
  <2>. QED BY <1>2 DEF IdleJob
<1>4. Entry[k].class \in {"asym", "sealing"} /\ Entry[k].storage \in Keys
  BY <1>1 DEF SealSeed, RequireClass
<1>5. serial + 1 \in Nat /\ Latest(Entry[k].storage) \in Nat
  BY <1>0, <1>4, TransitFields DEF StoresTyped
<1>6. \E n, w \in Nat : job'[d].ws[1] = CustodyRecord(k, n, w)
  BY <1>3, <1>5
<1>. QED BY <1>3, <1>4, <1>6 DEF JobData

LEMMA ImportData ==
  ASSUME CustodyTypeOK, scene' = scene, NEW d \in Jobs, ImportMove(d), job'[d].op = "import"
  PROVE JobData(job[d])'
<1>0. StoresTyped /\ JobsTyped
  BY DEF CustodyTypeOK
<1>1. ASSUME NEW set \in {<<a, b>> : a, b \in Active}, ImportSet(d, set) PROVE JobData(job[d])'
  <2>1. PICK a, b \in Active : set = <<a, b>>
    OBVIOUS
  <2>2. set \in Seq(Keys) /\ set # << >>
    BY <1>0, <2>1, ActiveKeys
  <2>3. job'[d] = [IdleJob EXCEPT !.op = "import", !.at = "next", !.ws = set]
    BY <1>0, <1>1, SetIs DEF ImportSet
  <2>4. job'[d].ws = set
    BY <2>3 DEF IdleJob
  <2>5. Plays("import")'
    BY <1>1 DEF ImportSet, Plays
  <2>. QED BY <2>2, <2>4, <2>5 DEF JobData
<1>2. CASE ImportNext(d)
  <2>. DEFINE j == IF ImportOk(job[d].ws[1]) /\ ~HasTk(job[d].ws[1]) /\ Len(job[d].ws) > 1
                   THEN [job[d] EXCEPT !.ws = Tail(@)] ELSE IdleJob
  <2>1. job'[d] = j
    BY <1>0, <1>2, SetIs DEF ImportNext
  <2>2. Len(job[d].ws) > 1 /\ job'[d].ws = Tail(job[d].ws)
    BY <1>0, <2>1, JobsKnown, IdleShape DEF JobShape, JobFields
  <2>3. job[d].ws \in Seq(Keys) /\ Plays("import")
    BY <1>0, <1>2 DEF ImportNext, At, JobsTyped, JobData
  <2>4. Tail(job[d].ws) \in Seq(Keys) /\ Tail(job[d].ws) # << >>
    BY <2>2, <2>3
  <2>. QED BY <2>2, <2>3, <2>4 DEF JobData, Plays
<1>. QED BY <1>1, <1>2 DEF ImportMove

(* Sequences: the first element, the rest and the last one. *)
LEMMA SeqCut ==
  ASSUME NEW S, NEW s \in Seq(S), s # << >>
  PROVE /\ Len(s) \in Nat \ {0} /\ s[1] \in S /\ Tail(s) \in Seq(S) /\ Len(Tail(s)) = Len(s) - 1
        /\ Len(s) # 1 => Len(s) > 1
        /\ Last(s) \in S
<1>1. Len(s) \in Nat \ {0}
  OBVIOUS
<1>2. s[1] \in S /\ Last(s) \in S
  BY <1>1 DEF Last
<1>3. Tail(s) \in Seq(S) /\ Len(Tail(s)) = Len(s) - 1
  BY <1>1
<1>. QED BY <1>1, <1>2, <1>3

LEMMA NixKeeps ==
  ASSUME CustodyTypeOK, scene' = scene, NEW d \in Jobs, job[d].op \in {"enroll", "nixsign"},
         job'[d].op \in {"enroll", "nixsign"}, job'[d].k = job[d].k, job'[d].id = job[d].id,
         job'[d].n \in Nat
  PROVE JobData(job[d])'
<1>1. /\ job[d].k \in Active /\ Plays("nix") /\ NixRoute(job[d].k)
      /\ (job[d].id.state = "pending" => job[d].id.pin = 0) /\ job[d].id.state # "none"
  BY DEF CustodyTypeOK, JobsTyped, JobData
<1>2. job[d].k \in Active' /\ Plays("nix")'
  BY <1>1 DEF Active, Plays
<1>. QED BY <1>1, <1>2 DEF JobData

LEMMA NixStartData ==
  ASSUME CustodyTypeOK, scene' = scene, NEW d \in Jobs, NEW k \in Keys,
         NEW op \in {"enroll", "nixsign"}, NixStart(d, k, op)
  PROVE JobData(job[d])'
<1>0. JobsTyped
  BY DEF CustodyTypeOK
<1>1. job'[d] = [IdleJob EXCEPT !.op = op, !.k = k, !.at = "first", !.id = ident]
  BY <1>0, SetIs DEF NixStart
<1>2. job'[d].op = op /\ job'[d].k = k /\ job'[d].id = ident /\ job'[d].n = 0
  BY <1>1 DEF IdleJob
<1>3. k \in Active' /\ Plays("nix")' /\ NixRoute(k)
  BY DEF NixStart, Active, Plays
<1>4. (ident.state = "pending" => ident.pin = 0) /\ ident.state # "none"
  BY DEF CustodyTypeOK, BrokerTyped
<1>. QED BY <1>2, <1>3, <1>4 DEF JobData

LEMMA EnrollData ==
  ASSUME CustodyTypeOK, scene' = scene, NEW d \in Jobs, EnrollMove(d), job'[d].op = "enroll"
  PROVE JobData(job[d])'
<1>0. StoresTyped /\ JobsTyped /\ JobShape(job[d])
  BY JobsKnown DEF CustodyTypeOK
<1>1. CASE EnrollRead(d)
  <2>. DEFINE j == IF HasTk(job[d].k)
                   THEN [job[d] EXCEPT !.at = "judge", !.n = 0, !.post = tk[job[d].k]]
                   ELSE IF job[d].id.state = "pending" THEN [job[d] EXCEPT !.at = "create"] ELSE IdleJob
  <2>1. Set(d, j)
    BY <1>1 DEF EnrollRead
  <2>2. job'[d] = j
    BY <1>0, <2>1, SetIs
  <2>3. job[d].op = "enroll"
    BY <1>1 DEF EnrollRead, At
  <2>4. job'[d].k = job[d].k /\ job'[d].id = job[d].id /\ job'[d].n \in {0, job[d].n}
    BY <1>0, <2>2, IdleShape DEF JobShape, JobFields
  <2>. QED BY <2>3, <2>4, NixKeeps, NixJobs
<1>2. CASE EnrollCreate(d)
  <2>2. job'[d] = [job[d] EXCEPT !.at = "reread"]
    BY <1>0, <1>2, SetIs DEF EnrollCreate
  <2>3. job[d].op = "enroll"
    BY <1>2 DEF EnrollCreate, At
  <2>4. job'[d].k = job[d].k /\ job'[d].id = job[d].id /\ job'[d].n = job[d].n
    BY <1>0, <2>2 DEF JobShape, JobFields
  <2>. QED BY <2>3, <2>4, NixKeeps, NixJobs
<1>3. CASE EnrollReread(d)
  <2>2. job'[d] = [job[d] EXCEPT !.at = "judge", !.n = 1, !.post = tk[job[d].k]]
    BY <1>0, <1>3, SetIs DEF EnrollReread
  <2>3. job[d].op = "enroll"
    BY <1>3 DEF EnrollReread, At
  <2>4. job'[d].k = job[d].k /\ job'[d].id = job[d].id /\ job'[d].n = 1
    BY <1>0, <2>2 DEF JobShape, JobFields
  <2>. QED BY <2>3, <2>4, NixKeeps, NixJobs
<1>. QED BY <1>1, <1>2, <1>3, NixStartData DEF EnrollMove

LEMMA NixSignData ==
  ASSUME CustodyTypeOK, scene' = scene, NEW d \in Jobs, NixSignMove(d), job'[d].op = "nixsign"
  PROVE JobData(job[d])'
<1>0. StoresTyped /\ JobsTyped /\ JobShape(job[d])
  BY JobsKnown DEF CustodyTypeOK
<1>1. CASE SignBefore(d)
  <2>. DEFINE j == IF PostureFits(d) THEN [job[d] EXCEPT !.at = "sign", !.post = tk[job[d].k]] ELSE IdleJob
  <2>2. job'[d] = j
    BY <1>0, <1>1, SetIs DEF SignBefore
  <2>3. job[d].op = "nixsign"
    BY <1>1 DEF SignBefore, At
  <2>4. job'[d].k = job[d].k /\ job'[d].id = job[d].id /\ job'[d].n = job[d].n
    BY <1>0, <2>2, IdleShape DEF JobShape, JobFields
  <2>. QED BY <2>3, <2>4, NixKeeps, NixJobs
<1>2. CASE SignCall(d)
  <2>. DEFINE j == IF HasTk(job[d].k)
                   THEN [job[d] EXCEPT !.at = "after", !.n = tk[job[d].k].mat[1]] ELSE IdleJob
  <2>2. job'[d] = j
    BY <1>0, <1>2, SetIs DEF SignCall
  <2>3. job[d].op = "nixsign"
    BY <1>2 DEF SignCall, At
  <2>4. job'[d].k = job[d].k /\ job'[d].id = job[d].id /\ job'[d].n = tk[job[d].k].mat[1] /\ HasTk(job[d].k)
    BY <1>0, <2>2, IdleShape DEF JobShape, JobFields
  <2>5. tk[job[d].k].mat[1] \in Nat
    BY <1>0, <2>3, <2>4, NixJobs, TransitFields
  <2>. QED BY <2>3, <2>4, <2>5, NixKeeps
<1>. QED BY <1>1, <1>2, NixStartData DEF NixSignMove

(* A writer's remaining writes after one of them. *)
LEMMA PutWrites ==
  ASSUME CustodyTypeOK, NEW d \in Jobs, Put(d), job'[d].op # "idle"
  PROVE /\ job'[d].ws \in Seq(WriteType) /\ job'[d].op = job[d].op /\ job[d].ws \in Seq(WriteType)
        /\ Len(job[d].ws) # 1 => job'[d].ws = Tail(job[d].ws) /\ job'[d].n = job[d].n /\ Len(job[d].ws) > 1
        /\ Len(job[d].ws) = 1 => d = Boot /\ job'[d].ws = << >> /\ job'[d].n = job[d].n + 1
<1>0. JobsTyped /\ JobShape(job[d])
  BY JobsKnown DEF CustodyTypeOK
<1>1. job[d].ws \in Seq(WriteType) /\ job[d].ws # << >>
  BY <1>0 DEF Put, Writing, JobsTyped, JobData
<1>. DEFINE j == IF Len(job[d].ws) # 1 THEN [job[d] EXCEPT !.ws = Tail(@), !.half = TRUE]
                 ELSE IF d = Boot
                 THEN [job[d] EXCEPT !.ws = << >>, !.at = "probe", !.n = @ + 1, !.half = FALSE]
                 ELSE IdleJob
<1>2. job'[d] = j
  BY <1>0, SetIs DEF Put
<1>3. CASE Len(job[d].ws) # 1
  <2>1. job'[d].ws = Tail(job[d].ws) /\ job'[d].n = job[d].n /\ job'[d].op = job[d].op
    BY <1>0, <1>2, <1>3 DEF JobShape, JobFields
  <2>2. Len(job[d].ws) > 1 /\ Tail(job[d].ws) \in Seq(WriteType)
    BY <1>1, <1>3, SeqCut
  <2>. QED BY <1>1, <1>3, <2>1, <2>2, Zenon
<1>4. CASE Len(job[d].ws) = 1
  <2>1. d = Boot
    BY <1>2, <1>4, IdleShape
  <2>2. job'[d].ws = << >> /\ job'[d].n = job[d].n + 1 /\ job'[d].op = job[d].op
    BY <1>0, <1>2, <1>4, <2>1 DEF JobShape, JobFields
  <2>. QED BY <1>1, <1>4, <2>1, <2>2
<1>. QED BY <1>3, <1>4

LEMMA ValueData ==
  ASSUME CustodyTypeOK, scene' = scene, NEW d \in Jobs, ValueMove(d), job'[d].op = "value"
  PROVE JobData(job[d])'
<1>0. StoresTyped /\ JobsTyped /\ JobShape(job[d]) /\ serial + 1 \in Nat
  BY JobsKnown DEF CustodyTypeOK, StoresTyped
<1>1. ASSUME NEW k \in Keys, RotateValue(d, k) PROVE JobData(job[d])'
  <2>. DEFINE j == [IdleJob EXCEPT !.op = "value", !.k = k, !.at = "put",
                                   !.ws = GeneratedWrites(k, serial + 1)]
  <2>1. Begin(d, j) /\ CanGenerate(k)
    BY <1>1 DEF RotateValue
  <2>2. JobShape(j) /\ j.ws = GeneratedWrites(k, serial + 1)
    BY IdleShape DEF JobShape, JobFields
  <2>3. job'[d].ws = GeneratedWrites(k, serial + 1)
    BY <1>0, <2>1, <2>2, BeginEffect
  <2>. QED BY <1>0, <2>1, <2>3, GeneratedTyped DEF JobData
<1>2. CASE Put(d)
  BY <1>2, PutWrites DEF JobData
<1>. QED BY <1>1, <1>2 DEF ValueMove

LEMMA BootData ==
  ASSUME CustodyTypeOK, scene' = scene, NEW d \in Jobs, BootMove(d), job'[d].op = "boot"
  PROVE JobData(job[d])'
<1>0. StoresTyped /\ JobsTyped /\ JobShape(job[Boot]) /\ serial + 1 \in Nat /\ d = Boot /\ Boot \in Jobs
  BY JobsKnown, BootIsAJob DEF CustodyTypeOK, StoresTyped, BootMove
<1>1. ASSUME job[Boot].op = "boot"
      PROVE job[Boot].ws \in Seq(WriteType) /\ job[Boot].n \in Nat \ {0} /\ Plays("boot")'
  BY <1>0, <1>1 DEF JobsTyped, JobData, Plays
<1>2. CASE BootProbe
  <2>. DEFINE k == order[job[Boot].n]
              next == [job[Boot] EXCEPT !.n = @ + 1]
              miss == [next EXCEPT !.k = k]
              put == [job[Boot] EXCEPT !.at = "put", !.ws = GeneratedWrites(k, serial + 1)]
  <2>0. job[Boot].op = "boot"
    BY <1>2 DEF BootProbe, At
  <2>1. JobShape(next) /\ next.ws = job[Boot].ws /\ next.n = job[Boot].n + 1
    BY <1>0 DEF JobShape, JobFields
  <2>2. miss.ws = job[Boot].ws /\ miss.n = job[Boot].n + 1
    BY <2>1 DEF JobShape, JobFields
  <2>3. JobShape(put) /\ put.ws = GeneratedWrites(k, serial + 1) /\ put.n = job[Boot].n
    BY <1>0 DEF JobShape, JobFields
  <2>4. \/ Set(Boot, next) \/ Set(Boot, miss) \/ Set(Boot, IdleJob)
        \/ Begin(Boot, put) /\ k \in Active /\ GenerateOk(k) /\ Entry[k].class \notin {"asym", "sym"}
    BY <1>2 DEF BootProbe
  <2>5. CASE Set(Boot, next) \/ Set(Boot, miss)
    <3>1. job'[Boot] = next \/ job'[Boot] = miss
      BY <1>0, <2>5, SetIs
    <3>2. job'[Boot].ws = job[Boot].ws /\ job'[Boot].n = job[Boot].n + 1
      BY <2>1, <2>2, <3>1
    <3>. QED BY <1>0, <1>1, <2>0, <3>2 DEF JobData
  <2>6. CASE Set(Boot, IdleJob)
    BY <1>0, <2>6, SetIs, IdleShape
  <2>7. CASE Begin(Boot, put) /\ k \in Active /\ GenerateOk(k) /\ Entry[k].class \notin {"asym", "sym"}
    <3>1. job'[Boot].ws = GeneratedWrites(k, serial + 1) /\ job'[Boot].n = job[Boot].n
      BY <1>0, <2>3, <2>7, BeginEffect
    <3>2. CanGenerate(k) /\ k \in Keys
      BY <1>0, <2>7, ActiveKeys DEF GenerateOk
    <3>3. GeneratedWrites(k, serial + 1) \in Seq(WriteType)
      BY <1>0, <3>2, GeneratedTyped
    <3>. QED BY <1>0, <1>1, <2>0, <3>1, <3>3 DEF JobData
  <2>. QED BY <2>4, <2>5, <2>6, <2>7
<1>3. CASE Put(d)
  <2>1. job'[d].op = job[d].op /\ job'[d].ws \in Seq(WriteType) /\ job'[d].n \in {job[d].n, job[d].n + 1}
    BY <1>3, PutWrites
  <2>. QED BY <1>0, <1>1, <2>1 DEF JobData
<1>4. CASE Crash
  <2>1. job'[d] = BootJob
    BY <1>0, <1>4 DEF Crash
  <2>2. job'[d].ws = << >> /\ job'[d].n = 1
    BY <2>1 DEF BootJob, IdleJob
  <2>3. Plays("boot")'
    BY <1>0, <1>4, BootKind DEF Crash, Plays
  <2>. QED BY <2>2, <2>3 DEF JobData
<1>. QED BY <1>2, <1>3, <1>4 DEF BootMove

(* Every step keeps the types of the handlers, of the stores and of the    *)
(* broker.                                                                 *)
LEMMA JobsStay ==
  ASSUME CustodyTypeOK, [CustodyNext]_custodyVars
  PROVE JobsTyped'
<1>1. Moves /\ scene' = scene
  BY CustodyMoves, CustodyFrame DEF Framed
<1>2. ASSUME NEW d \in Jobs PROVE JobData(job[d])'
  <2>1. MovesTo(d) /\ job'[d].op \in OpNames
    BY <1>1 DEF Moves, MovesTo, OpNames
  <2>2. CASE SameJob(d)
    <3>1. JobData(job[d])
      BY DEF CustodyTypeOK, JobsTyped
    <3>. QED BY <1>1, <2>2, <3>1, DataSame
  <2>3. CASE job'[d].op = "idle"
    BY <2>3 DEF JobData
  <2>4. CASE job'[d].op \in {"rotate", "sweep", "mint", "seal"} /\ ~SameJob(d)
    BY <1>1, <2>1, <2>4, RotateData, SweepData, MintData, SealData DEF MovesTo
  <2>5. CASE job'[d].op \in {"enroll", "nixsign", "import", "nats"} /\ ~SameJob(d)
    BY <1>1, <2>1, <2>5, EnrollData, NixSignData, ImportData, NatsData DEF MovesTo
  <2>6. CASE job'[d].op \in {"value", "boot"} /\ ~SameJob(d)
    BY <1>1, <2>1, <2>6, ValueData, BootData DEF MovesTo
  <2>. QED BY <2>1, <2>2, <2>3, <2>4, <2>5, <2>6 DEF OpNames
<1>3. DOMAIN job' = Jobs /\ \A d \in Jobs : JobShape(job'[d]) /\ JobPlace(d)'
  BY <1>1 DEF Moves, MovesTo, JobPlace
<1>. QED BY <1>2, <1>3 DEF JobsTyped

LEMMA StoresStay ==
  ASSUME CustodyTypeOK, [CustodyNext]_custodyVars
  PROVE StoresTyped'
<1>0. StoresTyped /\ BrokerTyped
  BY DEF CustodyTypeOK
<1>1. scene' \in DOMAIN Scenes /\ order' \in Orders
  BY <1>0, CustodyFrame DEF Framed, StoresTyped
<1>2. serial' \in Nat /\ spent' \in SpentType
  BY <1>0, CustodyCounters DEF Counted, StoresTyped
<1>3. tk' \in [Keys -> TransitType]
  <2>1. CASE tk' = tk
    BY <1>0, <2>1 DEF StoresTyped
  <2>. QED BY <1>0, <2>1, TransitWrites, TransitTyped
<1>4. kv' \in [Paths -> Seq(StoredType)]
  <2>1. CASE kv' = kv
    BY <1>0, <2>1 DEF StoresTyped
  <2>2. ASSUME NEW p \in Keys, NEW v \in StoredType, Writes(p, v) PROVE kv' \in [Paths -> Seq(StoredType)]
    BY <1>0, <2>2, WriteEffect
  <2>. QED BY <2>1, <2>2, StoreWrites
<1>. QED BY <1>1, <1>2, <1>3, <1>4 DEF StoresTyped

(* A writer has typed writes left. *)
LEMMA LastWrite ==
  ASSUME JobsTyped, NEW c \in Jobs, Writing(c)
  PROVE /\ job[c].ws \in Seq(WriteType) /\ job[c].ws # << >>
        /\ job[c].ws[1] \in WriteType /\ job[c].ws[1].p \in Keys
        /\ Last(job[c].ws) \in WriteType /\ LastPath(c) \in Keys
<1>1. job[c].ws \in Seq(WriteType) /\ job[c].ws # << >>
  BY DEF Writing, JobsTyped, JobData
<1>2. job[c].ws[1] \in WriteType /\ Last(job[c].ws) \in WriteType
  BY <1>1, SeqCut
<1>. QED BY <1>1, <1>2 DEF WriteType, LastPath

LEMMA TornTyped ==
  ASSUME CustodyTypeOK, [CustodyNext]_custodyVars
  PROVE torn' \subseteq Keys
<1>0. JobsTyped /\ torn \subseteq Keys /\ Clients \subseteq Jobs /\ Boot \in Jobs
  BY BootIsAJob DEF CustodyTypeOK, BrokerTyped
<1>1. ASSUME NEW c \in Jobs, Put(c) PROVE torn' \subseteq Keys
  <2>1. job[c].ws[1].p \in Keys
    BY <1>0, <1>1, LastWrite DEF Put
  <2>. QED BY <1>0, <1>1, <2>1 DEF Put
<1>2. ASSUME NEW c \in Clients, Drop(c) PROVE torn' \subseteq Keys
  <2>1. HalfWritten(c) => LastPath(c) \in Keys
    BY <1>0, LastWrite DEF HalfWritten
  <2>. QED BY <1>0, <1>2, <2>1 DEF Drop
<1>3. CASE Crash
  <2>1. \A c \in Jobs : HalfWritten(c) => LastPath(c) \in Keys
    BY <1>0, LastWrite DEF HalfWritten
  <2>. QED BY <1>0, <1>3, <2>1 DEF Crash
<1>4. ASSUME NEW c \in Clients, NEW k \in Keys, SetValue(c, k) PROVE torn' \subseteq Keys
  BY <1>0, <1>4 DEF SetValue, CertOf
<1>5. torn' = torn \/ TornStep
  BY CustodyFrame DEF Framed
<1>. QED BY <1>0, <1>1, <1>2, <1>3, <1>4, <1>5 DEF TornStep

(* The reply of an enrollment, and of a signature. *)
EnrollReply(c) ==
  [c |-> c, n |-> spent.starts, new |-> job[c].n = 1, pub |-> job[c].post.mat[1],
   pin |-> job[c].id.pin, sig |-> 0]
SignatureReply(c) ==
  [c |-> c, n |-> spent.starts, new |-> FALSE, pub |-> job[c].id.pin, pin |-> job[c].id.pin,
   sig |-> job[c].n]
Enrolled(c) ==
  /\ answers' = answers \cup {EnrollReply(c)} /\ EnrollJudge(c) /\ job[c].op = "enroll"
  /\ Len(job[c].post.mat) = 1 /\ job[c].post.flags = {}
  /\ job[c].id.state = "enrolled" => job[c].id.pin = job[c].post.mat[1]
Signed(c) ==
  answers' = answers \cup {SignatureReply(c)} /\ job[c].op = "nixsign" /\ SignAfter(c)
  /\ job[c].n = job[c].id.pin /\ PostureFits(c) /\ tk[job[c].k] = job[c].post

(* In a scene with Nix keys the only new answers are those of an           *)
(* enrollment whose key passed the judgement and of a signature that       *)
(* verified.                                                               *)
LEMMA NixAnswers ==
  ASSUME CustodyTypeOK, [CustodyNext]_custodyVars, Plays("nix")
  PROVE answers' = answers \/ \E c \in Clients : Enrolled(c) \/ Signed(c)
<1>0. StoresTyped /\ JobsTyped /\ Clients \subseteq Jobs
  BY BootIsAJob DEF CustodyTypeOK
<1>1. ~Plays("mint") /\ ~Plays("import") /\ ~Plays("nats")
  BY <1>0, OneKind
<1>2. CASE Clock
  BY <1>1, <1>2 DEF Clock
<1>3. ASSUME NEW c \in Clients, MintSign(c) PROVE FALSE
  <2>1. job[c].op = "mint"
    BY <1>3 DEF MintSign, At
  <2>. QED BY <1>0, <1>1, <2>1 DEF JobsTyped, JobData
<1>4. ASSUME NEW c \in Clients, NatsFinish(c) PROVE FALSE
  <2>1. job[c].op = "nats"
    BY <1>4 DEF NatsFinish, At
  <2>. QED BY <1>0, <1>1, <2>1 DEF JobsTyped, JobData
<1>5. ASSUME NEW c \in Clients, NEW set \in {<<a, b>> : a, b \in Active}, ImportSet(c, set) PROVE FALSE
  BY <1>1, <1>5 DEF ImportSet
<1>6. ASSUME NEW c \in Clients, EnrollJudge(c) PROVE answers' = answers \/ Enrolled(c)
  <2>. DEFINE ok == /\ Len(job[c].post.mat) = 1 /\ job[c].post.flags = {}
                    /\ job[c].id.state = "enrolled" => job[c].id.pin = job[c].post.mat[1]
  <2>1. answers' = IF ok THEN answers \cup {EnrollReply(c)} ELSE answers
    BY <1>6 DEF EnrollJudge, EnrollReply
  <2>2. job[c].op = "enroll"
    BY <1>6 DEF EnrollJudge, At
  <2>. QED BY <1>6, <2>1, <2>2 DEF Enrolled
<1>7. ASSUME NEW c \in Clients, SignAfter(c) PROVE answers' = answers \/ Signed(c)
  <2>1. answers' = IF PostureFits(c) /\ tk[job[c].k] = job[c].post /\ Verifies(c)
                   THEN answers \cup {SignatureReply(c)} ELSE answers
    BY <1>7 DEF SignAfter, SignatureReply
  <2>2. job[c].op = "nixsign"
    BY <1>7 DEF SignAfter, At
  <2>. QED BY <1>7, <2>1, <2>2 DEF Signed, Verifies
<1>. QED BY <1>2, <1>3, <1>4, <1>5, <1>6, <1>7, CustodyFrame DEF Framed, AnswerStep

LEMMA NixReplyTyped ==
  ASSUME CustodyTypeOK, NEW c \in Clients
  PROVE /\ Enrolled(c) => EnrollReply(c) \in NixAnswer
        /\ Signed(c) => SignatureReply(c) \in NixAnswer
<1>0. StoresTyped /\ JobsTyped /\ c \in Jobs /\ JobShape(job[c])
  BY BootIsAJob, JobsKnown DEF CustodyTypeOK
<1>1. spent.starts \in Nat /\ job[c].id.pin \in Nat /\ job[c].post.mat \in Seq(Nat)
  BY <1>0 DEF StoresTyped, SpentType, JobShape, IdentityType, TransitType
<1>2. ASSUME Enrolled(c) PROVE EnrollReply(c) \in NixAnswer
  <2>1. job[c].post.mat[1] \in Nat
    BY <1>1, <1>2 DEF Enrolled
  <2>. QED BY <1>1, <2>1 DEF EnrollReply, NixAnswer
<1>3. ASSUME Signed(c) PROVE SignatureReply(c) \in NixAnswer
  <2>1. job[c].n \in Nat
    BY <1>0, <1>3, NixJobs DEF Signed
  <2>. QED BY <1>1, <2>1 DEF SignatureReply, NixAnswer
<1>. QED BY <1>2, <1>3

LEMMA BrokerStays ==
  ASSUME CustodyTypeOK, [CustodyNext]_custodyVars
  PROVE BrokerTyped'
<1>0. StoresTyped /\ JobsTyped /\ BrokerTyped /\ Clients \subseteq Jobs /\ Boot \in Jobs
  BY BootIsAJob DEF CustodyTypeOK
<1>1. scene' = scene
  BY CustodyFrame DEF Framed
<1>2. phase' \in {"boot", "serving", "failed"} /\ (phase' # "serving" => Plays("boot"))
  <2>1. CASE phase' = phase
    BY <1>0, <2>1 DEF BrokerTyped
  <2>2. CASE BootProbe
    <3>1. phase' \in {phase, "failed"} /\ phase = "boot"
      BY <2>2 DEF BootProbe
    <3>. QED BY <1>0, <3>1 DEF BrokerTyped
  <2>3. CASE BootEnds
    <3>1. phase' \in {"serving", "failed"} /\ phase = "boot"
      BY <2>3 DEF BootEnds
    <3>. QED BY <1>0, <3>1 DEF BrokerTyped
  <2>4. CASE Crash
    BY <1>0, <2>4, BootKind DEF Crash
  <2>. QED BY <2>1, <2>2, <2>3, <2>4, CustodyFrame DEF Framed, PhaseStep
<1>3. lock' \in Clients \cup {NoKey}
  <2>1. lock \in Clients \cup {NoKey}
    BY <1>0 DEF BrokerTyped
  <2>2. ASSUME NEW c \in Clients, EnrollRead(c) \/ EnrollJudge(c) \/ Drop(c)
        PROVE lock' \in {c, lock, NoKey}
    BY <2>2 DEF EnrollRead, EnrollJudge, Drop
  <2>3. CASE Crash
    BY <2>3 DEF Crash
  <2>. QED BY <2>1, <2>2, <2>3, CustodyFrame DEF Framed, LockStep
<1>4. ident' \in IdentityType /\ ident'.state # "none" /\ (ident'.state = "pending" => ident'.pin = 0)
  <2>1. CASE ident' = ident
    BY <1>0, <2>1 DEF BrokerTyped
  <2>2. CASE Adopt
    <3>1. PICK t \in answers : ident' = [state |-> "enrolled", pin |-> t.pub]
      BY <2>2 DEF Adopt
    <3>2. t.pub \in Nat
      BY <1>0, <2>2 DEF BrokerTyped, Adopt, NixAnswer
    <3>. QED BY <3>1, <3>2 DEF IdentityType
  <2>. QED BY <2>1, <2>2, CustodyFrame DEF Framed
<1>5. Plays("nix") => answers' \subseteq NixAnswer
  <2>1. ASSUME Plays("nix") PROVE answers' \subseteq NixAnswer
    <3>1. answers \subseteq NixAnswer
      BY <1>0, <2>1 DEF BrokerTyped
    <3>2. answers' = answers \/ \E c \in Clients : Enrolled(c) \/ Signed(c)
      BY <2>1, NixAnswers
    <3>3. ASSUME NEW c \in Clients, Enrolled(c) PROVE answers' \subseteq NixAnswer
      <4>1. answers' = answers \cup {EnrollReply(c)} /\ EnrollReply(c) \in NixAnswer
        BY <3>3, NixReplyTyped DEF Enrolled
      <4>. QED BY <3>1, <4>1
    <3>4. ASSUME NEW c \in Clients, Signed(c) PROVE answers' \subseteq NixAnswer
      <4>1. answers' = answers \cup {SignatureReply(c)} /\ SignatureReply(c) \in NixAnswer
        BY <3>4, NixReplyTyped DEF Signed
      <4>. QED BY <3>1, <4>1
    <3>. QED BY <3>1, <3>2, <3>3, <3>4
  <2>. QED BY <2>1
<1>6. grants' \subseteq Active
  <2>1. CASE ReloadGrants
    BY <2>1 DEF ReloadGrants
  <2>. QED BY <1>0, <2>1, CustodyFrame DEF Framed, BrokerTyped
<1>7. Active' = Active /\ \A op : Plays(op)' = Plays(op)
  BY <1>1 DEF Active, Plays
<1>. QED BY <1>2, <1>3, <1>4, <1>5, <1>6, <1>7, TornTyped DEF BrokerTyped

(* A provisioned store holds a value, or a custody record of a key that has  *)
(* a storage key.                                                            *)
InitialForm(p, s) ==
  \/ s = << >>
  \/ \E what \in {"seed", "value", "cert", "tlskey", "public"} :
       /\ s = <<[what |-> what, n |-> 1]>>
       /\ p \in Keys => /\ what = "seed" => Entry[p].class \in {"asym", "sealing"}
  \/ p \in Keys /\ Entry[p].class \in {"asym", "sealing"} /\ Entry[p].storage \in Keys
     /\ s = <<CustodyRecord(p, 1, 1)>>

(* What a provisioned store holds at the start. *)
LEMMA InitialForms ==
  ASSUME NEW p \in Paths
  PROVE InitialForm(p, InitialKv(p))
<1>. DEFINE s == InitialKv(p)
<1>1. CASE p \notin Keys
  <2>1. s = << >> \/ s = <<[what |-> "public", n |-> 1]>>
    BY <1>1 DEF InitialKv
  <2>. QED BY <1>1, <2>1 DEF InitialForm
<1>2. CASE p \in Keys /\ Entry[p].class \in {"asym", "sealing"}
  <2>1. \/ s = << >> \/ s = <<[what |-> "seed", n |-> 1]>>
        \/ Entry[p].storage \in Keys /\ s = <<CustodyRecord(p, 1, 1)>>
    BY <1>2 DEF InitialKv
  <2>. QED BY <1>2, <2>1, Zenon DEF InitialForm
<1>3. CASE p \in Keys /\ Entry[p].class \notin {"asym", "sealing"}
  <2>1. s = << >> \/ s = <<CertPem(1)>> \/ s = <<KeyPem(1)>> \/ s = <<[what |-> "value", n |-> 1]>>
    BY <1>3 DEF InitialKv
  <2>. QED BY <1>3, <2>1 DEF InitialForm, CertPem, KeyPem
<1>. QED BY <1>1, <1>2, <1>3

LEMMA InitialFormTyped ==
  ASSUME NEW p \in Paths, NEW s, InitialForm(p, s)
  PROVE s \in Seq(StoredType)
<1>1. ASSUME NEW v \in StoredType PROVE <<v>> \in Seq(StoredType)
  OBVIOUS
<1>2. \A what \in {"seed", "value", "cert", "tlskey", "public"} : [what |-> what, n |-> 1] \in StoredType
  BY PlainStored
<1>3. p \in Keys => CustodyRecord(p, 1, 1) \in StoredType
  BY RecordStored
<1>4. << >> \in Seq(StoredType)
  OBVIOUS
<1>. QED BY <1>1, <1>2, <1>3, <1>4 DEF InitialForm

LEMMA InitialJobs ==
  ASSUME CustodyInit, NEW c \in Jobs
  PROVE /\ DOMAIN job = Jobs
        /\ job[c] = IdleJob \/ (c = Boot /\ Plays("boot") /\ job[c] = BootJob)
        /\ JobShape(job[c]) /\ (job[c].op = "idle" \/ (c = Boot /\ job[c].op = "boot"))
        /\ job[c].ws = << >>
<1>1. DOMAIN job = Jobs /\ (job[c] = IdleJob \/ (c = Boot /\ Plays("boot") /\ job[c] = BootJob))
  BY DEF CustodyInit
<1>2. JobShape(BootJob) /\ BootJob.op = "boot" /\ BootJob.ws = << >>
  BY IdleShape DEF BootJob, JobShape, JobFields
<1>. QED BY <1>1, <1>2, IdleShape

(* The initial states have the types, and every step keeps them. *)
LEMMA InitialTypes == CustodyInit => CustodyTypeOK
<1>. SUFFICES ASSUME CustodyInit PROVE CustodyTypeOK
  OBVIOUS
<1>1. StoresTyped
  <2>1. \A k \in Keys : InitialTk(k) \in TransitType
    BY NewTransitTyped DEF InitialTk
  <2>2. \A p \in Paths : InitialKv(p) \in Seq(StoredType)
    BY InitialForms, InitialFormTyped
  <2>3. tk \in [Keys -> TransitType] /\ kv \in [Paths -> Seq(StoredType)]
    BY <2>1, <2>2 DEF CustodyInit
  <2>4. serial \in Nat /\ spent \in SpentType
    BY DEF CustodyInit, SpentType
  <2>. QED BY <2>3, <2>4 DEF CustodyInit, StoresTyped
<1>2. JobsTyped
  <2>1. ASSUME NEW c \in Jobs PROVE JobShape(job[c]) /\ JobData(job[c]) /\ JobPlace(c)
    <3>1. JobShape(job[c]) /\ JobPlace(c)
      BY InitialJobs DEF JobPlace
    <3>2. CASE job[c] = IdleJob
      BY <3>1, <3>2, IdleShape DEF JobData
    <3>3. CASE Plays("boot") /\ job[c] = BootJob
      <4>1. job[c].op = "boot" /\ job[c].ws = << >> /\ job[c].n = 1
        BY <3>3 DEF BootJob, IdleJob
      <4>. QED BY <3>1, <3>3, <4>1 DEF JobData
    <3>. QED BY <3>1, <3>2, <3>3, InitialJobs
  <2>. QED BY <2>1, InitialJobs, BootIsAJob DEF JobsTyped
<1>3. BrokerTyped
  BY DEF CustodyInit, BrokerTyped, IdentityType
<1>. QED BY <1>1, <1>2, <1>3 DEF CustodyTypeOK

LEMMA TypesStay ==
  CustodyTypeOK /\ [CustodyNext]_custodyVars => CustodyTypeOK'
  BY JobsStay, StoresStay, BrokerStays DEF CustodyTypeOK

(* The stores, the handlers and the broker of the backend manager have     *)
(* their types in every reachable state: versions and floors are numbers,  *)
(* a handler holds what its operation needs, and the lock is free or held  *)
(* by a client (manager.rs, reconcile.rs).                                 *)
THEOREM CustodyTypes == CustodySpec => []CustodyTypeOK
  BY InitialTypes, TypesStay, PTL DEF CustodySpec

(***************************************************************************)
(* The grace window.                                                       *)
(***************************************************************************)
LEMMA WrittenLast ==
  ASSUME StoresTyped, NEW p \in Keys, NEW v \in StoredType, Writes(p, v), NEW q \in Paths
  PROVE /\ q = p => HasKv(q)' /\ Last(kv[q])' = v
        /\ q # p => (HasKv(q)' = HasKv(q)) /\ Last(kv[q])' = Last(kv[q]) /\ kv'[q] = kv[q]
  BY WriteEffect DEF HasKv, Last

(* Floors move with rotations and sweeps only, and stay behind the newest  *)
(* versions by the grace.                                                  *)
LEMMA FloorsStay ==
  ASSUME CustodyTypeOK, FloorsKept, RotationsBehind, [CustodyNext]_custodyVars
  PROVE FloorsKept'
<1>0. StoresTyped /\ Grace \in Nat
  BY RoutingAssumption DEF CustodyTypeOK
<1>1. CASE tk' = tk
  BY <1>1 DEF FloorsKept, FloorKept, Latest
<1>2. ASSUME NEW k \in Keys, TransitWrite(k) PROVE FloorsKept'
  <2>0. tk[k].mat \in Seq(Nat) /\ tk[k].dec \in Nat /\ tk[k].avail \in Nat /\ tk[k] \in TransitType
        /\ tk \in [Keys -> TransitType] /\ Latest(k) = Len(tk[k].mat) /\ Latest(k) \in Nat
        /\ serial \in Nat
    BY <1>0, TransitFields DEF StoresTyped, Latest
  <2>1. FloorKept(k)
    BY DEF FloorsKept
  <2>2. ASSUME NEW t, tk' = [tk EXCEPT ![k] = t], t.avail <= t.dec,
               t.dec <= 1 \/ t.dec <= Len(t.mat) - Grace
        PROVE FloorsKept'
    <3>1. tk'[k] = t /\ \A j \in Keys \ {k} : tk'[j] = tk[j]
      BY <2>0, <2>2
    <3>. QED BY <2>2, <3>1 DEF FloorsKept, FloorKept, Latest
  <2>3. ASSUME NEW n \in Nat, tk' = [tk EXCEPT ![k] = TransitKey(n)] PROVE FloorsKept'
    <3>1. TransitKey(n).avail <= TransitKey(n).dec /\ TransitKey(n).dec <= 1
      BY NewTransitTyped
    <3>. QED BY <2>2, <2>3, <3>1, Zenon
  <2>4. ASSUME NEW n \in Nat, tk' = [tk EXCEPT ![k] = [tk[k] EXCEPT !.mat = Append(@, n)]] PROVE FloorsKept'
    <3>. DEFINE t == [tk[k] EXCEPT !.mat = Append(@, n)]
    <3>1. t.avail = tk[k].avail /\ t.dec = tk[k].dec /\ t.mat = Append(tk[k].mat, n)
      BY <2>0 DEF TransitType
    <3>2. Len(t.mat) = Latest(k) + 1
      BY <2>0, <3>1
    <3>3. t.avail <= t.dec /\ (t.dec <= 1 \/ t.dec <= Len(t.mat) - Grace)
      BY <1>0, <2>0, <2>1, <3>1, <3>2 DEF FloorKept
    <3>. HIDE DEF t
    <3>. QED BY <2>2, <2>4, <3>3 DEF t
  <2>5. ASSUME NEW d \in Nat, ConfigOk(k, d, tk[k].avail), tk' = [tk EXCEPT ![k].dec = d],
               NEW c \in Jobs, job[c].op = "rotate", job[c].k = k, d = GraceFloor(job[c].n)
        PROVE FloorsKept'
    <3>. DEFINE t == [tk[k] EXCEPT !.dec = d]
    <3>1. t.avail = tk[k].avail /\ t.dec = d /\ t.mat = tk[k].mat
      BY <2>0 DEF TransitType
    <3>2. job[c].n <= Latest(k) /\ job[c].n \in Nat
      BY <2>5 DEF RotationsBehind, CustodyTypeOK, JobsTyped, JobData
    <3>3. d = 1 \/ d = job[c].n - Grace
      BY <2>5, <3>2, FloorTypes
    <3>4. t.avail <= t.dec /\ (t.dec <= 1 \/ t.dec <= Len(t.mat) - Grace)
      BY <1>0, <2>0, <2>5, <3>1, <3>2, <3>3 DEF ConfigOk
    <3>5. tk' = [tk EXCEPT ![k] = t]
      BY <2>5
    <3>. HIDE DEF t
    <3>. QED BY <2>2, <3>4, <3>5
  <2>6. ASSUME NEW a \in Nat, ConfigOk(k, tk[k].dec, a), tk' = [tk EXCEPT ![k].avail = a]
        PROVE FloorsKept'
    <3>. DEFINE t == [tk[k] EXCEPT !.avail = a]
    <3>1. t.avail = a /\ t.dec = tk[k].dec /\ t.mat = tk[k].mat
      BY <2>0 DEF TransitType
    <3>4. t.avail <= t.dec /\ (t.dec <= 1 \/ t.dec <= Len(t.mat) - Grace)
      BY <2>0, <2>1, <2>6, <3>1 DEF ConfigOk, FloorKept
    <3>5. tk' = [tk EXCEPT ![k] = t]
      BY <2>6
    <3>. HIDE DEF t
    <3>. QED BY <2>2, <3>4, <3>5
  <2>7. CASE Meddle(k)
    <3>1. ident.pin \in Nat
      BY DEF CustodyTypeOK, BrokerTyped, IdentityType
    <3>2. PICK t \in {NoTk, TransitKey(ident.pin), TransitKey(99), [tk[k] EXCEPT !.mat = Append(@, 99)],
                      [tk[k] EXCEPT !.flags = {"exportable"}]} : tk' = [tk EXCEPT ![k] = t]
      BY <2>7 DEF Meddle
    <3>3. CASE t = NoTk
      <4>1. NoTk.avail <= NoTk.dec /\ NoTk.dec <= 1
        BY NewTransitTyped
      <4>. QED BY <2>2, <3>2, <3>3, <4>1, Zenon
    <3>4. CASE t = TransitKey(ident.pin) \/ t = TransitKey(99)
      BY <2>3, <3>1, <3>2, <3>4
    <3>5. CASE t = [tk[k] EXCEPT !.mat = Append(@, 99)]
      BY <2>4, <3>2, <3>5
    <3>6. CASE t = [tk[k] EXCEPT !.flags = {"exportable"}]
      <4>1. t.avail = tk[k].avail /\ t.dec = tk[k].dec /\ t.mat = tk[k].mat
        BY <2>0, <3>6 DEF TransitType
      <4>2. t.avail <= t.dec /\ (t.dec <= 1 \/ t.dec <= Len(t.mat) - Grace)
        BY <2>0, <2>1, <4>1 DEF FloorKept
      <4>. QED BY <2>2, <3>2, <4>2
    <3>7. \/ t = NoTk \/ t = TransitKey(ident.pin) \/ t = TransitKey(99)
          \/ t = [tk[k] EXCEPT !.mat = Append(@, 99)] \/ t = [tk[k] EXCEPT !.flags = {"exportable"}]
      BY <3>2, Zenon
    <3>. QED BY <3>3, <3>4, <3>5, <3>6, <3>7, Zenon
  <2>8. serial + 1 \in Nat
    BY <2>0
  <2>9. tk' = [tk EXCEPT ![k].mat = Append(@, serial + 1)] =>
          tk' = [tk EXCEPT ![k] = [tk[k] EXCEPT !.mat = Append(@, serial + 1)]]
    OBVIOUS
  <2>. QED BY <1>2, <2>3, <2>4, <2>5, <2>6, <2>7, <2>8, <2>9 DEF TransitWrite
<1>. QED BY <1>1, <1>2, TransitWrites

(* A transit key that no one may meddle with never loses a version. *)
LEMMA VersionsGrow ==
  ASSUME CustodyTypeOK, [CustodyNext]_custodyVars, NEW k \in Keys, ~Entry[k].nix
  PROVE Latest(k) <= Latest(k)' /\ Latest(k)' \in Nat
<1>0. StoresTyped /\ tk \in [Keys -> TransitType] /\ tk[k] \in TransitType /\ tk[k].mat \in Seq(Nat)
      /\ serial + 1 \in Nat /\ Latest(k) \in Nat
  BY TransitFields DEF CustodyTypeOK, StoresTyped
<1>1. CASE tk' = tk
  BY <1>0, <1>1 DEF Latest
<1>2. ASSUME NEW j \in Keys, TransitWrite(j) PROVE Len(tk'[k].mat) >= Latest(k) /\ Len(tk'[k].mat) \in Nat
  <2>1. CASE j # k
    <3>1. tk'[k] = tk[k]
      BY <1>0, <1>2, <2>1 DEF TransitWrite, Meddle
    <3>. QED BY <1>0, <3>1 DEF Latest
  <2>2. CASE j = k
    <3>1. ~Meddle(k)
      BY DEF Meddle, NixRoute
    <3>2. \/ tk'[k].mat = tk[k].mat
          \/ tk'[k].mat = Append(tk[k].mat, serial + 1)
          \/ ~HasTk(k) /\ tk'[k] = TransitKey(serial + 1)
      BY <1>0, <1>2, <2>2, <3>1 DEF TransitWrite, TransitType
    <3>3. CASE ~HasTk(k) /\ tk'[k] = TransitKey(serial + 1)
      <4>1. Latest(k) = 0
        BY <3>3 DEF HasTk, Latest
      <4>2. tk'[k].mat = <<serial + 1>>
        BY <1>0, <3>3, NewTransitTyped
      <4>. QED BY <4>1, <4>2
    <3>4. CASE tk'[k].mat = tk[k].mat \/ tk'[k].mat = Append(tk[k].mat, serial + 1)
      BY <1>0, <3>4 DEF Latest
    <3>. QED BY <3>2, <3>3, <3>4
  <2>. QED BY <2>1, <2>2
<1>3. CASE \E j \in Keys : TransitWrite(j)
  BY <1>0, <1>2, <1>3 DEF Latest
<1>. QED BY <1>1, <1>3, TransitWrites

(* The version that a rotation has read is never ahead of the key. *)
LEMMA RotationsStay ==
  ASSUME CustodyTypeOK, RotationsBehind, [CustodyNext]_custodyVars
  PROVE RotationsBehind'
<1>0. StoresTyped /\ JobsTyped /\ JobsTyped'
  BY JobsStay DEF CustodyTypeOK
<1>1. Moves
  BY CustodyMoves
<1>2. ASSUME NEW c \in Jobs, job'[c].op = "rotate" PROVE job'[c].n <= Latest(job[c].k)'
  <2>0. job'[c].k \in Keys /\ job'[c].n \in Nat /\ ~Entry[job'[c].k].nix
    BY <1>0, <1>2 DEF JobsTyped, JobData
  <2>1. CASE SameJob(c)
    <3>1. job[c].op = "rotate" /\ job'[c].k = job[c].k /\ job'[c].n = job[c].n
      BY <1>2, <2>1 DEF SameJob
    <3>2. job[c].n <= Latest(job[c].k) /\ job[c].k \in Keys /\ ~Entry[job[c].k].nix /\ job[c].n \in Nat
      BY <1>0, <3>1 DEF RotationsBehind, JobsTyped, JobData
    <3>3. Latest(job[c].k) \in Nat
      BY <1>0, <3>2, TransitFields
    <3>4. Len(tk[job[c].k].mat) <= Len(tk'[job[c].k].mat) /\ Len(tk'[job[c].k].mat) \in Nat
      BY <3>2, VersionsGrow DEF Latest
    <3>. QED BY <3>1, <3>2, <3>3, <3>4, SMTT(40) DEF Latest
  <2>2. ASSUME NEW k \in Keys, RotatePost(c, k) PROVE job'[c].n <= Latest(job[c].k)'
    <3>1. job'[c] = [IdleJob EXCEPT !.op = "rotate", !.k = k, !.at = "read"]
      BY <1>0, <2>2, SetIs DEF RotatePost
    <3>2. job'[c].n = 0
      BY <3>1 DEF IdleJob
    <3>3. Len(tk'[job'[c].k].mat) \in Nat
      BY <2>0, VersionsGrow DEF Latest
    <3>. QED BY <3>2, <3>3 DEF Latest
  <2>3. CASE RotateRead(c)
    <3>1. job'[c] = [job[c] EXCEPT !.at = "floor", !.n = Latest(job[c].k)]
      BY <1>0, <2>3, SetIs DEF RotateRead
    <3>2. job'[c].k = job[c].k /\ job'[c].n = Latest(job[c].k)
      BY <1>0, <3>1, JobsKnown DEF JobShape, JobFields
    <3>3. tk' = tk
      BY <2>3 DEF RotateRead
    <3>4. Latest(job[c].k) \in Nat
      BY <1>0, <2>0, <3>2, TransitFields
    <3>. QED BY <3>2, <3>3, <3>4 DEF Latest
  <2>. QED BY <1>1, <1>2, <2>1, <2>2, <2>3 DEF Moves, MovesTo, RotateMove
<1>. QED BY <1>2 DEF RotationsBehind

(* A custody record names a storage key and was wrapped by a version of    *)
(* it.                                                                     *)
LEMMA RecordsStay ==
  ASSUME CustodyTypeOK, SealedRecords, [CustodyNext]_custodyVars
  PROVE SealedRecords'
<1>0. StoresTyped
  BY DEF CustodyTypeOK
<1>1. CASE kv' = kv
  BY <1>1 DEF SealedRecords, HasKv, Last
<1>2. ASSUME NEW p \in Keys, NEW v \in StoredType, Writes(p, v),
             WriterStores(p, v) \/ ClientStores(p, v) \/ SealerStores(p, v)
      PROVE SealedRecords'
  <2>1. v.what = "record" => Entry[p].storage \in Keys /\ \E n, w \in Nat : v = CustodyRecord(p, n, w)
    <3>1. CASE WriterStores(p, v)
      <4>1. PICK c \in Writers : Put(c) /\ job[c].ws[1].v = v
        BY <3>1 DEF WriterStores
      <4>2. job[c].ws[1] \in WriteType
        BY <4>1, LastWrite DEF CustodyTypeOK, Writers
      <4>. QED BY <4>1, <4>2, WriteStored
    <3>2. CASE ClientStores(p, v)
      BY <3>2 DEF ClientStores
    <3>3. CASE SealerStores(p, v)
      BY <3>3 DEF SealerStores
    <3>. QED BY <1>2, <3>1, <3>2, <3>3
  <2>2. ASSUME NEW k \in Keys, HasKv(k)', Last(kv[k])'.what = "record"
        PROVE Entry[k].storage \in Keys /\ \E n, w \in Nat : Last(kv[k])' = CustodyRecord(k, n, w)
    <3>1. CASE k = p
      BY <1>0, <1>2, <2>1, <2>2, <3>1, WrittenLast, KeysArePaths
    <3>2. CASE k # p
      <4>1. HasKv(k) /\ Last(kv[k])' = Last(kv[k])
        BY <1>0, <1>2, <2>2, <3>2, WrittenLast, KeysArePaths
      <4>. QED BY <2>2, <4>1 DEF SealedRecords
    <3>. QED BY <3>1, <3>2
  <2>. QED BY <2>2 DEF SealedRecords
<1>. QED BY <1>1, <1>2, StoreWrites

(* The answers in a scene whose handlers mint. *)
LEMMA MintAnswers ==
  ASSUME CustodyTypeOK, [CustodyNext]_custodyVars, Plays("mint")
  PROVE answers' = answers \/ \E c \in Clients : MintSign(c)
<1>0. StoresTyped /\ JobsTyped /\ Clients \subseteq Jobs
  BY BootIsAJob DEF CustodyTypeOK
<1>1. ~Plays("nix") /\ ~Plays("import") /\ ~Plays("nats")
  BY <1>0, OneKind
<1>2. ~Clock
  BY <1>1 DEF Clock
<1>3. ASSUME NEW c \in Clients, EnrollJudge(c) \/ SignAfter(c) PROVE FALSE
  <2>1. job[c].op \in {"enroll", "nixsign"}
    BY <1>3 DEF EnrollJudge, SignAfter, At
  <2>. QED BY <1>0, <1>1, <2>1, NixJobs
<1>4. ASSUME NEW c \in Clients, NatsFinish(c) PROVE FALSE
  <2>1. job[c].op = "nats"
    BY <1>4 DEF NatsFinish, At
  <2>. QED BY <1>0, <1>1, <2>1 DEF JobsTyped, JobData
<1>5. ASSUME NEW c \in Clients, NEW set \in {<<a, b>> : a, b \in Active}, ImportSet(c, set) PROVE FALSE
  BY <1>1, <1>5 DEF ImportSet
<1>. QED BY <1>2, <1>3, <1>4, <1>5, CustodyFrame DEF Framed, AnswerStep

(* A token names a key. *)
LEMMA TokensStay ==
  ASSUME CustodyTypeOK, TokensOfKeys, [CustodyNext]_custodyVars
  PROVE TokensOfKeys'
<1>0. scene' = scene /\ JobsTyped /\ Clients \subseteq Jobs
  BY CustodyFrame, BootIsAJob DEF Framed, CustodyTypeOK
<1>1. SUFFICES ASSUME Plays("mint") PROVE \A t \in answers' : t.k \in Keys
  BY <1>0 DEF TokensOfKeys, Plays
<1>2. \A t \in answers : t.k \in Keys
  BY <1>1 DEF TokensOfKeys
<1>3. ASSUME NEW c \in Clients, MintSign(c) PROVE \A t \in answers' : t.k \in Keys
  <2>1. job[c].k \in Keys
    BY <1>0, <1>3 DEF MintSign, At, JobsTyped, JobData
  <2>2. answers' = answers \cup {[k |-> job[c].k, kid |-> Kid(job[c].n), by |-> Last(tk[job[c].k].mat)]}
    BY <1>3 DEF MintSign
  <2>. QED BY <1>2, <2>1, <2>2
<1>. QED BY <1>1, <1>2, <1>3, MintAnswers

(* The rotation part of the inductive invariant. *)
GraceInv == FloorsKept /\ RotationsBehind /\ SealedRecords /\ TokensOfKeys

(* The grace part holds initially and is kept. *)
LEMMA GraceInvInit == CustodyInit => GraceInv
<1>. SUFFICES ASSUME CustodyInit PROVE GraceInv
  OBVIOUS
<1>1. FloorsKept
  <2>1. ASSUME NEW k \in Keys PROVE tk[k].avail = 1 /\ tk[k].dec = 1
    <3>1. tk[k] = InitialTk(k)
      BY DEF CustodyInit
    <3>. QED BY <3>1, NewTransitTyped DEF InitialTk
  <2>. QED BY <2>1 DEF FloorsKept, FloorKept
<1>2. RotationsBehind
  BY InitialJobs DEF RotationsBehind
<1>3. SealedRecords
  <2>1. ASSUME NEW k \in Keys, HasKv(k), Last(kv[k]).what = "record"
        PROVE Entry[k].storage \in Keys /\ \E n, w \in Nat : Last(kv[k]) = CustodyRecord(k, n, w)
    <3>1. InitialForm(k, kv[k])
      BY InitialForms, KeysArePaths DEF CustodyInit
    <3>2. CASE Entry[k].storage \in Keys /\ kv[k] = <<CustodyRecord(k, 1, 1)>>
      <4>. DEFINE r == CustodyRecord(k, 1, 1)
      <4>1. Last(kv[k]) = r
        <5>. HIDE DEF r
        <5>. QED BY <3>2 DEF r, Last
      <4>. QED BY <3>2, <4>1
    <3>3. ASSUME NEW what \in {"seed", "value", "cert", "tlskey", "public"}, kv[k] = <<[what |-> what, n |-> 1]>>
          PROVE FALSE
      <4>1. Last(kv[k]) = [what |-> what, n |-> 1]
        BY <3>3 DEF Last
      <4>. QED BY <2>1, <4>1
    <3>. QED BY <2>1, <3>1, <3>2, <3>3 DEF InitialForm, HasKv
  <2>. QED BY <2>1 DEF SealedRecords
<1>4. TokensOfKeys
  BY DEF CustodyInit, TokensOfKeys
<1>. QED BY <1>1, <1>2, <1>3, <1>4 DEF GraceInv

LEMMA GraceInvStays ==
  CustodyTypeOK /\ GraceInv /\ [CustodyNext]_custodyVars => GraceInv'
  BY FloorsStay, RotationsStay, RecordsStay, TokensStay DEF GraceInv

(* A version within the grace is usable, published, and opens what it      *)
(* wrapped.                                                                *)
LEMMA InGraceUsable ==
  ASSUME StoresTyped, FloorsKept, NEW k \in Keys, NEW v, InGrace(k, v)
  PROVE Usable(k, v)
<1>1. Latest(k) \in Nat /\ tk[k].dec \in Nat /\ tk[k].avail \in Nat /\ Grace \in Nat /\ FloorKept(k)
  BY TransitFields, RoutingAssumption DEF FloorsKept
<1>. QED BY <1>1 DEF InGrace, Usable, FloorKept

LEMMA InGracePublished ==
  ASSUME StoresTyped, FloorsKept, NEW k \in Keys, NEW v \in 1..Latest(k), InGrace(k, v)
  PROVE Jwk(tk[k].mat[v]) \in Jwks(k)
<1>. DEFINE listed == {u \in 1..Latest(k) : Usable(k, u)}
            fn == [u \in listed |-> tk[k].mat[u]]
<1>1. Latest(k) \in Nat /\ Grace \in Nat /\ Latest(k) >= 1
  BY TransitFields, RoutingAssumption
<1>2. v \in listed /\ Latest(k) \in listed
  <2>1. InGrace(k, Latest(k))
    BY <1>1 DEF InGrace
  <2>. QED BY <1>1, <2>1, InGraceUsable
<1>3. \A u \in listed : u <= Latest(k) /\ u \in Nat
  BY <1>1
<1>4. DOMAIN fn = listed /\ fn[v] = tk[k].mat[v]
  BY <1>2
<1>5. JwksLatest(fn) = Latest(k)
  <2>. HIDE DEF listed, fn
  <2>1. JwksLatest(fn) = CHOOSE m \in listed : \A u \in listed : u <= m
    BY <1>2, <1>4 DEF JwksLatest
  <2>2. \E m \in listed : \A u \in listed : u <= m
    BY <1>2, <1>3
  <2>3. JwksLatest(fn) \in listed /\ \A u \in listed : u <= JwksLatest(fn)
    BY <2>1, <2>2
  <2>4. \A m \in listed : (\A u \in listed : u <= m) => m = Latest(k)
    BY <1>1, <1>2, <1>3
  <2>. QED BY <2>3, <2>4
<1>6. GraceFloor(Latest(k)) <= v /\ v <= Latest(k)
  BY <1>1 DEF InGrace, GraceFloor
<1>7. Jwks(k) = JwksWindow(fn, GraceFloor(Latest(k)))
  BY DEF Jwks
<1>. HIDE DEF fn
<1>8. v \in DOMAIN fn
  BY <1>2, <1>4
<1>9. Jwk(fn[v]) \in JwksWindow(fn, GraceFloor(Latest(k)))
  BY <1>5, <1>6, <1>8 DEF JwksWindow
<1>. QED BY <1>4, <1>7, <1>9

LEMMA InGraceOpens ==
  ASSUME StoresTyped, FloorsKept, SealedRecords, NEW k \in Keys, Len(kv[k]) = 1,
         Last(kv[k]).what = "record", InGrace(Entry[k].storage, Last(kv[k]).wrap)
  PROVE CustodyOpens(k)
<1>1. kv[k] \in Seq(StoredType)
  BY KeysArePaths, LastStored
<1>2. HasKv(k)
  <2>1. kv[k] = << >> => Len(kv[k]) = 0
    OBVIOUS
  <2>. QED BY <2>1 DEF HasKv
<1>3. PICK n, w \in Nat : Last(kv[k]) = CustodyRecord(k, n, w)
  BY <1>2 DEF SealedRecords
<1>4. Entry[k].storage \in Keys
  BY <1>2 DEF SealedRecords
<1>5. Usable(Entry[k].storage, Last(kv[k]).wrap) /\ Last(kv[k]).wrap # 0
  <2>1. Usable(Entry[k].storage, Last(kv[k]).wrap)
    BY <1>4, InGraceUsable
  <2>2. Latest(Entry[k].storage) \in Nat
    BY <1>4, TransitFields
  <2>. QED BY <2>1, <2>2 DEF InGrace
<1>6. RecordValid(k, Last(kv[k]), Len(kv[k]))
  BY <1>3, <1>5 DEF RecordValid, CustodyRecord
<1>. QED BY <1>2, <1>4, <1>5, <1>6 DEF CustodyOpens, RecordOk

(* So the grace part of the invariant implies GraceKept. *)
LEMMA GraceFollows == CustodyTypeOK /\ GraceInv => GraceKept
<1>. SUFFICES ASSUME CustodyTypeOK, GraceInv PROVE GraceKept
  OBVIOUS
<1>0. StoresTyped /\ FloorsKept /\ SealedRecords /\ Active \subseteq Keys
  BY ActiveKeys DEF CustodyTypeOK, GraceInv
<1>1. \A k \in Active : \A v \in 1..Latest(k) : InGrace(k, v) => Usable(k, v)
  BY <1>0, InGraceUsable
<1>2. ASSUME Plays("mint"), NEW t \in answers, NEW v \in 1..Latest(t.k), InGrace(t.k, v),
             tk[t.k].mat[v] = t.by
      PROVE Jwk(t.by) \in Jwks(t.k)
  <2>1. t.k \in Keys
    BY <1>2 DEF GraceInv, TokensOfKeys
  <2>2. Jwk(tk[t.k].mat[v]) \in Jwks(t.k)
    BY <1>0, <1>2, <2>1, InGracePublished
  <2>. QED BY <1>2, <2>2
<1>3. ASSUME NEW k \in Active, Len(kv[k]) = 1, Last(kv[k]).what = "record",
             InGrace(Entry[k].storage, Last(kv[k]).wrap)
      PROVE CustodyOpens(k)
  BY <1>0, <1>3, InGraceOpens
<1>4. ASSUME Plays("mint"), NEW t \in answers, InGrace(t.k, 1)
      PROVE Confirms(t.k, t.by) <=> tk[t.k].mat[1] = t.by
  <2>1. t.k \in Keys
    BY <1>4 DEF GraceInv, TokensOfKeys
  <2>2. Usable(t.k, SigVersion)
    BY <1>0, <1>4, <2>1, InGraceUsable DEF SigVersion
  <2>. QED BY <2>2 DEF Confirms, SigVersion
<1>. QED BY <1>1, <1>2, <1>3, <1>4 DEF GraceKept

(***************************************************************************)
(* Writers of generated values.                                            *)
(***************************************************************************)
(* Between two keys the reconcile pass has nothing left to write. *)
ProbeIdle ==
  job[Boot].op = "boot" /\ job[Boot].at = "probe" => job[Boot].ws = << >> /\ ~job[Boot].half

(* Handler c, which writes nothing, is the only one that moves. *)
Aside(c) == ~Writing(c) /\ \A d \in Jobs \ {c} : job'[d] = job[d]
Setting == \E c \in Clients : \E k \in Keys : SetValue(c, k)
WritersSame == Writers' = Writers /\ \A d \in Writers : job'[d] = job[d]

(* A step of one handler leaves the others alone. *)
LEMMA SetOthers ==
  ASSUME JobsTyped, NEW c \in Jobs, NEW j, Set(c, j)
  PROVE \A d \in Jobs \ {c} : job'[d] = job[d]
<1>1. DOMAIN job = Jobs
  BY JobsKnown
<1>. QED BY <1>1 DEF Set

(* The steps that neither start, continue nor end a writer. *)
LEMMA OtherSteps ==
  ASSUME CustodyTypeOK, ProbeIdle, [CustodyNext]_custodyVars
  PROVE \/ job' = job \/ \E c \in Jobs : Aside(c)
        \/ \E c \in Clients : (\E k \in Keys : RotateValue(c, k)) \/ Drop(c)
        \/ BootProbe \/ Crash \/ Setting \/ \E c \in Jobs : Put(c)
<1>0. JobsTyped /\ Clients \subseteq Jobs /\ Boot \in Jobs
  BY BootIsAJob DEF CustodyTypeOK
<1>1. CASE BootEnds
  <2>1. Set(Boot, IdleJob) /\ ~Writing(Boot)
    BY <1>1 DEF BootEnds, At, ProbeIdle, Writing
  <2>. QED BY <1>0, <2>1, SetOthers DEF Aside
<1>2. ASSUME NEW c \in Clients, NEW op, NEW at, At(c, op, at), op \notin {"value", "boot"} PROVE ~Writing(c)
  BY <1>2 DEF At, Writing
<1>3. ASSUME NEW c \in Clients, Idle(c) PROVE ~Writing(c)
  BY <1>3 DEF Idle, Writing
<1>4. ASSUME NEW c \in Clients, NEW j, Set(c, j), ~Writing(c) PROVE Aside(c)
  BY <1>0, <1>4, SetOthers DEF Aside
<1>5. ASSUME NEW c \in Clients, RotateRead(c) PROVE Aside(c)
  <2>1. \E j : Set(c, j)
    BY <1>5, Zenon DEF RotateRead
  <2>2. \E at : At(c, "rotate", at)
    BY <1>5, Zenon DEF RotateRead
  <2>. QED BY <1>2, <1>4, <2>1, <2>2
<1>6. ASSUME NEW c \in Clients, RotateFloor(c) PROVE Aside(c)
  <2>1. \E j : Set(c, j)
    BY <1>6, Zenon DEF RotateFloor
  <2>2. \E at : At(c, "rotate", at)
    BY <1>6, Zenon DEF RotateFloor
  <2>. QED BY <1>2, <1>4, <2>1, <2>2
<1>7. ASSUME NEW c \in Clients, SweepFloor(c) PROVE Aside(c)
  <2>1. \E j : Set(c, j)
    BY <1>7, Zenon DEF SweepFloor
  <2>2. \E at : At(c, "sweep", at)
    BY <1>7, Zenon DEF SweepFloor
  <2>. QED BY <1>2, <1>4, <2>1, <2>2
<1>8. ASSUME NEW c \in Clients, MintSign(c) PROVE Aside(c)
  <2>1. \E j : Set(c, j)
    BY <1>8, Zenon DEF MintSign
  <2>2. \E at : At(c, "mint", at)
    BY <1>8, Zenon DEF MintSign
  <2>. QED BY <1>2, <1>4, <2>1, <2>2
<1>9. ASSUME NEW c \in Clients, StoreRecord(c) PROVE Aside(c)
  <2>1. \E j : Set(c, j)
    BY <1>9, Zenon DEF StoreRecord
  <2>2. \E at : At(c, "seal", at)
    BY <1>9, Zenon DEF StoreRecord
  <2>. QED BY <1>2, <1>4, <2>1, <2>2
<1>10. ASSUME NEW c \in Clients, EnrollRead(c) PROVE Aside(c)
  <2>1. \E j : Set(c, j)
    BY <1>10, Zenon DEF EnrollRead
  <2>2. \E at : At(c, "enroll", at)
    BY <1>10, Zenon DEF EnrollRead
  <2>. QED BY <1>2, <1>4, <2>1, <2>2
<1>11. ASSUME NEW c \in Clients, EnrollCreate(c) PROVE Aside(c)
  <2>1. \E j : Set(c, j)
    BY <1>11, Zenon DEF EnrollCreate
  <2>2. \E at : At(c, "enroll", at)
    BY <1>11, Zenon DEF EnrollCreate
  <2>. QED BY <1>2, <1>4, <2>1, <2>2
<1>12. ASSUME NEW c \in Clients, EnrollReread(c) PROVE Aside(c)
  <2>1. \E j : Set(c, j)
    BY <1>12, Zenon DEF EnrollReread
  <2>2. \E at : At(c, "enroll", at)
    BY <1>12, Zenon DEF EnrollReread
  <2>. QED BY <1>2, <1>4, <2>1, <2>2
<1>13. ASSUME NEW c \in Clients, EnrollJudge(c) PROVE Aside(c)
  <2>1. \E j : Set(c, j)
    BY <1>13, Zenon DEF EnrollJudge
  <2>2. \E at : At(c, "enroll", at)
    BY <1>13, Zenon DEF EnrollJudge
  <2>. QED BY <1>2, <1>4, <2>1, <2>2
<1>14. ASSUME NEW c \in Clients, SignBefore(c) PROVE Aside(c)
  <2>1. \E j : Set(c, j)
    BY <1>14, Zenon DEF SignBefore
  <2>2. \E at : At(c, "nixsign", at)
    BY <1>14, Zenon DEF SignBefore
  <2>. QED BY <1>2, <1>4, <2>1, <2>2
<1>15. ASSUME NEW c \in Clients, SignCall(c) PROVE Aside(c)
  <2>1. \E j : Set(c, j)
    BY <1>15, Zenon DEF SignCall
  <2>2. \E at : At(c, "nixsign", at)
    BY <1>15, Zenon DEF SignCall
  <2>. QED BY <1>2, <1>4, <2>1, <2>2
<1>16. ASSUME NEW c \in Clients, SignAfter(c) PROVE Aside(c)
  <2>1. \E j : Set(c, j)
    BY <1>16, Zenon DEF SignAfter
  <2>2. \E at : At(c, "nixsign", at)
    BY <1>16, Zenon DEF SignAfter
  <2>. QED BY <1>2, <1>4, <2>1, <2>2
<1>17. ASSUME NEW c \in Clients, ImportNext(c) PROVE Aside(c)
  <2>1. \E j : Set(c, j)
    BY <1>17, Zenon DEF ImportNext
  <2>2. \E at : At(c, "import", at)
    BY <1>17, Zenon DEF ImportNext
  <2>. QED BY <1>2, <1>4, <2>1, <2>2
<1>18. ASSUME NEW c \in Clients, NEW k \in Keys, RotatePost(c, k) PROVE Aside(c)
  <2>1. Idle(c) /\ \E j : Set(c, j)
    BY <1>18, Zenon DEF RotatePost
  <2>. QED BY <1>3, <1>4, <2>1
<1>19. ASSUME NEW c \in Clients, NEW k \in Keys, MintRead(c, k) PROVE Aside(c)
  <2>1. Idle(c) /\ \E j : Set(c, j)
    BY <1>19, Zenon DEF MintRead
  <2>. QED BY <1>3, <1>4, <2>1
<1>20. ASSUME NEW c \in Clients, NEW k \in Keys, SealSeed(c, k) PROVE Aside(c)
  <2>1. Idle(c) /\ \E j : Set(c, j)
    BY <1>20, Zenon DEF SealSeed
  <2>. QED BY <1>3, <1>4, <2>1
<1>21. ASSUME NEW c \in Clients, NEW k \in Keys, NEW op, NixStart(c, k, op) PROVE Aside(c)
  <2>1. Idle(c) /\ \E j : Set(c, j)
    BY <1>21, Zenon DEF NixStart
  <2>. QED BY <1>3, <1>4, <2>1
<1>22. ASSUME NEW c \in Clients, NEW set \in {<<a, b>> : a, b \in Active}, ImportSet(c, set) PROVE Aside(c)
  <2>1. Idle(c) /\ Set(c, [IdleJob EXCEPT !.op = "import", !.at = "next", !.ws = set])
    BY <1>22 DEF ImportSet
  <2>. QED BY <1>3, <1>4, <2>1
<1>23. ASSUME NEW c \in Clients, SweepRead(c) PROVE Aside(c)
  <2>1. (Idle(c) \/ At(c, "sweep", "next")) /\ \E j : Set(c, j)
    BY <1>23, Zenon DEF SweepRead
  <2>. QED BY <1>2, <1>3, <1>4, <2>1
<1>24. ASSUME NEW c \in Clients, NEW k \in Keys, Ask(c, k) PROVE job' = job
  BY <1>24 DEF Ask
<1>25. ASSUME NEW c \in Clients, NEW k \in Keys, NatsMint(c, k) \/ NatsSign(c, k) PROVE Aside(c)
  <2>1. Idle(c) /\ \E j : Set(c, j)
    BY <1>25, Zenon DEF NatsMint, NatsSign, NatsKey, NatsRead
  <2>. QED BY <1>3, <1>4, <2>1
<1>26. CASE Adopt \/ ReloadGrants \/ Clock \/ (\E k \in Keys : Meddle(k)) \/ UNCHANGED custodyVars
  BY <1>26 DEF Adopt, ReloadGrants, Clock, Meddle, custodyVars
<1>27. ASSUME NEW c \in Clients, NatsFinish(c) PROVE Aside(c)
  <2>1. \E j : Set(c, j)
    BY <1>27, Zenon DEF NatsFinish
  <2>2. \E at : At(c, "nats", at)
    BY <1>27, Zenon DEF NatsFinish
  <2>. QED BY <1>2, <1>4, <2>1, <2>2
<1>. QED
  BY <1>0, <1>1, <1>5, <1>6, <1>7, <1>8, <1>9, <1>10, <1>11, <1>12, <1>13, <1>14, <1>15, <1>16, <1>17, <1>18, <1>19, <1>20, <1>21, <1>22, <1>23, <1>24, <1>25, <1>26, <1>27
  DEF CustodyNext, Starts, RotationSteps, NixSteps, Setting

(* The writers of values are as they were, or a writer starts, writes, is  *)
(* dropped or dies.                                                        *)
LEMMA WriterSteps ==
  ASSUME CustodyTypeOK, ProbeIdle, [CustodyNext]_custodyVars
  PROVE \/ WritersSame
        \/ \E c \in Clients : (\E k \in Keys : RotateValue(c, k)) \/ Drop(c)
        \/ BootProbe \/ Crash \/ Setting \/ \E c \in Jobs : Put(c)
<1>0. JobsTyped /\ Clients \subseteq Jobs /\ Boot \in Jobs /\ Moves
  BY BootIsAJob, CustodyMoves DEF CustodyTypeOK
<1>1. CASE job' = job
  BY <1>1 DEF WritersSame, Writers, Writing
<1>2. ASSUME NEW c \in Jobs, Aside(c), ~(\E k \in Keys : RotateValue(c, k)), ~BootProbe, ~Crash, ~Put(c)
      PROVE WritersSame
  <2>1. ~Writing(c)'
    <3>1. SUFFICES ASSUME job'[c].op \in {"value", "boot"}, job'[c].ws # << >> PROVE FALSE
      BY DEF Writing
    <3>2. SameJob(c)
      BY <1>0, <1>2, <3>1 DEF Moves, MovesTo, ValueMove, BootMove
    <3>. QED BY <1>2, <3>1, <3>2 DEF SameJob, Aside, Writing
  <2>2. \A d \in Jobs \ {c} : job'[d] = job[d]
    BY <1>2 DEF Aside
  <2>3. ~Writing(c)
    BY <1>2 DEF Aside
  <2>4. \A d \in Jobs : Writing(d)' = Writing(d)
    BY <2>1, <2>2, <2>3 DEF Writing
  <2>. QED BY <2>2, <2>3, <2>4 DEF WritersSame, Writers
<1>3. ASSUME NEW c \in Jobs, c \notin Clients, NEW k \in Keys, RotateValue(c, k) PROVE FALSE
  <2>1. c = Boot
    BY <1>3 DEF Jobs
  <2>2. JobShape([IdleJob EXCEPT !.op = "value", !.k = k, !.at = "put", !.ws = GeneratedWrites(k, serial + 1)])
        /\ [IdleJob EXCEPT !.op = "value", !.k = k, !.at = "put", !.ws = GeneratedWrites(k, serial + 1)].op = "value"
    BY IdleShape DEF JobShape, JobFields
  <2>3. job'[Boot].op = "value"
    BY <1>0, <1>3, <2>1, <2>2, BeginEffect DEF RotateValue
  <2>4. job'[Boot].op \in {"idle", "boot"}
    BY <1>0 DEF Moves, MovesTo
  <2>. QED BY <2>3, <2>4
<1>. QED BY <1>0, <1>1, <1>2, <1>3, OtherSteps

(* The key and the certificate of a pair that no other pair shares. *)
LEMMA PairNames ==
  ASSUME NEW k \in Keys, SolePair(k)
  PROVE /\ Entry[k].pairOf \in Keys /\ Entry[k].gen = "pair" /\ Entry[Entry[k].pairOf].gen = "cert"
        /\ k # Entry[k].pairOf /\ PairKey(Entry[k].pairOf) = k
        /\ \A q \in Keys : Entry[q].gen = "pair" /\ Entry[q].pairOf = Entry[k].pairOf => q = k
<1>1. /\ Entry[k].pairOf \in Keys /\ Entry[k].gen = "pair" /\ Entry[Entry[k].pairOf].gen = "cert"
      /\ \A q \in Keys : Entry[q].gen = "pair" /\ Entry[q].pairOf = Entry[k].pairOf => q = k
  BY DEF SolePair, CertRecipe
<1>2. PairKey(Entry[k].pairOf) = k
  BY <1>1 DEF PairKey
<1>. QED BY <1>1, <1>2

(* What a pair's values are, before and after a step. *)
SameValue(q) == HasKv(q)' = HasKv(q) /\ Last(kv[q])' = Last(kv[q])
SamePair(k) == SameValue(k) /\ SameValue(Entry[k].pairOf)

(* A pair that no write reaches stays as it was. *)
LEMMA PairedStays ==
  ASSUME NEW k \in Keys, SamePair(k), Paired(k), Entry[k].pairOf \in torn => Entry[k].pairOf \in torn'
  PROVE Paired(k)'
  BY DEF SamePair, SameValue, Paired, Number

(* Only a writer and a set touch a pair. *)
LEMMA PairUntouched ==
  ASSUME CustodyTypeOK, [CustodyNext]_custodyVars, \A c \in Jobs : ~Put(c), ~Setting,
         NEW k \in Keys, SolePair(k)
  PROVE SamePair(k)
<1>0. StoresTyped /\ Entry[k].pairOf \in Keys /\ Entry[k].gen = "pair" /\ Entry[Entry[k].pairOf].gen = "cert"
  BY PairNames DEF CustodyTypeOK
<1>1. CASE kv' = kv
  BY <1>1 DEF SamePair, SameValue, HasKv, Last
<1>2. ASSUME NEW p \in Keys, NEW v \in StoredType, Writes(p, v),
             WriterStores(p, v) \/ ClientStores(p, v) \/ SealerStores(p, v)
      PROVE SamePair(k)
  <2>1. ~WriterStores(p, v)
    BY DEF WriterStores, Writers
  <2>2. Entry[p].gen = "none"
    <3>1. CASE ClientStores(p, v)
      BY <3>1 DEF ClientStores, Setting
    <3>2. CASE SealerStores(p, v)
      BY <3>2, RoutingAssumption DEF SealerStores
    <3>. QED BY <1>2, <2>1, <3>1, <3>2
  <2>3. p # k /\ p # Entry[k].pairOf
    BY <1>0, <2>2
  <2>. QED BY <1>0, <1>2, <2>3, WrittenLast, KeysArePaths DEF SamePair, SameValue
<1>. QED BY <1>1, <1>2, StoreWrites

(* A write of another path. *)
LEMMA PairMissed ==
  ASSUME StoresTyped, NEW p \in Keys, NEW v \in StoredType, Writes(p, v),
         NEW k \in Keys, SolePair(k), p # k, p # Entry[k].pairOf
  PROVE SamePair(k)
  BY PairNames, WrittenLast, KeysArePaths DEF SamePair, SameValue

(* The reconcile pass writes nothing while it probes. *)
LEMMA ProbeIdleStays ==
  ASSUME CustodyTypeOK, ProbeIdle, [CustodyNext]_custodyVars
  PROVE ProbeIdle'
<1>0. JobsTyped /\ Boot \in Jobs /\ Moves /\ JobShape(job[Boot])
  BY BootIsAJob, CustodyMoves, JobsKnown DEF CustodyTypeOK
<1>. SUFFICES ASSUME job'[Boot].op = "boot", job'[Boot].at = "probe"
              PROVE job'[Boot].ws = << >> /\ ~job'[Boot].half
  BY DEF ProbeIdle
<1>1. CASE SameJob(Boot)
  BY <1>1 DEF SameJob, ProbeIdle
<1>2. CASE BootProbe
  <2>. DEFINE k == order[job[Boot].n]
              next == [job[Boot] EXCEPT !.n = @ + 1]
              miss == [next EXCEPT !.k = k]
              put == [job[Boot] EXCEPT !.at = "put", !.ws = GeneratedWrites(k, serial + 1)]
  <2>1. job[Boot].ws = << >> /\ ~job[Boot].half
    BY <1>2 DEF BootProbe, At, ProbeIdle
  <2>2. JobShape(next) /\ next.ws = job[Boot].ws /\ next.half = job[Boot].half
    BY <1>0 DEF JobShape, JobFields
  <2>3. miss.ws = next.ws /\ miss.half = next.half
    BY <2>2 DEF JobShape, JobFields
  <2>4. JobShape(put) /\ put.at = "put"
    BY <1>0 DEF JobShape, JobFields
  <2>5. Set(Boot, next) \/ Set(Boot, miss) \/ Set(Boot, IdleJob) \/ Begin(Boot, put)
    BY <1>2 DEF BootProbe
  <2>6. ~Begin(Boot, put)
    BY <1>0, <2>4, BeginEffect
  <2>7. job'[Boot] = next \/ job'[Boot] = miss \/ job'[Boot] = IdleJob
    BY <1>0, <2>5, <2>6, SetIs
  <2>. QED BY <2>1, <2>2, <2>3, <2>7, IdleShape
<1>3. CASE Put(Boot)
  <2>. DEFINE j == IF Len(job[Boot].ws) # 1 THEN [job[Boot] EXCEPT !.ws = Tail(@), !.half = TRUE]
                   ELSE [job[Boot] EXCEPT !.ws = << >>, !.at = "probe", !.n = @ + 1, !.half = FALSE]
  <2>1. job'[Boot] = j
    BY <1>0, <1>3, SetIs DEF Put
  <2>2. job[Boot].at = "put"
    BY <1>3 DEF Put
  <2>. QED BY <1>0, <2>1, <2>2 DEF JobShape, JobFields
<1>4. CASE Crash
  <2>1. job'[Boot] = BootJob
    BY <1>0, <1>4 DEF Crash
  <2>. QED BY <2>1 DEF BootJob, IdleJob
<1>. QED BY <1>0, <1>1, <1>2, <1>3, <1>4 DEF Moves, MovesTo, BootMove

(* The pair part of the inductive invariant. *)
PairInv == ProbeIdle /\ WritersOk /\ PairsAtWork /\ PairsRest

(* A writer that has not overlapped another is the only one. *)
LEMMA SoleAlone ==
  ASSUME WritersOk, NEW c \in Writers, NEW d \in Writers, job[d].solo
  PROVE c = d
  BY DEF WritersOk, SoleWriter

(* A step that leaves the writers alone. *)
LEMMA PairsWhenSame ==
  ASSUME CustodyTypeOK, PairInv, [CustodyNext]_custodyVars, WritersSame,
         \A c \in Jobs : ~Put(c), ~Setting, torn' = torn
  PROVE WritersOk' /\ PairsAtWork' /\ PairsRest'
<1>1. Writers' = Writers /\ \A d \in Writers : job'[d] = job[d] /\ LastPath(d)' = LastPath(d)
  BY DEF WritersSame, LastPath, Last
<1>2. \A p : Busy(p)' = Busy(p)
  BY <1>1 DEF Busy
<1>3. WritersOk'
  BY <1>1 DEF PairInv, WritersOk, SoleWriter
<1>4. ASSUME NEW k \in Keys, SolePair(k), Paired(k) PROVE Paired(k)'
  BY <1>4, PairUntouched, PairedStays
<1>5. PairsAtWork'
  <2>. SUFFICES ASSUME NEW k \in Keys, SolePair(k), NEW c \in Writers, LastPath(c) = Entry[k].pairOf,
                       job[c].solo
                PROVE PairAtWork(k, c)'
    BY <1>1 DEF PairsAtWork, SolePair, CertRecipe
  <2>1. PairAtWork(k, c)
    BY DEF PairInv, PairsAtWork
  <2>2. SameValue(k)
    BY PairUntouched DEF SamePair
  <2>. QED BY <1>1, <1>4, <2>1, <2>2 DEF PairAtWork, SameValue, Number
<1>6. PairsRest'
  <2>. SUFFICES ASSUME NEW k \in Keys, SolePair(k), ~Busy(Entry[k].pairOf) PROVE Paired(k)'
    BY <1>2 DEF PairsRest, SolePair, CertRecipe
  <2>. QED BY <1>4 DEF PairInv, PairsRest
<1>. QED BY <1>3, <1>5, <1>6

(* A set makes those at work overlap it, and tears the pair it reaches. *)
LEMMA PairsWhenSet ==
  ASSUME CustodyTypeOK, PairInv, NEW c \in Clients, NEW k \in Keys, SetValue(c, k)
  PROVE WritersOk' /\ PairsAtWork' /\ PairsRest'
<1>0. StoresTyped /\ JobsTyped /\ serial + 1 \in Nat
  BY DEF CustodyTypeOK, StoresTyped
<1>1. job' = Overlapped /\ torn' = torn \cup CertOf(k)
  BY DEF SetValue
<1>2. \A d \in Jobs : SameJob(d) /\ (Writing(d) => ~job'[d].solo)
  BY <1>0, <1>1, OverlapEffect
<1>3. \A d \in Jobs : Writing(d)' = Writing(d)
  BY <1>2 DEF SameJob, Writing
<1>4. Writers' = Writers
  BY <1>3 DEF Writers
<1>5. \A d \in Writers : /\ ~job'[d].solo /\ job'[d].ws = job[d].ws /\ job'[d].half = job[d].half
                         /\ LastPath(d)' = LastPath(d)
  BY <1>2 DEF Writers, SameJob, LastPath
<1>6. WritersOk'
  BY <1>4, <1>5 DEF PairInv, WritersOk, SoleWriter, WritesOk
<1>7. PairsAtWork'
  BY <1>4, <1>5 DEF PairsAtWork
<1>8. PairsRest'
  <2>. SUFFICES ASSUME NEW p \in Keys, SolePair(p), ~Busy(Entry[p].pairOf) PROVE Paired(p)'
    BY <1>4, <1>5 DEF PairsRest, SolePair, CertRecipe, Busy
  <2>1. Paired(p)
    BY DEF PairInv, PairsRest
  <2>2. PICK v \in StoredType : Writes(k, v)
    <3>1. PICK what \in {"value", "tlskey"} : Writes(k, [what |-> what, n |-> serial + 1])
      BY DEF SetValue, Writes
    <3>2. [what |-> what, n |-> serial + 1] \in StoredType
      BY <1>0, PlainStored
    <3>. QED BY <3>1, <3>2
  <2>3. CASE k = p \/ k = Entry[p].pairOf
    <3>1. Entry[p].pairOf \in CertOf(k)
      BY <2>3, PairNames DEF CertOf
    <3>. QED BY <1>1, <3>1 DEF Paired
  <2>4. CASE k # p /\ k # Entry[p].pairOf
    BY <1>0, <1>1, <2>1, <2>2, <2>4, PairMissed, PairedStays
  <2>. QED BY <2>3, <2>4
<1>. QED BY <1>6, <1>7, <1>8

(* A writer starts. *)
Starting(c, k) ==
  /\ c \in Jobs /\ k \in Keys /\ CanGenerate(k) /\ ~Writing(c) /\ kv' = kv /\ torn' = torn
  /\ \E j : /\ Begin(c, j) /\ JobShape(j) /\ j.op \in {"value", "boot"} /\ ~j.half
            /\ j.ws = GeneratedWrites(k, serial + 1)

(* What a writer that starts does to the others. *)
LEMMA StartEffect ==
  ASSUME CustodyTypeOK, NEW c, NEW k, Starting(c, k)
  PROVE /\ c \in Jobs /\ k \in Keys /\ CanGenerate(k) /\ c \notin Writers
        /\ Writers' = Writers \cup {c}
        /\ job'[c].ws = GeneratedWrites(k, serial + 1) /\ ~job'[c].half /\ job'[c].solo = (Writers = {})
        /\ job'[c].ws # << >> /\ WritesOk(job'[c].ws)
        /\ \A d \in Writers : /\ job'[d].solo = FALSE /\ job'[d].ws = job[d].ws
                              /\ job'[d].half = job[d].half /\ d # c
<1>0. StoresTyped /\ JobsTyped /\ serial + 1 \in Nat
  BY DEF CustodyTypeOK, StoresTyped
<1>1. PICK j : /\ Begin(c, j) /\ JobShape(j) /\ j.op \in {"value", "boot"} /\ ~j.half
               /\ j.ws = GeneratedWrites(k, serial + 1)
  BY DEF Starting
<1>2. c \in Jobs /\ k \in Keys /\ CanGenerate(k) /\ ~Writing(c)
  BY DEF Starting
<1>3. GeneratedWrites(k, serial + 1) # << >> /\ WritesOk(GeneratedWrites(k, serial + 1))
  BY <1>0, <1>2, GeneratedTyped
<1>4. /\ job'[c].op \in {"value", "boot"} /\ job'[c].ws = GeneratedWrites(k, serial + 1)
      /\ ~job'[c].half /\ job'[c].solo = (Writers = {})
  BY <1>0, <1>1, <1>2, BeginEffect
<1>5. \A d \in Jobs \ {c} : /\ SameJob(d) /\ (Writing(d) => job'[d].solo = FALSE)
  BY <1>0, <1>1, <1>2, BeginEffect
<1>6. \A d \in Jobs \ {c} : Writing(d)' = Writing(d)
  BY <1>5 DEF SameJob, Writing
<1>7. Writing(c)'
  BY <1>3, <1>4 DEF Writing
<1>8. Writers' = Writers \cup {c} /\ c \notin Writers
  BY <1>2, <1>6, <1>7 DEF Writers
<1>9. \A d \in Writers : job'[d].solo = FALSE /\ job'[d].ws = job[d].ws /\ job'[d].half = job[d].half /\ d # c
  BY <1>2, <1>5 DEF Writers, SameJob
<1>. QED BY <1>2, <1>3, <1>4, <1>8, <1>9

(* A writer that starts keeps the pairs. *)
LEMMA PairsWhenStarting ==
  ASSUME CustodyTypeOK, PairInv, NEW c, NEW k0, Starting(c, k0)
  PROVE WritersOk' /\ PairsAtWork' /\ PairsRest'
<1>0. StoresTyped /\ JobsTyped /\ serial + 1 \in Nat
  BY DEF CustodyTypeOK, StoresTyped
<1>1. /\ c \in Jobs /\ k0 \in Keys /\ CanGenerate(k0) /\ c \notin Writers
      /\ Writers' = Writers \cup {c}
      /\ job'[c].ws = GeneratedWrites(k0, serial + 1) /\ ~job'[c].half /\ job'[c].solo = (Writers = {})
      /\ job'[c].ws # << >> /\ WritesOk(job'[c].ws)
      /\ \A d \in Writers : /\ job'[d].solo = FALSE /\ job'[d].ws = job[d].ws
                            /\ job'[d].half = job[d].half /\ d # c
  BY StartEffect
<1>2. kv' = kv /\ torn' = torn
  BY DEF Starting
<1>3. WritersOk'
  <2>1. ASSUME NEW d \in Writers PROVE WritesOk(job'[d].ws) /\ ~job'[d].solo /\ (job'[d].half => Len(job'[d].ws) = 1)
    BY <1>1 DEF PairInv, WritersOk
  <2>2. SoleWriter(c)'
    BY <1>1 DEF SoleWriter
  <2>. QED BY <1>1, <2>1, <2>2 DEF WritersOk, SoleWriter
<1>4. \A k \in Keys : Paired(k)' = Paired(k)
  BY <1>2 DEF Paired, HasKv, Number, Last
<1>5. PairsAtWork'
  <2>. SUFFICES ASSUME NEW k \in Keys, SolePair(k), NEW d \in Writers', LastPath(d)' = Entry[k].pairOf,
                       job'[d].solo
                PROVE PairAtWork(k, d)'
    BY DEF PairsAtWork, SolePair, CertRecipe
  <2>1. d = c /\ Writers = {}
    BY <1>1
  <2>2. Paired(k)'
    BY <1>4, <2>1 DEF PairInv, PairsRest, Busy
  <2>3. ASSUME Len(job'[c].ws) = 1 PROVE HasKv(k) /\ job'[c].ws[1].v.n = Number(k)
    <3>. DEFINE s == GeneratedWrites(k0, serial + 1)
    <3>1. s = job'[c].ws /\ s[1].p = Entry[k].pairOf
      BY <1>1, <2>1, <2>3 DEF LastPath, Last
    <3>2. Entry[k].pairOf \in Keys /\ Entry[Entry[k].pairOf].gen = "cert" /\ PairKey(Entry[k].pairOf) = k
      BY PairNames
    <3>3. CASE SingleWrite(k0, serial + 1, s)
      <4>1. k0 = Entry[k].pairOf
        BY <3>1, <3>3 DEF SingleWrite
      <4>2. Entry[k0].gen = "random" \/ PairKey(k0) = NoKey
        BY <3>3 DEF SingleWrite
      <4>. QED BY <3>2, <4>1, <4>2, ScenesAssumption
    <3>4. CASE CertWrite(k0, s)
      <4>1. s[1].p = k0 /\ s[1].v.n = Number(PairKey(k0)) /\ HasKv(PairKey(k0))
        BY <3>4 DEF CertWrite, CertPem
      <4>. QED BY <3>1, <3>2, <4>1
    <3>5. CASE DoubleWrite(k0, serial + 1, s)
      <4>1. Len(s) = 2
        BY <3>5 DEF DoubleWrite
      <4>. QED BY <2>3, <3>1, <4>1
    <3>. QED BY <1>0, <1>1, <3>3, <3>4, <3>5, GeneratedForms
  <2>. QED BY <1>2, <2>1, <2>2, <2>3 DEF PairAtWork, HasKv, Number, Last
<1>6. PairsRest'
  <2>. SUFFICES ASSUME NEW k \in Keys, SolePair(k), ~Busy(Entry[k].pairOf)' PROVE Paired(k)'
    BY DEF PairsRest, SolePair, CertRecipe
  <2>1. ~Busy(Entry[k].pairOf)
    BY <1>1 DEF Busy, LastPath, Last
  <2>. QED BY <1>4, <2>1 DEF PairInv, PairsRest
<1>. QED BY <1>3, <1>5, <1>6

(* What a write leaves of the handlers. *)
LEMMA PutEffect ==
  ASSUME CustodyTypeOK, NEW c \in Jobs, Put(c)
  PROVE /\ c \in Writers /\ \A d \in Jobs \ {c} : job'[d] = job[d]
        /\ job[c].ws[1] \in WriteType /\ Writes(job[c].ws[1].p, job[c].ws[1].v)
        /\ Len(job[c].ws) \in Nat /\ Len(job[c].ws) > 0
        /\ Len(job[c].ws) # 1 =>
             /\ job'[c].ws = Tail(job[c].ws) /\ job'[c].half /\ job'[c].solo = job[c].solo
             /\ Writers' = Writers /\ torn' = torn
        /\ Len(job[c].ws) = 1 =>
             /\ Writers' = Writers \ {c}
             /\ torn' = IF job[c].solo THEN torn \ {job[c].ws[1].p} ELSE torn \cup {job[c].ws[1].p}
<1>0. JobsTyped /\ JobShape(job[c])
  BY JobsKnown DEF CustodyTypeOK
<1>. DEFINE j == IF Len(job[c].ws) # 1 THEN [job[c] EXCEPT !.ws = Tail(@), !.half = TRUE]
                 ELSE IF c = Boot
                 THEN [job[c] EXCEPT !.ws = << >>, !.at = "probe", !.n = @ + 1, !.half = FALSE]
                 ELSE IdleJob
<1>1. job'[c] = j /\ \A d \in Jobs \ {c} : job'[d] = job[d]
  <2>1. Set(c, j)
    BY DEF Put
  <2>. QED BY <1>0, <2>1, SetIs, SetOthers
<1>2. Writing(c) /\ c \in Writers
  BY DEF Put, Writers
<1>3. job[c].ws[1] \in WriteType /\ Len(job[c].ws) \in Nat /\ Len(job[c].ws) > 0 /\ job[c].ws \in Seq(WriteType)
  BY <1>0, <1>2, LastWrite, SeqCut
<1>4. Writes(job[c].ws[1].p, job[c].ws[1].v)
  BY DEF Put, Writes
<1>5. \A d \in Jobs \ {c} : Writing(d)' = Writing(d)
  BY <1>1 DEF Writing
<1>6. ASSUME Len(job[c].ws) # 1
      PROVE /\ job'[c].ws = Tail(job[c].ws) /\ job'[c].half /\ job'[c].solo = job[c].solo
            /\ Writers' = Writers /\ torn' = torn
  <2>1. job'[c].ws = Tail(job[c].ws) /\ job'[c].half /\ job'[c].solo = job[c].solo /\ job'[c].op = job[c].op
    BY <1>0, <1>1, <1>6 DEF JobShape, JobFields
  <2>2. Len(Tail(job[c].ws)) = Len(job[c].ws) - 1
    BY <1>3
  <2>3. Tail(job[c].ws) # << >>
    <3>1. \A s : s = << >> => Len(s) = 0
      OBVIOUS
    <3>2. Len(Tail(job[c].ws)) # 0
      BY <1>3, <1>6, <2>2
    <3>. QED BY <3>1, <3>2, Zenon
  <2>4. Writing(c)'
    BY <1>2, <2>1, <2>3 DEF Writing
  <2>5. torn' = torn
    BY <1>6 DEF Put
  <2>. QED BY <1>2, <1>5, <2>1, <2>4, <2>5 DEF Writers
<1>7. ASSUME Len(job[c].ws) = 1
      PROVE /\ Writers' = Writers \ {c}
            /\ torn' = IF job[c].solo THEN torn \ {job[c].ws[1].p} ELSE torn \cup {job[c].ws[1].p}
  <2>1. job'[c].ws = << >>
    BY <1>0, <1>1, <1>7, IdleShape DEF JobShape, JobFields
  <2>2. ~Writing(c)'
    BY <2>1 DEF Writing
  <2>3. torn' = IF job[c].solo THEN torn \ {job[c].ws[1].p} ELSE torn \cup {job[c].ws[1].p}
    BY <1>7 DEF Put
  <2>. QED BY <1>5, <2>2, <2>3 DEF Writers
<1>. QED BY <1>1, <1>2, <1>3, <1>4, <1>6, <1>7

(* The first write of a pair, the private key, keeps the pairs. *)
LEMMA PairsWhenHalf ==
  ASSUME CustodyTypeOK, PairInv, NEW c \in Jobs, Put(c), Len(job[c].ws) # 1
  PROVE WritersOk' /\ PairsAtWork' /\ PairsRest'
<1>0. StoresTyped
  BY DEF CustodyTypeOK
<1>1. /\ c \in Writers /\ \A d \in Jobs \ {c} : job'[d] = job[d]
      /\ job[c].ws[1] \in WriteType /\ Writes(job[c].ws[1].p, job[c].ws[1].v)
      /\ job'[c].ws = Tail(job[c].ws) /\ job'[c].half /\ job'[c].solo = job[c].solo
      /\ Writers' = Writers /\ torn' = torn
  BY PutEffect
<1>. DEFINE a == job[c].ws[1]
            b == job[c].ws[2]
<1>2. /\ Len(job[c].ws) = 2 /\ Entry[a.p].gen = "pair" /\ Entry[b.p].gen = "cert"
      /\ Entry[a.p].pairOf = b.p /\ a.v.n = b.v.n
  BY <1>1 DEF PairInv, WritersOk, WritesOk
<1>3. job[c].ws \in Seq(WriteType)
  BY <1>1, LastWrite DEF CustodyTypeOK, Writers
<1>4. Len(job'[c].ws) = 1 /\ job'[c].ws[1] = b
  BY <1>1, <1>2, <1>3
<1>5. LastPath(c) = b.p /\ LastPath(c)' = b.p
  BY <1>2, <1>4 DEF LastPath, Last
<1>6. \A d \in Writers \ {c} : job'[d] = job[d] /\ LastPath(d)' = LastPath(d)
  BY <1>1 DEF Writers, LastPath, Last
<1>7. \A p : Busy(p)' = Busy(p)
  BY <1>1, <1>5, <1>6 DEF Busy
<1>8. a.p \in Keys /\ a.v \in StoredType
  BY <1>1, WriteStored
<1>. HIDE DEF a, b
<1>9. WritersOk'
  <2>1. WritesOk(job'[c].ws)
    BY <1>2, <1>4 DEF WritesOk
  <2>2. SoleWriter(c)'
    BY <1>1 DEF PairInv, WritersOk, SoleWriter
  <2>3. ASSUME NEW d \in Writers \ {c} PROVE WritesOk(job'[d].ws) /\ SoleWriter(d)' /\ (job'[d].half => Len(job'[d].ws) = 1)
    BY <1>1, <1>6 DEF PairInv, WritersOk, SoleWriter
  <2>. QED BY <1>1, <1>4, <2>1, <2>2, <2>3 DEF WritersOk
<1>10. PairsAtWork'
  <2>. SUFFICES ASSUME NEW k \in Keys, SolePair(k), NEW d \in Writers, LastPath(d)' = Entry[k].pairOf,
                       job'[d].solo
                PROVE PairAtWork(k, d)'
    BY <1>1 DEF PairsAtWork, SolePair, CertRecipe
  <2>1. d = c
    BY <1>1, <1>6, SoleAlone DEF PairInv
  <2>2. a.p = k
    BY <1>2, <1>5, <1>8, <2>1, PairNames
  <2>3. HasKv(k)' /\ Last(kv[k])' = a.v
    BY <1>0, <1>1, <1>8, <2>2, WrittenLast, KeysArePaths DEF a
  <2>. QED BY <1>1, <1>2, <1>4, <2>1, <2>3 DEF PairAtWork, Number
<1>11. PairsRest'
  <2>. SUFFICES ASSUME NEW k \in Keys, SolePair(k), ~Busy(Entry[k].pairOf) PROVE Paired(k)'
    BY <1>7 DEF PairsRest, SolePair, CertRecipe
  <2>1. b.p # Entry[k].pairOf
    BY <1>1, <1>5 DEF Busy
  <2>2. a.p # k /\ a.p # Entry[k].pairOf
    BY <1>2, <2>1, PairNames
  <2>3. SamePair(k)
    BY <1>0, <1>1, <1>8, <2>2, PairMissed DEF a
  <2>. QED BY <1>1, <2>3, PairedStays DEF PairInv, PairsRest
<1>. QED BY <1>9, <1>10, <1>11

(* The last write, of the certificate, leaves the pair whole or marks it   *)
(* torn.                                                                   *)
LEMMA PairsWhenDone ==
  ASSUME CustodyTypeOK, PairInv, NEW c \in Jobs, Put(c), Len(job[c].ws) = 1
  PROVE WritersOk' /\ PairsAtWork' /\ PairsRest'
<1>0. StoresTyped
  BY DEF CustodyTypeOK
<1>. DEFINE a == job[c].ws[1]
<1>1. /\ c \in Writers /\ \A d \in Jobs \ {c} : job'[d] = job[d]
      /\ a \in WriteType /\ Writes(a.p, a.v)
      /\ Writers' = Writers \ {c}
      /\ torn' = IF job[c].solo THEN torn \ {a.p} ELSE torn \cup {a.p}
  BY PutEffect
<1>2. Entry[a.p].gen \in {"cert", "random"} /\ LastPath(c) = a.p
  BY <1>1 DEF PairInv, WritersOk, WritesOk, LastPath, Last
<1>3. a.p \in Keys /\ a.v \in StoredType
  BY <1>1, WriteStored
<1>4. \A d \in Writers' : d \in Writers /\ d # c /\ job'[d] = job[d] /\ LastPath(d)' = LastPath(d)
  BY <1>1 DEF Writers, LastPath, Last
<1>5. \A d \in Writers' : ~job'[d].solo
  BY <1>1, <1>4, SoleAlone DEF PairInv
<1>. HIDE DEF a
<1>6. WritersOk'
  BY <1>4, <1>5 DEF PairInv, WritersOk, SoleWriter
<1>7. PairsAtWork'
  BY <1>5 DEF PairsAtWork
<1>8. PairsRest'
  <2>. SUFFICES ASSUME NEW k \in Keys, SolePair(k), ~Busy(Entry[k].pairOf)' PROVE Paired(k)'
    BY DEF PairsRest, SolePair, CertRecipe
  <2>0. /\ Entry[k].pairOf \in Keys /\ Entry[k].gen = "pair" /\ k # Entry[k].pairOf
    BY PairNames
  <2>1. a.p # k
    BY <1>2, <2>0
  <2>2. CASE a.p = Entry[k].pairOf /\ job[c].solo
    <3>1. HasKv(k) /\ a.v.n = Number(k)
      BY <1>1, <1>2, <2>2 DEF PairInv, PairsAtWork, PairAtWork, a
    <3>2. SameValue(k) /\ Last(kv[Entry[k].pairOf])' = a.v
      BY <1>0, <1>1, <1>3, <2>0, <2>1, <2>2, WrittenLast, KeysArePaths DEF SameValue
    <3>. QED BY <2>2, <3>1, <3>2 DEF Paired, Number, SameValue
  <2>3. CASE a.p = Entry[k].pairOf /\ ~job[c].solo
    BY <1>1, <2>3 DEF Paired
  <2>4. CASE a.p # Entry[k].pairOf
    <3>1. ~Busy(Entry[k].pairOf)
      BY <1>1, <1>2, <1>4, <2>4 DEF Busy
    <3>2. SamePair(k)
      BY <1>0, <1>1, <1>3, <2>1, <2>4, PairMissed
    <3>3. Entry[k].pairOf \in torn => Entry[k].pairOf \in torn'
      BY <1>1, <2>4
    <3>. QED BY <3>1, <3>2, <3>3, PairedStays DEF PairInv, PairsRest
  <2>. QED BY <2>2, <2>3, <2>4
<1>. QED BY <1>6, <1>7, <1>8

(* A writer that ends early leaves its pair as it was, or marked as torn. *)
LEMMA LeftPaired ==
  ASSUME PairInv, kv' = kv, torn \subseteq torn', NEW k \in Keys, SolePair(k),
         \A d \in Writers : LastPath(d) = Entry[k].pairOf /\ HalfWritten(d) => Entry[k].pairOf \in torn'
  PROVE Paired(k)' \/ \E d \in Writers : LastPath(d) = Entry[k].pairOf /\ ~HalfWritten(d) /\ ~Paired(k)
<1>1. SamePair(k)
  BY DEF SamePair, SameValue, HasKv, Last
<1>2. CASE Paired(k)
  BY <1>1, <1>2, PairedStays
<1>3. CASE Entry[k].pairOf \in torn'
  BY <1>3 DEF Paired
<1>4. CASE ~Paired(k) /\ Entry[k].pairOf \notin torn'
  <2>1. Busy(Entry[k].pairOf)
    BY <1>4 DEF PairInv, PairsRest
  <2>. QED BY <1>4, <2>1 DEF Busy
<1>. QED BY <1>2, <1>3, <1>4

(* A writer that is not half done has left its pair whole. *)
LEMMA WholePaired ==
  ASSUME PairInv, NEW k \in Keys, SolePair(k), NEW d \in Writers, LastPath(d) = Entry[k].pairOf,
         ~HalfWritten(d)
  PROVE Paired(k)
<1>1. ~job[d].half /\ job[d].solo
  BY DEF HalfWritten, Writers
<1>. QED BY <1>1 DEF PairInv, PairsAtWork, PairAtWork

(* A writer that is dropped leaves its pair whole or torn. *)
LEMMA PairsWhenDropped ==
  ASSUME CustodyTypeOK, PairInv, NEW c \in Clients, Drop(c)
  PROVE WritersOk' /\ PairsAtWork' /\ PairsRest'
<1>0. JobsTyped /\ c \in Jobs
  BY BootIsAJob DEF CustodyTypeOK
<1>1. job'[c] = IdleJob /\ (\A d \in Jobs \ {c} : job'[d] = job[d]) /\ kv' = kv
  BY <1>0, SetIs, SetOthers DEF Drop
<1>2. torn' = torn \cup (IF HalfWritten(c) THEN {LastPath(c)} ELSE {})
  BY DEF Drop
<1>3. Writers' = Writers \ {c}
  BY <1>1, IdleShape DEF Writers, Writing
<1>4. \A d \in Writers' : d \in Writers /\ d # c /\ job'[d] = job[d] /\ LastPath(d)' = LastPath(d)
  BY <1>1, <1>3 DEF Writers, LastPath, Last
<1>5. \A d \in Writers' : job'[d].solo => c \notin Writers /\ Writers = {d} /\ Writers' = {d} /\ torn' = torn
  <2>. SUFFICES ASSUME NEW d \in Writers', job'[d].solo
                PROVE c \notin Writers /\ Writers = {d} /\ Writers' = {d} /\ torn' = torn
    OBVIOUS
  <2>1. d \in Writers /\ d # c /\ job[d].solo
    BY <1>4
  <2>2. Writers = {d}
    BY <2>1 DEF PairInv, WritersOk, SoleWriter
  <2>3. c \notin Writers /\ Writers' = {d}
    BY <1>3, <2>1, <2>2
  <2>4. ~HalfWritten(c)
    BY <1>0, <2>3 DEF HalfWritten, Writers
  <2>. QED BY <1>2, <2>2, <2>3, <2>4
<1>6. WritersOk'
  BY <1>4, <1>5 DEF PairInv, WritersOk, SoleWriter
<1>7. PairsAtWork'
  <2>. SUFFICES ASSUME NEW k \in Keys, SolePair(k), NEW d \in Writers', LastPath(d)' = Entry[k].pairOf,
                       job'[d].solo
                PROVE PairAtWork(k, d)'
    BY DEF PairsAtWork, SolePair, CertRecipe
  <2>1. PairAtWork(k, d) /\ torn' = torn /\ job'[d] = job[d]
    BY <1>4, <1>5 DEF PairInv, PairsAtWork
  <2>. QED BY <1>1, <2>1 DEF PairAtWork, Paired, HasKv, Number, Last
<1>8. PairsRest'
  <2>. SUFFICES ASSUME NEW k \in Keys, SolePair(k), ~Busy(Entry[k].pairOf)' PROVE Paired(k)'
    BY DEF PairsRest, SolePair, CertRecipe
  <2>1. \A d \in Writers : LastPath(d) = Entry[k].pairOf => d = c
    BY <1>3, <1>4 DEF Busy
  <2>2. \A d \in Writers : LastPath(d) = Entry[k].pairOf /\ HalfWritten(d) => Entry[k].pairOf \in torn'
    BY <1>2, <2>1
  <2>. QED BY <1>1, <1>2, <2>2, LeftPaired, WholePaired
<1>. QED BY <1>6, <1>7, <1>8

(* So does every writer when the process dies. *)
LEMMA PairsWhenCrashed ==
  ASSUME CustodyTypeOK, PairInv, Crash
  PROVE WritersOk' /\ PairsAtWork' /\ PairsRest'
<1>1. \A d \in Jobs : job'[d] = BootJob \/ job'[d] = IdleJob
  BY DEF Crash
<1>2. BootJob.ws = << >> /\ IdleJob.ws = << >>
  BY DEF BootJob, IdleJob
<1>3. Writers' = {}
  BY <1>1, <1>2 DEF Writers, Writing
<1>4. kv' = kv /\ torn' = torn \cup {LastPath(d) : d \in {e \in Jobs : HalfWritten(e)}}
  BY DEF Crash
<1>5. WritersOk' /\ PairsAtWork'
  BY <1>3 DEF WritersOk, PairsAtWork
<1>6. PairsRest'
  <2>. SUFFICES ASSUME NEW k \in Keys, SolePair(k) PROVE Paired(k)'
    BY DEF PairsRest, SolePair, CertRecipe
  <2>2. \A d \in Writers : LastPath(d) = Entry[k].pairOf /\ HalfWritten(d) => Entry[k].pairOf \in torn'
    BY <1>4 DEF Writers
  <2>. QED BY <1>4, <2>2, LeftPaired, WholePaired
<1>. QED BY <1>5, <1>6

(* The reconcile pass starts a writer or moves on. *)
LEMMA ProbeStarts ==
  ASSUME CustodyTypeOK, PairInv, BootProbe
  PROVE WritersSame \/ \E k \in Keys : Starting(Boot, k)
<1>0. StoresTyped /\ JobsTyped /\ Boot \in Jobs /\ JobShape(job[Boot])
  BY BootIsAJob, JobsKnown DEF CustodyTypeOK
<1>. DEFINE k == order[job[Boot].n]
            next == [job[Boot] EXCEPT !.n = @ + 1]
            miss == [next EXCEPT !.k = k]
            put == [job[Boot] EXCEPT !.at = "put", !.ws = GeneratedWrites(k, serial + 1)]
<1>1. job[Boot].ws = << >> /\ ~job[Boot].half /\ job[Boot].op = "boot"
  BY DEF BootProbe, At, PairInv, ProbeIdle
<1>2. ~Writing(Boot) /\ kv' = kv /\ torn' = torn
  BY <1>1 DEF Writing, BootProbe
<1>3. JobShape(next) /\ next.ws = << >>
  BY <1>0, <1>1 DEF JobShape, JobFields
<1>4. miss.ws = << >>
  BY <1>3 DEF JobShape, JobFields
<1>5. JobShape(put) /\ put.op = "boot" /\ ~put.half /\ put.ws = GeneratedWrites(k, serial + 1)
  BY <1>0, <1>1 DEF JobShape, JobFields
<1>6. \/ Set(Boot, next) \/ Set(Boot, miss) \/ Set(Boot, IdleJob)
      \/ Begin(Boot, put) /\ k \in Active /\ GenerateOk(k) /\ Entry[k].class \notin {"asym", "sym"}
  BY DEF BootProbe
<1>7. CASE Set(Boot, next) \/ Set(Boot, miss) \/ Set(Boot, IdleJob)
  <2>1. job'[Boot].ws = << >>
    BY <1>0, <1>3, <1>4, <1>7, SetIs, IdleShape
  <2>2. \A d \in Jobs \ {Boot} : job'[d] = job[d]
    BY <1>0, <1>7, SetOthers
  <2>3. \A d \in Jobs : Writing(d)' = Writing(d)
    BY <1>2, <2>1, <2>2 DEF Writing
  <2>. QED BY <1>2, <2>2, <2>3 DEF WritersSame, Writers
<1>8. CASE Begin(Boot, put) /\ k \in Active /\ GenerateOk(k) /\ Entry[k].class \notin {"asym", "sym"}
  <2>1. CanGenerate(k) /\ k \in Keys
    BY <1>0, <1>8, ActiveKeys DEF GenerateOk
  <2>2. Starting(Boot, k)
    <3>. HIDE DEF k, put
    <3>. QED BY <1>0, <1>2, <1>5, <1>8, <2>1 DEF Starting
  <2>. QED BY <2>1, <2>2
<1>. QED BY <1>6, <1>7, <1>8

(* A rotation of a generated value is a start. *)
LEMMA ValueStarts ==
  ASSUME CustodyTypeOK, NEW c \in Clients, NEW k \in Keys, RotateValue(c, k)
  PROVE Starting(c, k)
<1>. DEFINE j == [IdleJob EXCEPT !.op = "value", !.k = k, !.at = "put",
                                 !.ws = GeneratedWrites(k, serial + 1)]
<1>1. Begin(c, j) /\ CanGenerate(k) /\ Idle(c) /\ kv' = kv /\ torn' = torn
  BY DEF RotateValue
<1>2. JobShape(j) /\ j.op = "value" /\ ~j.half /\ j.ws = GeneratedWrites(k, serial + 1)
  BY DEF IdleJob, JobShape, JobFields, NoTk, TransitType, IdentityType
<1>3. ~Writing(c) /\ c \in Jobs
  BY <1>1, BootIsAJob DEF Idle, Writing
<1>. HIDE DEF j
<1>. QED BY <1>1, <1>2, <1>3 DEF Starting

(* The pair part of the invariant is kept by every step and holds          *)
(* initially.                                                              *)
LEMMA PairInvStays ==
  CustodyTypeOK /\ PairInv /\ [CustodyNext]_custodyVars => PairInv'
<1>. SUFFICES ASSUME CustodyTypeOK, PairInv, [CustodyNext]_custodyVars
              PROVE WritersOk' /\ PairsAtWork' /\ PairsRest'
  BY ProbeIdleStays DEF PairInv
<1>0. ProbeIdle /\ Clients \subseteq Jobs
  BY BootIsAJob DEF PairInv
<1>1. ASSUME NEW c \in Jobs, Put(c) PROVE WritersOk' /\ PairsAtWork' /\ PairsRest'
  BY <1>1, PairsWhenHalf, PairsWhenDone
<1>2. ASSUME NEW c \in Clients, Drop(c) PROVE WritersOk' /\ PairsAtWork' /\ PairsRest'
  BY <1>2, PairsWhenDropped
<1>3. ASSUME NEW c, NEW k, Starting(c, k) PROVE WritersOk' /\ PairsAtWork' /\ PairsRest'
  BY <1>3, PairsWhenStarting
<1>4. CASE Crash
  BY <1>4, PairsWhenCrashed
<1>5. ASSUME WritersSame, \A c \in Jobs : ~Put(c), \A c \in Clients : ~Drop(c), ~Crash, ~Setting
      PROVE WritersOk' /\ PairsAtWork' /\ PairsRest'
  <2>1. torn' = torn
    BY <1>0, <1>5, CustodyFrame, BootIsAJob DEF Framed, TornStep, Setting
  <2>. QED BY <1>5, <2>1, PairsWhenSame
<1>6. \/ WritersSame \/ (\E c, k : Starting(c, k)) \/ (\E c \in Clients : Drop(c)) \/ Crash
      \/ Setting \/ \E c \in Jobs : Put(c)
  BY <1>0, WriterSteps, ProbeStarts, ValueStarts
<1>7. CASE Setting
  BY <1>7, PairsWhenSet DEF Setting
<1>. QED BY <1>1, <1>2, <1>3, <1>4, <1>5, <1>6, <1>7

LEMMA PairInvInit == CustodyInit => PairInv
<1>. SUFFICES ASSUME CustodyInit PROVE PairInv
  OBVIOUS
<1>1. Writers = {}
  BY InitialJobs DEF Writers, Writing
<1>2. ProbeIdle
  <2>1. IdleJob.ws = << >> /\ ~IdleJob.half /\ BootJob.ws = << >> /\ ~BootJob.half
    BY DEF IdleJob, BootJob
  <2>. QED BY <2>1, InitialJobs, BootIsAJob DEF ProbeIdle
<1>3. PairsRest
  <2>1. ASSUME NEW k \in Keys, HasKv(k) PROVE Number(k) = 1
    <3>1. InitialForm(k, kv[k])
      BY InitialForms, KeysArePaths DEF CustodyInit
    <3>2. CASE kv[k] = <<CustodyRecord(k, 1, 1)>>
      <4>. DEFINE r == CustodyRecord(k, 1, 1)
      <4>1. r.n = 1
        BY DEF CustodyRecord
      <4>. HIDE DEF r
      <4>2. kv[k] = <<r>>
        BY <3>2 DEF r
      <4>. QED BY <4>1, <4>2 DEF Number, Last
    <3>3. ASSUME NEW what, kv[k] = <<[what |-> what, n |-> 1]>> PROVE Number(k) = 1
      BY <3>3 DEF Number, Last
    <3>. QED BY <2>1, <3>1, <3>2, <3>3 DEF InitialForm, HasKv
  <2>. QED BY <2>1, PairNames DEF PairsRest, Paired
<1>4. WritersOk /\ PairsAtWork
  BY <1>1 DEF WritersOk, PairsAtWork
<1>. QED BY <1>2, <1>3, <1>4 DEF PairInv

(* With no writer of a pair at work the pair matches. *)
LEMMA PairsFollow == CustodyTypeOK /\ PairInv => PairMatches
  BY ActiveKeys DEF CustodyTypeOK, PairInv, PairsRest, PairMatches

(* Overlapping rotations, sweeps and certificate writers leave stored keys *)
(* that belong together: the newest Grace + 1 versions of a key stay       *)
(* usable, a token that one of them signed verifies against the published  *)
(* key set, and against the broker's own Verify exactly when version one   *)
(* signed it and is in the window, a record that one of them wrapped       *)
(* opens, and a certificate is for the stored private key unless its last  *)
(* writers overlapped or were interrupted or a client has set one of the   *)
(* two since (rotate, sweep_retention and set in manager.rs, the generated *)
(* values, and the records of crypto_provider.rs).                         *)
THEOREM RotationSoundHolds == CustodySpec => []RotationSound
<1>1. CustodyInit => GraceInv /\ PairInv
  BY GraceInvInit, PairInvInit
<1>2. CustodyTypeOK /\ (GraceInv /\ PairInv) /\ [CustodyNext]_custodyVars => (GraceInv /\ PairInv)'
  BY GraceInvStays, PairInvStays
<1>3. CustodyTypeOK /\ GraceInv /\ PairInv => RotationSound
  BY GraceFollows, PairsFollow DEF RotationSound
<1>. QED BY <1>1, <1>2, <1>3, CustodyTypes, PTL DEF CustodySpec

(***************************************************************************)
(* Grants.                                                                 *)
(***************************************************************************)
LEMMA ReadablesStay ==
  ASSUME CustodyTypeOK, ReadableValues, [CustodyNext]_custodyVars
  PROVE ReadableValues'
<1>0. StoresTyped
  BY DEF CustodyTypeOK
<1>1. CASE kv' = kv
  BY <1>1 DEF ReadableValues, HasKv, Last
<1>2. ASSUME NEW p \in Keys, NEW v \in StoredType, Writes(p, v),
             WriterStores(p, v) \/ ClientStores(p, v) \/ SealerStores(p, v)
      PROVE ReadableValues'
  <2>1. Entry[p].class \in {"value", "public"} => v.what \notin {"seed", "record"}
    <3>1. CASE WriterStores(p, v)
      <4>1. PICK c \in Writers : Put(c) /\ job[c].ws[1].v = v
        BY <3>1 DEF WriterStores
      <4>2. job[c].ws[1] \in WriteType
        BY <4>1, LastWrite DEF CustodyTypeOK, Writers
      <4>. QED BY <4>1, <4>2, WriteStored
    <3>2. CASE ClientStores(p, v)
      BY <3>2 DEF ClientStores
    <3>3. CASE SealerStores(p, v)
      BY <3>3 DEF SealerStores
    <3>. QED BY <1>2, <3>1, <3>2, <3>3
  <2>2. ASSUME NEW k \in Keys, Entry[k].class \in {"value", "public"}, HasKv(k)'
        PROVE Last(kv[k])'.what \notin {"seed", "record"}
    <3>1. CASE k = p
      BY <1>0, <1>2, <2>1, <2>2, <3>1, WrittenLast, KeysArePaths
    <3>2. CASE k # p
      <4>1. HasKv(k) /\ Last(kv[k])' = Last(kv[k])
        BY <1>0, <1>2, <2>2, <3>2, WrittenLast, KeysArePaths
      <4>. QED BY <2>2, <4>1 DEF ReadableValues
    <3>. QED BY <3>1, <3>2
  <2>. QED BY <2>2 DEF ReadableValues
<1>. QED BY <1>1, <1>2, StoreWrites

(* The values that can be read hold no seed and no record at first. *)
LEMMA ReadablesInit ==
  ASSUME CustodyInit
  PROVE ReadableValues
<1>1. ASSUME NEW k \in Keys, Entry[k].class \in {"value", "public"}, HasKv(k)
      PROVE Last(kv[k]).what \notin {"seed", "record"}
  <2>1. InitialForm(k, kv[k])
    BY InitialForms, KeysArePaths DEF CustodyInit
  <2>2. ASSUME NEW what \in {"seed", "value", "cert", "tlskey", "public"}, kv[k] = <<[what |-> what, n |-> 1]>>,
               what # "seed"
        PROVE Last(kv[k]).what \notin {"seed", "record"}
    BY <2>2 DEF Last
  <2>. QED BY <1>1, <2>1, <2>2 DEF InitialForm, HasKv
<1>. QED BY <1>1 DEF ReadableValues

(* A reply other than a value that is read says nothing of what is stored. *)
Harmless(r) == r.what \notin {"seed", "record"}

(* No single-call reply discloses a seed or a record. *)
LEMMA EitherHarmless ==
  ASSUME NEW can, NEW what, NEW n, what \notin {"seed", "record"}
  PROVE Harmless(Either(can, what, n)) /\ Harmless(Refuse) /\ Harmless(Reply(what, n))
  BY DEF Either, Reply, Refuse, Harmless

LEMMA RepliesHarmless ==
  ASSUME ReadableValues, NEW k \in Keys, NEW r \in Replies(k)
  PROVE Harmless(r)
<1>1. ASSUME NEW g \in BOOLEAN PROVE Harmless(SignReply(k, g)) /\ Harmless(VerifyReply(k, g))
  BY EitherHarmless DEF SignReply, VerifyReply
<1>2. ASSUME NEW t \in MlKem
      PROVE Harmless(Either(ProviderWrap(k, t, TRUE), "ciphertext", 0))
            /\ Harmless(Either(ProviderUnwrap(k, t, TRUE), "plaintext", 0))
  BY EitherHarmless
<1>3. ASSUME NEW t \in SigningTypes PROVE Harmless(NewKeyReply(k, t))
  BY EitherHarmless DEF NewKeyReply
<1>4. ASSUME NEW a \in AeadTypes PROVE Harmless(EncryptReply(k, a)) /\ Harmless(DecryptReply(k, a, 1))
  BY EitherHarmless DEF EncryptReply, DecryptReply
<1>5. Harmless(PublicReply(k)) /\ Harmless(WrapReply(k)) /\ Harmless(UnwrapReply(k))
  BY EitherHarmless DEF PublicReply, WrapReply, UnwrapReply
<1>6. \A aad, parties : Harmless(UnsealReply(k, aad, parties))
  BY EitherHarmless DEF UnsealReply
<1>7. Harmless(CurveReply(k, EncodePublic("X", 1))) /\ Harmless(SealingPublicReply(k))
  BY EitherHarmless DEF CurveReply, SealingPublicReply
<1>8. Harmless(GetReply(k))
  <2>1. CASE RequireClass(k, {"value", "public"}) /\ HasKv(k)
    <3>1. Last(kv[k]).what \notin {"seed", "record"}
      BY <2>1 DEF ReadableValues, RequireClass
    <3>. QED BY <2>1, <3>1, EitherHarmless DEF GetReply
  <2>2. CASE ~(RequireClass(k, {"value", "public"}) /\ HasKv(k))
    BY <2>2, EitherHarmless DEF GetReply
  <2>. QED BY <2>1, <2>2
<1>9. Harmless(ListReply(k)) /\ Harmless(X509Reply(k)) /\ Harmless(JwtReply(k, {"role"}))
  BY EitherHarmless DEF ListReply, X509Reply, JwtReply
<1>. HIDE DEF Harmless
<1>. DEFINE S == UNION {{SignReply(k, g), VerifyReply(k, g)} : g \in BOOLEAN}
            W == UNION {{Either(ProviderWrap(k, t, TRUE), "ciphertext", 0),
                         Either(ProviderUnwrap(k, t, TRUE), "plaintext", 0)} : t \in MlKem}
            N == {NewKeyReply(k, t) : t \in SigningTypes}
            E == UNION {{EncryptReply(k, a), DecryptReply(k, a, 1)} : a \in AeadTypes}
            O == {PublicReply(k), WrapReply(k), UnwrapReply(k), UnsealReply(k, Entry[k].pin, Entry[k].pin),
                  UnsealReply(k, NoKey, NoKey), CurveReply(k, EncodePublic("X", 1)),
                  SealingPublicReply(k), GetReply(k), ListReply(k), X509Reply(k), JwtReply(k, {"role"})}
<1>10. Replies(k) = S \cup W \cup N \cup E \cup O
  BY Zenon DEF Replies
<1>11. CASE r \in S
  <2>1. PICK g \in BOOLEAN : r \in {SignReply(k, g), VerifyReply(k, g)}
    BY <1>11, Zenon
  <2>. QED BY <1>1, <2>1, Zenon
<1>12. CASE r \in W
  <2>1. PICK t \in MlKem : r \in {Either(ProviderWrap(k, t, TRUE), "ciphertext", 0),
                                  Either(ProviderUnwrap(k, t, TRUE), "plaintext", 0)}
    BY <1>12, Zenon
  <2>. QED BY <1>2, <2>1, Zenon
<1>13. CASE r \in N
  <2>1. PICK t \in SigningTypes : r = NewKeyReply(k, t)
    BY <1>13, Zenon
  <2>. QED BY <1>3, <2>1, Zenon
<1>14. CASE r \in E
  <2>1. PICK a \in AeadTypes : r \in {EncryptReply(k, a), DecryptReply(k, a, 1)}
    BY <1>14, Zenon
  <2>. QED BY <1>4, <2>1, Zenon
<1>15. CASE r \in O
  BY <1>5, <1>6, <1>7, <1>8, <1>9, <1>15, Zenon
<1>. HIDE DEF S, W, N, E, O
<1>. QED BY <1>10, <1>11, <1>12, <1>13, <1>14, <1>15

(* So no step does. *)
LEMMA SeedsStay ==
  ASSUME ReadableValues, SeedsStayInside, [CustodyNext]_custodyVars
  PROVE SeedsStayInside'
<1>1. ASSUME NEW c \in Clients, NEW k \in Keys, Ask(c, k) PROVE SeedsStayInside'
  <2>1. PICK r \in Replies(k) : seen' = {r.what}
    BY <1>1 DEF Ask
  <2>2. Harmless(r)
    BY RepliesHarmless
  <2>. QED BY <2>1, <2>2 DEF SeedsStayInside, Harmless
<1>. QED BY <1>1, CustodyFrame DEF Framed, SeedsStayInside

(* The answers in a scene whose handlers import. *)
LEMMA ImportAnswers ==
  ASSUME CustodyTypeOK, [CustodyNext]_custodyVars, Plays("import")
  PROVE \/ answers' = answers
        \/ \E c \in Clients : \E set \in {<<a, b>> : a, b \in Active} : ImportSet(c, set)
<1>0. StoresTyped /\ JobsTyped /\ Clients \subseteq Jobs
  BY BootIsAJob DEF CustodyTypeOK
<1>1. ~Plays("nix") /\ ~Plays("mint") /\ ~Plays("nats")
  BY <1>0, OneKind
<1>2. ~Clock
  BY <1>1 DEF Clock
<1>3. ASSUME NEW c \in Clients, EnrollJudge(c) \/ SignAfter(c) PROVE FALSE
  <2>1. job[c].op \in {"enroll", "nixsign"}
    BY <1>3 DEF EnrollJudge, SignAfter, At
  <2>. QED BY <1>0, <1>1, <2>1, NixJobs
<1>4. ASSUME NEW c \in Clients, NatsFinish(c) PROVE FALSE
  <2>1. job[c].op = "nats"
    BY <1>4 DEF NatsFinish, At
  <2>. QED BY <1>0, <1>1, <2>1 DEF JobsTyped, JobData
<1>5. ASSUME NEW c \in Clients, MintSign(c) PROVE FALSE
  <2>1. job[c].op = "mint"
    BY <1>5 DEF MintSign, At
  <2>. QED BY <1>0, <1>1, <2>1 DEF JobsTyped, JobData
<1>. QED BY <1>2, <1>3, <1>4, <1>5, CustodyFrame DEF Framed, AnswerStep

(* In a scene with import sets, sets that were admitted stay on record. *)
LEMMA AnswersGrow ==
  ASSUME CustodyTypeOK, [CustodyNext]_custodyVars, Plays("import")
  PROVE answers \subseteq answers'
<1>1. ASSUME NEW c \in Clients, NEW set \in {<<a, b>> : a, b \in Active}, ImportSet(c, set)
      PROVE answers' = answers \cup {[set |-> set, grants |-> grants]}
  BY <1>1 DEF ImportSet
<1>. QED BY <1>1, ImportAnswers

(* Only an import creates a key in such a scene. *)
LEMMA ImportCreates ==
  ASSUME CustodyTypeOK, [CustodyNext]_custodyVars, Plays("import"), NEW k \in Keys, HasTk(k)', ~HasTk(k)
  PROVE \E c \in Clients : ImportNext(c) /\ job[c].op = "import" /\ job[c].ws[1] = k
<1>0. StoresTyped /\ JobsTyped /\ Clients \subseteq Jobs /\ tk \in [Keys -> TransitType]
  BY BootIsAJob DEF CustodyTypeOK, StoresTyped
<1>1. ~Plays("nix") /\ ~Plays("boot") /\ phase = "serving"
  BY <1>0, OneKind, BootKind DEF CustodyTypeOK, BrokerTyped
<1>2. ~BootProbe
  BY <1>1 DEF BootProbe
<1>3. ASSUME NEW j \in Keys, Meddle(j) PROVE FALSE
  BY <1>1, <1>3 DEF Meddle
<1>4. ASSUME NEW c \in Clients, EnrollCreate(c) PROVE FALSE
  <2>1. job[c].op = "enroll"
    BY <1>4 DEF EnrollCreate, At
  <2>. QED BY <1>0, <1>1, <2>1, NixJobs
<1>5. ASSUME NEW c \in Clients, RotateFloor(c) \/ SweepFloor(c) PROVE FALSE
  <2>1. \/ tk' = tk \/ \E j, d : tk' = [tk EXCEPT ![j].dec = d] \/ tk' = [tk EXCEPT ![j].avail = d]
    BY <1>5 DEF RotateFloor, SweepFloor, SetDec, SetAvail
  <2>2. tk'[k].mat = tk[k].mat
    BY <1>0, <2>1, ZenonT(60) DEF TransitType
  <2>. QED BY <2>2 DEF HasTk
<1>6. ASSUME NEW c \in Clients, NEW j \in Keys, RotatePost(c, j) PROVE FALSE
  <2>1. HasTk(j) /\ tk' = [tk EXCEPT ![j].mat = Append(@, serial + 1)]
    BY <1>6 DEF RotatePost, Rotatable
  <2>2. j # k
    BY <2>1
  <2>3. tk'[k] = tk[k]
    BY <1>0, <2>1, <2>2
  <2>. QED BY <2>3 DEF HasTk
<1>7. ASSUME NEW c \in Clients, ImportNext(c) PROVE job[c].op = "import" /\ job[c].ws[1] = k
  <2>1. tk' = tk \/ tk' = [tk EXCEPT ![job[c].ws[1]] = TransitKey(serial + 1)]
    BY <1>7 DEF ImportNext
  <2>2. job[c].op = "import"
    BY <1>7 DEF ImportNext, At
  <2>3. job[c].ws[1] # k => tk'[k] = tk[k]
    BY <1>0, <2>1
  <2>4. tk'[k] # tk[k]
    BY DEF HasTk
  <2>. QED BY <2>2, <2>3, <2>4
<1>8. tk' # tk
  BY DEF HasTk
<1>. QED BY <1>2, <1>3, <1>4, <1>5, <1>6, <1>7, <1>8, CustodyFrame DEF Framed, TransitStep

(* The keys that an import still has to bring in belong to a set that was  *)
(* granted as a whole.                                                     *)
LEMMA ImportsStay ==
  ASSUME CustodyTypeOK, ImportsGranted, [CustodyNext]_custodyVars
  PROVE ImportsGranted'
<1>0. StoresTyped /\ JobsTyped /\ Moves /\ scene' = scene
  BY CustodyMoves, CustodyFrame DEF CustodyTypeOK, Framed
<1>1. SUFFICES ASSUME Plays("import"), NEW c \in Jobs, job'[c].op = "import"
               PROVE \E a \in answers' : /\ GrantedSet(a)
                       /\ \A i \in DOMAIN job'[c].ws : \E m \in DOMAIN a.set : a.set[m] = job'[c].ws[i]
  BY <1>0 DEF ImportsGranted, Plays, GrantedSet, Granted
<1>2. answers \subseteq answers'
  BY <1>1, AnswersGrow
<1>3. CASE SameJob(c)
  <2>1. job[c].op = "import" /\ job'[c].ws = job[c].ws
    BY <1>1, <1>3 DEF SameJob
  <2>. QED BY <1>1, <1>2, <2>1 DEF ImportsGranted
<1>4. ASSUME NEW set \in {<<a, b>> : a, b \in Active}, ImportSet(c, set)
      PROVE \E a \in answers' : /\ GrantedSet(a)
              /\ \A i \in DOMAIN job'[c].ws : \E m \in DOMAIN a.set : a.set[m] = job'[c].ws[i]
  <2>. DEFINE a == [set |-> set, grants |-> grants]
  <2>1. answers' = answers \cup {a} /\ Admitted(set)
    BY <1>4 DEF ImportSet
  <2>2. job'[c] = [IdleJob EXCEPT !.op = "import", !.at = "next", !.ws = set]
    BY <1>0, <1>4, SetIs DEF ImportSet
  <2>3. job'[c].ws = set
    BY <2>2 DEF IdleJob
  <2>4. a.set = set /\ a.grants = grants
    OBVIOUS
  <2>. HIDE DEF a
  <2>5. GrantedSet(a)
    BY <2>1, <2>4 DEF GrantedSet, Granted, Admitted
  <2>. QED BY <2>1, <2>3, <2>4, <2>5
<1>5. CASE ImportNext(c)
  <2>. DEFINE j == IF ImportOk(job[c].ws[1]) /\ ~HasTk(job[c].ws[1]) /\ Len(job[c].ws) > 1
                   THEN [job[c] EXCEPT !.ws = Tail(@)] ELSE IdleJob
  <2>1. job'[c] = j
    BY <1>0, <1>5, SetIs DEF ImportNext
  <2>2. Len(job[c].ws) > 1 /\ job'[c].ws = Tail(job[c].ws)
    BY <1>0, <1>1, <2>1, JobsKnown, IdleShape DEF JobShape, JobFields
  <2>3. job[c].op = "import"
    BY <1>5 DEF ImportNext, At
  <2>4. job[c].ws \in Seq(Keys)
    BY <1>0, <2>3 DEF JobsTyped, JobData
  <2>5. \A i \in DOMAIN Tail(job[c].ws) : \E m \in DOMAIN job[c].ws : job[c].ws[m] = Tail(job[c].ws)[i]
    <3>1. ASSUME NEW i \in DOMAIN Tail(job[c].ws)
          PROVE i + 1 \in DOMAIN job[c].ws /\ job[c].ws[i + 1] = Tail(job[c].ws)[i]
      BY <2>2, <2>4
    <3>. QED BY <3>1
  <2>6. PICK a \in answers : /\ GrantedSet(a)
          /\ \A i \in DOMAIN job[c].ws : \E m \in DOMAIN a.set : a.set[m] = job[c].ws[i]
    BY <1>1, <2>3 DEF ImportsGranted
  <2>7. \A i \in DOMAIN Tail(job[c].ws) : \E m \in DOMAIN a.set : a.set[m] = Tail(job[c].ws)[i]
    BY <2>5, <2>6, Zenon
  <2>. QED BY <1>2, <2>2, <2>6, <2>7
<1>. QED BY <1>0, <1>1, <1>3, <1>4, <1>5 DEF Moves, MovesTo, ImportMove

(* A key that exists was brought in by such a set. *)
LEMMA WholeSetsStay ==
  ASSUME CustodyTypeOK, ImportsGranted, SetGrantedWhole, [CustodyNext]_custodyVars
  PROVE SetGrantedWhole'
<1>0. StoresTyped /\ JobsTyped /\ scene' = scene /\ Active \subseteq Keys /\ Clients \subseteq Jobs
  BY CustodyFrame, ActiveKeys, BootIsAJob DEF CustodyTypeOK, Framed
<1>1. SUFFICES ASSUME Plays("import"), NEW k \in Active, HasTk(k)'
               PROVE \E a \in answers' : /\ \E i \in DOMAIN a.set : a.set[i] = k
                                         /\ \A i \in DOMAIN a.set : a.set[i] \in a.grants
  BY <1>0 DEF SetGrantedWhole, Plays, Active
<1>2. answers \subseteq answers'
  BY <1>1, AnswersGrow
<1>3. CASE HasTk(k)
  BY <1>1, <1>2, <1>3 DEF SetGrantedWhole
<1>4. CASE ~HasTk(k)
  <2>1. PICK c \in Clients : job[c].op = "import" /\ job[c].ws[1] = k
    BY <1>0, <1>1, <1>4, ImportCreates
  <2>2. 1 \in DOMAIN job[c].ws
    <3>1. job[c].ws \in Seq(Keys) /\ job[c].ws # << >>
      BY <1>0, <2>1 DEF JobsTyped, JobData
    <3>. QED BY <3>1
  <2>3. PICK a \in answers : /\ GrantedSet(a)
          /\ \A i \in DOMAIN job[c].ws : \E m \in DOMAIN a.set : a.set[m] = job[c].ws[i]
    BY <1>0, <1>1, <2>1 DEF ImportsGranted
  <2>. QED BY <1>2, <2>1, <2>2, <2>3 DEF GrantedSet, Granted
<1>. QED BY <1>3, <1>4

(* The import part of the inductive invariant. *)
GrantInv == ReadableValues /\ ImportsGranted /\ GrantsHonoured

(* The grant part holds initially and is kept. *)
LEMMA GrantInvInit == CustodyInit => GrantInv
<1>. SUFFICES ASSUME CustodyInit PROVE GrantInv
  OBVIOUS
<1>1. ImportsGranted
  BY InitialJobs DEF ImportsGranted
<1>2. SeedsStayInside
  BY DEF CustodyInit, SeedsStayInside
<1>3. SetGrantedWhole
  <2>. SUFFICES ASSUME Plays("import"), NEW k \in Active PROVE ~HasTk(k)
    BY DEF SetGrantedWhole
  <2>1. k \in Keys /\ ~Provisioned(k)
    BY ScenesAssumption DEF CustodyInit, Plays, Active, Provisioned
  <2>2. tk[k] = NoTk
    BY <2>1 DEF CustodyInit, InitialTk
  <2>. QED BY <2>2, NewTransitTyped DEF HasTk
<1>. QED BY <1>1, <1>2, <1>3, ReadablesInit DEF GrantInv, GrantsHonoured

LEMMA GrantInvStays ==
  CustodyTypeOK /\ GrantInv /\ [CustodyNext]_custodyVars => GrantInv'
  BY ReadablesStay, SeedsStay, ImportsStay, WholeSetsStay DEF GrantInv, GrantsHonoured

(* No reply of a single-call operation discloses a private seed or a       *)
(* custody record, and every key that an import set brought in belongs to  *)
(* a set that one policy granted as a whole, whatever reloads come between *)
(* two of its imports (manager.rs, import_set in service/signing.rs).      *)
THEOREM GrantsHonouredHolds == CustodySpec => []GrantsHonoured
<1>1. CustodyTypeOK /\ GrantInv /\ [CustodyNext]_custodyVars => GrantInv'
  BY GrantInvStays
<1>2. GrantInv => GrantsHonoured
  BY DEF GrantInv
<1>. QED BY <1>1, <1>2, GrantInvInit, CustodyTypes, PTL DEF CustodySpec

(***************************************************************************)
(* Nix pins and NATS chains.                                               *)
(***************************************************************************)
LEMMA PinsStay ==
  ASSUME CustodyTypeOK, AnswersPinned, [CustodyNext]_custodyVars
  PROVE AnswersPinned'
<1>0. scene' = scene /\ JobsTyped /\ Clients \subseteq Jobs
  BY CustodyFrame, BootIsAJob DEF Framed, CustodyTypeOK
<1>1. SUFFICES ASSUME Plays("nix") PROVE \A a \in answers' : Pinned(a)
  BY <1>0 DEF AnswersPinned, Plays, Pinned
<1>2. \A a \in answers : Pinned(a)
  BY <1>1 DEF AnswersPinned
<1>3. ASSUME NEW c \in Clients, Enrolled(c) PROVE \A a \in answers' : Pinned(a)
  <2>1. /\ answers' = answers \cup {EnrollReply(c)}
        /\ job[c].id.state = "enrolled" => job[c].id.pin = job[c].post.mat[1]
    BY <1>3 DEF Enrolled
  <2>2. job[c].op = "enroll"
    BY <1>3 DEF Enrolled
  <2>3. job[c].id.state \in {"pending", "enrolled"} /\ (job[c].id.state = "pending" => job[c].id.pin = 0)
    BY <1>0, <2>2 DEF JobsTyped, JobData, JobShape, IdentityType
  <2>4. Pinned(EnrollReply(c))
    BY <2>1, <2>3 DEF EnrollReply, Pinned
  <2>. QED BY <1>2, <2>1, <2>4
<1>4. ASSUME NEW c \in Clients, Signed(c) PROVE \A a \in answers' : Pinned(a)
  <2>1. answers' = answers \cup {SignatureReply(c)} /\ job[c].n = job[c].id.pin
    BY <1>4 DEF Signed
  <2>2. Pinned(SignatureReply(c))
    BY <2>1 DEF SignatureReply, Pinned
  <2>. QED BY <1>2, <2>1, <2>2
<1>. QED BY <1>1, <1>2, <1>3, <1>4, NixAnswers

(* A minted token passes the role check of the validation. *)
LEMMA MintedRoles ==
  ASSUME NEW m \in MintRequests, MintOk(m), NEW pub
  PROVE /\ m.role \in {"A", "O", "N", "X"}
        /\ ValidateNatsRoles(m.role, m.kind, Minted(m, pub, 0).sub)
<1>. DEFINE s == Minted(m, pub, 0).sub
<1>1. m.kind \in NatsJwtKind
  BY RequestsAssumption
<1>2. s = IF m.sub = NoNkey THEN [role |-> m.role, pub |-> pub] ELSE m.sub
  BY DEF Minted, EncodePublic
<1>3. NoNkey.role = "none"
  BY DEF NoNkey
<1>. HIDE DEF s
<1>4. CASE m.kind = "user"
  <2>1. m.role = "A" /\ m.sub.role = "U"
    BY <1>4 DEF MintOk, MintUserOk, EnsureIssuerRole, RequirePublicPrefix
  <2>2. s = m.sub
    BY <1>2, <1>3, <2>1
  <2>. QED BY <1>4, <2>1, <2>2 DEF s, ValidateNatsRoles, EnsureIssuerRole, AllowedIssuers,
             RequirePublicPrefix, SubjectRole, DecodePublic, NkeyType
<1>5. CASE m.kind = "account"
  <2>1. m.role \in {"A", "O"} /\ m.sub.role = "A"
    BY <1>5 DEF MintOk, MintAccountOk, EnsureIssuerRole, RequirePublicPrefix
  <2>2. s = m.sub
    BY <1>2, <1>3, <2>1
  <2>. QED BY <1>5, <2>1, <2>2 DEF s, ValidateNatsRoles, EnsureIssuerRole, AllowedIssuers,
             RequirePublicPrefix, SubjectRole, DecodePublic, NkeyType
<1>6. CASE m.kind = "operator"
  <2>1. m.role = "O" /\ (m.sub # NoNkey => m.sub.role = "O")
    BY <1>6 DEF MintOk, MintOperatorOk, EnsureIssuerRole, RequirePublicPrefix
  <2>2. s.role = "O"
    BY <1>2, <2>1
  <2>. QED BY <1>6, <2>1, <2>2 DEF s, ValidateNatsRoles, EnsureIssuerRole, AllowedIssuers,
             RequirePublicPrefix, SubjectRole, DecodePublic, NkeyType
<1>7. CASE m.kind = "signer"
  <2>1. m.role \in {"A", "O"} /\ m.sub.role = m.role
    BY <1>7 DEF MintOk, MintSignerOk, EnsureIssuerRole, RequirePublicPrefix
  <2>2. s = m.sub
    BY <1>2, <1>3, <2>1
  <2>. QED BY <1>7, <2>1, <2>2 DEF s, ValidateNatsRoles, EnsureIssuerRole, AllowedIssuers,
             RequirePublicPrefix, SubjectRole, DecodePublic, NkeyType
<1>8. CASE m.kind = "server"
  <2>1. m.role = "N" /\ m.sub.role = "N"
    BY <1>8 DEF MintOk, MintServerOk, MintRoleOk, EnsureIssuerRole, RequirePublicPrefix
  <2>2. s = m.sub
    BY <1>2, <1>3, <2>1
  <2>. QED BY <1>8, <2>1, <2>2 DEF s, ValidateNatsRoles, EnsureIssuerRole, AllowedIssuers,
             RequirePublicPrefix, SubjectRole, DecodePublic, NkeyType
<1>9. CASE m.kind = "curve"
  <2>1. m.role = "X" /\ m.sub.role = "X"
    BY <1>9 DEF MintOk, MintCurveOk, MintRoleOk, EnsureIssuerRole, RequirePublicPrefix
  <2>2. s = m.sub
    BY <1>2, <1>3, <2>1
  <2>. QED BY <1>9, <2>1, <2>2 DEF s, ValidateNatsRoles, EnsureIssuerRole, AllowedIssuers,
             RequirePublicPrefix, SubjectRole, DecodePublic, NkeyType
<1>. QED BY <1>1, <1>4, <1>5, <1>6, <1>7, <1>8, <1>9 DEF NatsJwtKind

(* A token that is minted, or signed on request, has roles that validation *)
(* accepts and names the key that was read.                                *)
LEMMA MintedTokens ==
  ASSUME NEW m \in MintRequests, MintOk(m), NEW pub
  PROVE TokenOk(Minted(m, pub, 0)) /\ Minted(m, pub, 0).iss.pub = pub
<1>1. m.kind \in NatsJwtKind /\ m.ttl \in Int
  BY RequestsAssumption
<1>. DEFINE t == Minted(m, pub, 0)
<1>2. /\ t = [iss |-> t.iss, sub |-> t.sub, kind |-> t.kind, iat |-> t.iat, exp |-> t.exp, nbf |-> t.nbf,
              jti |-> t.jti, by |-> t.by]
      /\ t.iss.role = m.role /\ t.iss.pub = pub /\ t.kind = m.kind /\ t.exp = Expiry(0, m.ttl) /\ t.nbf = NoTime
  BY DEF Minted, EncodePublic
<1>3. Expiry(0, m.ttl) \in Int /\ NoTime \in Int
  BY <1>1 DEF Expiry, NoTime
<1>4. m.role \in {"A", "O", "N", "X"} /\ ValidateNatsRoles(m.role, m.kind, t.sub)
  BY MintedRoles
<1>. HIDE DEF t
<1>. QED BY <1>1, <1>2, <1>3, <1>4 DEF TokenOk, t

LEMMA SignedTokens ==
  ASSUME NEW r \in SignRequests, NEW pub, SignJwtOk(r, pub)
  PROVE TokenOk(SignedJwt(r, pub, 0)) /\ SignedJwt(r, pub, 0).iss.pub = pub
<1>. DEFINE t == SignedJwt(r, pub, 0)
<1>1. r.iat \in Int /\ r.exp \in Int /\ r.ttl \in Int /\ r.claims.iat \in Int /\ r.claims.exp \in Int
      /\ r.claims.nbf \in Int
  BY RequestsAssumption
<1>2. /\ t = [iss |-> t.iss, sub |-> t.sub, kind |-> t.kind, iat |-> t.iat, exp |-> t.exp, nbf |-> t.nbf,
              jti |-> t.jti, by |-> t.by]
      /\ t.iss.role = r.role /\ t.iss.pub = pub /\ t.kind = r.claims.kind /\ t.sub = r.claims.sub
      /\ t.exp = ExpiresAt(r, 0) /\ t.nbf = r.claims.nbf
  BY DEF SignedJwt, EncodePublic
<1>3. ExpiresAt(r, 0) \in Int
  BY <1>1 DEF ExpiresAt, IssuedAt, NoTime
<1>4. r.claims.kind \in NatsJwtKind /\ ValidateNatsRoles(r.role, r.claims.kind, r.claims.sub)
  BY DEF SignJwtOk, ValidateNatsClaim
<1>5. r.role \in {"A", "O", "N", "X"}
  BY <1>4 DEF ValidateNatsRoles, EnsureIssuerRole, AllowedIssuers, NatsJwtKind
<1>. HIDE DEF t
<1>. QED BY <1>1, <1>2, <1>3, <1>4, <1>5 DEF TokenOk, t

(* Where no one meddles, the versions of a transit key stay what they are. *)
LEMMA MaterialsStay ==
  ASSUME CustodyTypeOK, [CustodyNext]_custodyVars, ~Plays("nix"), NEW k \in Keys, NEW n \in 1..Latest(k)
  PROVE n \in 1..Len(tk'[k].mat) /\ tk'[k].mat[n] = tk[k].mat[n]
<1>0. StoresTyped /\ tk \in [Keys -> TransitType] /\ tk[k] \in TransitType /\ tk[k].mat \in Seq(Nat)
      /\ serial + 1 \in Nat /\ Latest(k) \in Nat /\ Latest(k) = Len(tk[k].mat)
  BY TransitFields DEF CustodyTypeOK, StoresTyped, Latest
<1>1. CASE tk' = tk
  BY <1>0, <1>1
<1>2. ASSUME NEW j \in Keys, TransitWrite(j) PROVE n \in 1..Len(tk'[k].mat) /\ tk'[k].mat[n] = tk[k].mat[n]
  <2>1. CASE j # k
    <3>1. tk'[k] = tk[k]
      BY <1>0, <1>2, <2>1 DEF TransitWrite, Meddle
    <3>. QED BY <1>0, <3>1
  <2>2. CASE j = k
    <3>1. ~Meddle(k)
      BY DEF Meddle
    <3>2. \/ tk'[k].mat = tk[k].mat
          \/ tk'[k].mat = Append(tk[k].mat, serial + 1)
          \/ ~HasTk(k)
      BY <1>0, <1>2, <2>2, <3>1 DEF TransitWrite, TransitType
    <3>3. HasTk(k)
      BY <1>0 DEF HasTk
    <3>. QED BY <1>0, <3>2, <3>3
  <2>. QED BY <2>1, <2>2
<1>. QED BY <1>1, <1>2, TransitWrites

(* A token that waits for its signature goes on naming the version read.   *)
LEMMA TokensNamedStay ==
  ASSUME CustodyTypeOK, TokensNamed, [CustodyNext]_custodyVars
  PROVE TokensNamed'
<1>0. StoresTyped /\ JobsTyped /\ Moves
  BY CustodyMoves DEF CustodyTypeOK
<1>. SUFFICES ASSUME NEW c \in Jobs, job'[c].op = "nats" PROVE NamesVersion(c)'
  BY DEF TokensNamed
<1>1. CASE SameJob(c)
  <2>1. /\ job[c].op = "nats" /\ job'[c].k = job[c].k /\ job'[c].n = job[c].n
        /\ job'[c].ws[1] = job[c].ws[1]
    BY <1>1 DEF SameJob
  <2>2. job[c].k \in Keys /\ Plays("nats")
    BY <1>0, <2>1 DEF JobsTyped, JobData
  <2>3. ~Plays("nix")
    BY <1>0, <2>2, OneKind
  <2>4. NamesVersion(c)
    BY <2>1 DEF TokensNamed
  <2>5. job[c].n \in 1..Len(tk'[job[c].k].mat) /\ tk'[job[c].k].mat[job[c].n] = tk[job[c].k].mat[job[c].n]
    BY <2>2, <2>3, <2>4, MaterialsStay DEF NamesVersion
  <2>6. TokenOk(job'[c].ws[1])
    BY <2>1, <2>4 DEF NamesVersion
  <2>. QED BY <2>1, <2>4, <2>5, <2>6 DEF NamesVersion, Latest
<1>2. CASE NatsMove(c)
  <2>1. PICK k \in Keys : NatsMint(c, k) \/ NatsSign(c, k)
    BY <1>2 DEF NatsMove
  <2>2. PICK jwt : NatsRead(c, k, jwt) /\ TokenOk(jwt) /\ jwt.iss.pub = Last(tk[k].mat)
    BY <2>1, MintedTokens, SignedTokens DEF NatsMint, NatsSign
  <2>3. job'[c] = [IdleJob EXCEPT !.op = "nats", !.k = k, !.at = "sign", !.n = Latest(k), !.ws = <<jwt>>]
    BY <1>0, <2>2, SetIs DEF NatsRead
  <2>4. job'[c].k = k /\ job'[c].n = Latest(k) /\ job'[c].ws = <<jwt>>
    BY <2>3 DEF IdleJob
  <2>5. job'[c].ws[1] = jwt /\ tk' = tk
    BY <2>2, <2>4 DEF NatsRead
  <2>6. HasTk(k)
    BY <2>1 DEF NatsMint, NatsSign, NatsKey
  <2>7. Latest(k) \in 1..Latest(k) /\ Last(tk[k].mat) = tk[k].mat[Latest(k)]
    <3>1. tk[k].mat \in Seq(Nat) /\ Latest(k) = Len(tk[k].mat)
      BY <1>0, TransitFields DEF Latest
    <3>. QED BY <2>6, <3>1 DEF HasTk, Last
  <2>8. TokenOk(job'[c].ws[1])
    BY <2>2, <2>5
  <2>. QED BY <2>2, <2>4, <2>5, <2>7, <2>8 DEF NamesVersion, Latest
<1>. QED BY <1>0, <1>1, <1>2 DEF Moves, MovesTo

(* The answers in a scene whose handlers mint NATS tokens. *)
LEMMA NatsAnswers ==
  ASSUME CustodyTypeOK, [CustodyNext]_custodyVars, Plays("nats")
  PROVE answers' = answers \/ Clock \/ \E c \in Clients : NatsFinish(c)
<1>0. StoresTyped /\ JobsTyped /\ Clients \subseteq Jobs
  BY BootIsAJob DEF CustodyTypeOK
<1>1. ~Plays("nix") /\ ~Plays("mint") /\ ~Plays("import")
  BY <1>0, OneKind
<1>3. ASSUME NEW c \in Clients, EnrollJudge(c) \/ SignAfter(c) PROVE FALSE
  <2>1. job[c].op \in {"enroll", "nixsign"}
    BY <1>3 DEF EnrollJudge, SignAfter, At
  <2>. QED BY <1>0, <1>1, <2>1, NixJobs
<1>4. ASSUME NEW c \in Clients, NEW set \in {<<a, b>> : a, b \in Active}, ImportSet(c, set) PROVE FALSE
  BY <1>1, <1>4 DEF ImportSet
<1>5. ASSUME NEW c \in Clients, MintSign(c) PROVE FALSE
  <2>1. job[c].op = "mint"
    BY <1>5 DEF MintSign, At
  <2>. QED BY <1>0, <1>1, <2>1 DEF JobsTyped, JobData
<1>. QED BY <1>3, <1>4, <1>5, CustodyFrame DEF Framed, AnswerStep

(* Tokens stay as they were made while the clock moves. *)
LEMMA ChainsStay ==
  ASSUME CustodyTypeOK, ChainsOk, TokensNamed, [CustodyNext]_custodyVars
  PROVE ChainsOk'
<1>0. scene' = scene
  BY CustodyFrame DEF Framed
<1>1. SUFFICES ASSUME Plays("nats") PROVE \A a \in answers' : ChainOk(a)
  BY <1>0 DEF ChainsOk, Plays, ChainOk, TokenOk
<1>2. \A a \in answers : ChainOk(a)
  BY <1>1 DEF ChainsOk
<1>3. ASSUME NEW c \in Clients, NatsFinish(c) PROVE \A a \in answers' : ChainOk(a)
  <2>. DEFINE t == job[c].ws[1]
              by == Last(tk[job[c].k].mat)
              turned == job[c].n # Latest(job[c].k)
  <2>1. PICK late \in 0..MaxClock : answers' = {[jwt |-> [t EXCEPT !.by = by], at |-> late, turned |-> turned]}
    BY <1>3 DEF NatsFinish
  <2>2. job[c].op = "nats" /\ c \in Jobs
    BY <1>3, BootIsAJob DEF NatsFinish, At
  <2>3. TokenOk(t) /\ job[c].n \in 1..Latest(job[c].k) /\ t.iss.pub = tk[job[c].k].mat[job[c].n]
    BY <2>2 DEF TokensNamed, NamesVersion
  <2>4. ~turned => by = t.iss.pub
    BY <2>3 DEF Latest, Last
  <2>. DEFINE u == [t EXCEPT !.by = by]
              a == [jwt |-> u, at |-> late, turned |-> turned]
  <2>. HIDE DEF t, by, turned
  <2>5. u = [iss |-> t.iss, sub |-> t.sub, kind |-> t.kind, iat |-> t.iat, exp |-> t.exp, nbf |-> t.nbf,
             jti |-> t.jti, by |-> by]
    BY <2>3 DEF TokenOk
  <2>. HIDE DEF u
  <2>6. /\ u = [iss |-> u.iss, sub |-> u.sub, kind |-> u.kind, iat |-> u.iat, exp |-> u.exp, nbf |-> u.nbf,
                jti |-> u.jti, by |-> u.by]
        /\ u.iss = t.iss /\ u.sub = t.sub /\ u.kind = t.kind /\ u.exp = t.exp /\ u.nbf = t.nbf /\ u.by = by
    BY <2>5
  <2>7. TokenOk(u)
    BY <2>3, <2>6 DEF TokenOk
  <2>8. a = [jwt |-> a.jwt, at |-> a.at, turned |-> a.turned] /\ a.jwt = u /\ a.at = late /\ a.turned = turned
    OBVIOUS
  <2>9. late \in Nat
    OBVIOUS
  <2>. HIDE DEF a
  <2>10. ChainOk(a)
    BY <2>4, <2>6, <2>7, <2>8, <2>9 DEF ChainOk
  <2>. QED BY <2>1, <2>10 DEF a, u
<1>5. CASE Clock
  <2>1. PICK t \in answers : answers' = {[t EXCEPT !.at = @ + 1]}
    BY <1>5 DEF Clock
  <2>. DEFINE u == [t EXCEPT !.at = @ + 1]
  <2>2. ChainOk(t)
    BY <1>2
  <2>3. t = [jwt |-> t.jwt, at |-> t.at, turned |-> t.turned] /\ t.at \in Nat
    BY <2>2 DEF ChainOk
  <2>4. u = [jwt |-> t.jwt, at |-> t.at + 1, turned |-> t.turned]
    BY <2>3
  <2>5. u = [jwt |-> u.jwt, at |-> u.at, turned |-> u.turned] /\ u.jwt = t.jwt /\ u.turned = t.turned /\ u.at \in Nat
    BY <2>3, <2>4
  <2>. HIDE DEF u
  <2>6. ChainOk(u)
    BY <2>2, <2>5 DEF ChainOk
  <2>. QED BY <2>1, <2>6 DEF u
<1>. QED BY <1>1, <1>2, <1>3, <1>5, NatsAnswers

(* A signer with another key is never accepted. *)
LEMMA OneSigner ==
  ASSUME NEW a, ChainOk(a), NEW p, p # a.jwt.iss.pub
  PROVE ValidateNatsJwt(a.jwt, a.jwt.kind, <<EncodePublic(a.jwt.iss.role, p)>>, a.at) # "Valid"
<1>. DEFINE t == a.jwt
            signers == <<EncodePublic(t.iss.role, p)>>
            stops == {i \in DOMAIN signers : \/ ~DecodePublic(signers[i])
                                             \/ VerifyWithCandidates(t, signers[i], a.at).matched}
<1>1. t.iss.role \in {"A", "O", "N", "X"}
  BY DEF ChainOk, TokenOk
<1>2. DOMAIN signers = {1} /\ signers[1] = [role |-> t.iss.role, pub |-> p]
  BY DEF EncodePublic
<1>3. DecodePublic(signers[1])
  BY <1>1, <1>2 DEF DecodePublic, NkeyType
<1>4. ~SignerMatches(t, signers[1])
  BY <1>1, <1>2 DEF SignerMatches
<1>5. VerifyWithCandidates(t, signers[1], a.at).matched = FALSE
  BY <1>4 DEF VerifyWithCandidates
<1>6. stops = {}
  BY <1>2, <1>3, <1>5, SMTT(40)
<1>7. ValidateNatsJwt(t, t.kind, signers, a.at) \in {"Malformed", "WrongType", "UnknownSigner"}
  BY <1>6 DEF ValidateNatsJwt
<1>. QED BY <1>7

(* Among two candidates the issuer is found, and the token is valid        *)
(* exactly while it is live, if the issuer signed it.                      *)
LEMMA TwoSigners ==
  ASSUME NEW a, ChainOk(a)
  PROVE (ValidateNatsJwt(a.jwt, a.jwt.kind, <<EncodePublic("U", 9), a.jwt.iss>>, a.at) = "Valid")
        = ((a.jwt.exp # NoTime => a.jwt.exp > a.at) /\ (a.jwt.nbf # NoTime => a.jwt.nbf <= a.at)
           /\ a.jwt.by = a.jwt.iss.pub)
<1>. DEFINE t == a.jwt
            signers == <<EncodePublic("U", 9), t.iss>>
            stops == {i \in DOMAIN signers : \/ ~DecodePublic(signers[i])
                                             \/ VerifyWithCandidates(t, signers[i], a.at).matched}
            first == CHOOSE i \in stops : \A j \in stops : i <= j
            live == (t.exp # NoTime => t.exp > a.at) /\ (t.nbf # NoTime => t.nbf <= a.at) /\ t.by = t.iss.pub
            said == ValidateNatsJwt(t, t.kind, signers, a.at)
<1>1. t.iss.role \in {"A", "O", "N", "X"} /\ t.exp \in Int /\ t.nbf \in Int /\ a.at \in Nat
  BY DEF ChainOk, TokenOk
<1>2. DOMAIN signers = {1, 2} /\ signers[1] = [role |-> "U", pub |-> 9] /\ signers[2] = t.iss
  BY DEF EncodePublic
<1>3. DecodePublic(signers[1]) /\ DecodePublic(signers[2]) /\ DecodeNatsJwt(t)
  BY <1>1, <1>2 DEF DecodePublic, NkeyType, DecodeNatsJwt
<1>4. ~SignerMatches(t, signers[1]) /\ SignerMatches(t, signers[2])
  BY <1>1, <1>2 DEF SignerMatches
<1>5. VerifyWithCandidates(t, signers[1], a.at).matched = FALSE
  BY <1>4 DEF VerifyWithCandidates
<1>6. /\ live => ValidationForMatch(t, a.at) = "Valid"
      /\ ~live => ValidationForMatch(t, a.at) # "Valid"
  BY <1>1 DEF ValidationForMatch, NoTime
<1>7. /\ VerifyWithCandidates(t, signers[2], a.at).reason = ValidationForMatch(t, a.at)
      /\ VerifyWithCandidates(t, signers[2], a.at).matched = (ValidationForMatch(t, a.at) = "Valid")
  BY <1>4 DEF VerifyWithCandidates
<1>8. said = IF ~DecodeNatsJwt(t) THEN "Malformed"
             ELSE IF t.kind # "any" /\ t.kind # t.kind THEN "WrongType"
             ELSE IF stops = {} THEN "UnknownSigner"
             ELSE IF ~DecodePublic(signers[first]) THEN "InvalidRequest"
             ELSE VerifyWithCandidates(t, signers[first], a.at).reason
  BY DEF ValidateNatsJwt
<1>9. ASSUME live PROVE said = "Valid"
  <2>1. stops = {2}
    BY <1>2, <1>3, <1>5, <1>6, <1>7, <1>9
  <2>2. first = 2
    BY <2>1
  <2>. HIDE DEF stops, first, said, signers
  <2>. QED BY <1>3, <1>6, <1>7, <1>8, <1>9, <2>1, <2>2
<1>10. ASSUME ~live PROVE said # "Valid"
  <2>1. stops = {}
    BY <1>2, <1>3, <1>5, <1>6, <1>7, <1>10
  <2>. HIDE DEF stops, first, said, signers
  <2>. QED BY <1>3, <1>8, <2>1
<1>. QED BY <1>9, <1>10, Zenon

(* The pin and chain part of the inductive invariant. *)
ChainInv == AnswersPinned /\ ChainsOk /\ TokensNamed

(* The chain part holds initially and is kept, and implies the property. *)
LEMMA ChainInvInit == CustodyInit => ChainInv
  BY InitialJobs DEF CustodyInit, ChainInv, AnswersPinned, ChainsOk, TokensNamed

LEMMA ChainInvStays ==
  CustodyTypeOK /\ ChainInv /\ [CustodyNext]_custodyVars => ChainInv'
  BY PinsStay, ChainsStay, TokensNamedStay DEF ChainInv

LEMMA ChainsFollow == ChainInv => ChainsVerify
<1>. SUFFICES ASSUME ChainInv PROVE ChainsVerify
  OBVIOUS
<1>1. NixPinned
  BY DEF ChainInv, AnswersPinned, NixPinned, Pinned
<1>2. NatsChain
  <2>1. ASSUME Plays("nats"), NEW a \in answers PROVE ChainOk(a)
    BY <2>1 DEF ChainInv, ChainsOk
  <2>2. ASSUME Plays("nats"), NEW a \in answers
        PROVE /\ ValidateNatsRoles(a.jwt.iss.role, a.jwt.kind, a.jwt.sub)
              /\ a.jwt.by # a.jwt.iss.pub => a.turned
    BY <2>1, <2>2 DEF ChainOk, TokenOk
  <2>. QED BY <2>1, <2>2, OneSigner, TwoSigners, Zenon DEF NatsChain
<1>. QED BY <1>1, <1>2 DEF ChainsVerify

(* What the broker signs is what its verifiers expect: a Nix cache         *)
(* signature was made by the key that the catalog pins, whatever happens   *)
(* to the key in the backend meanwhile (sign_nix_cache_fingerprint), and a *)
(* NATS token that any request mints or signs is accepted by               *)
(* validate_nats_jwt while it lives, and for no other signer, unless the   *)
(* key was rotated between the read of the issuer and the signature: that  *)
(* token is never accepted (minter.rs).                                    *)
THEOREM ChainsVerifyHolds == CustodySpec => []ChainsVerify
<1>1. CustodyTypeOK /\ ChainInv /\ [CustodyNext]_custodyVars => ChainInv'
  BY ChainInvStays
<1>. QED BY <1>1, ChainInvInit, ChainsFollow, CustodyTypes, PTL DEF CustodySpec

(***************************************************************************)
(* Keys are created completely, by the reconcile pass, and once, by        *)
(* enrollment.                                                             *)
(***************************************************************************)
(* What the pass has reached: no required key was missing so far, or the   *)
(* key at hand is stored or queued to be written.                          *)
Reconciled(k) == k \in Active /\ Entry[k].missing # "warn" => Probe(k)
Queued(k) == \E i \in DOMAIN job[Boot].ws : job[Boot].ws[i].p = k
AtHand == order[job[Boot].n]
PutAtHand ==
  /\ job[Boot].n \in 1..Len(order)
  /\ Entry[AtHand].class \in {"value", "public"}
  /\ HasKv(AtHand) \/ Queued(AtHand)
BootProgress ==
  job[Boot].op = "boot" =>
    /\ job[Boot].k = NoKey => \A i \in 1..Len(order) : i < job[Boot].n => Reconciled(order[i])
    /\ job[Boot].at = "put" => PutAtHand
BootInv == BootProgress /\ BootComplete

(* A value once stored stays stored, and so does a key of a scene in which *)
(* the store is reconciled.                                                *)
LEMMA ValuesStay ==
  ASSUME CustodyTypeOK, [CustodyNext]_custodyVars, NEW p \in Paths, HasKv(p)
  PROVE HasKv(p)'
<1>0. StoresTyped
  BY DEF CustodyTypeOK
<1>1. CASE kv' = kv
  BY <1>1 DEF HasKv
<1>2. ASSUME NEW q \in Keys, NEW v \in StoredType, Writes(q, v) PROVE HasKv(p)'
  BY <1>0, <1>2, WrittenLast
<1>. QED BY <1>1, <1>2, StoreWrites

LEMMA TransitKeysStay ==
  ASSUME CustodyTypeOK, [CustodyNext]_custodyVars, ~Plays("nix"), NEW k \in Keys, HasTk(k)
  PROVE HasTk(k)'
<1>0. StoresTyped /\ tk \in [Keys -> TransitType] /\ tk[k] \in TransitType /\ tk[k].mat \in Seq(Nat)
      /\ serial + 1 \in Nat
  BY TransitFields DEF CustodyTypeOK, StoresTyped
<1>1. CASE tk' = tk
  BY <1>1 DEF HasTk
<1>2. ASSUME NEW j \in Keys, TransitWrite(j) PROVE HasTk(k)'
  <2>1. CASE j # k
    <3>1. tk'[k] = tk[k]
      BY <1>0, <1>2, <2>1 DEF TransitWrite, Meddle
    <3>. QED BY <3>1 DEF HasTk
  <2>2. CASE j = k
    <3>1. ~Meddle(k)
      BY DEF Meddle
    <3>2. tk'[k].mat = tk[k].mat \/ tk'[k].mat = Append(tk[k].mat, serial + 1)
      BY <1>0, <1>2, <2>2, <3>1 DEF TransitWrite, TransitType
    <3>3. Append(tk[k].mat, serial + 1) # << >>
      BY <1>0
    <3>. QED BY <3>2, <3>3 DEF HasTk
  <2>. QED BY <2>1, <2>2
<1>. QED BY <1>1, <1>2, TransitWrites

(* What a probe has found present stays present. *)
LEMMA ProbeStays ==
  ASSUME CustodyTypeOK, [CustodyNext]_custodyVars, Plays("boot"), NEW k \in Keys, Probe(k)
  PROVE Probe(k)'
<1>1. ~Plays("nix")
  BY BootKind DEF CustodyTypeOK
<1>2. k \in Paths /\ Public(k) \in Paths
  BY DEF Paths
<1>3. HasKv(k) => HasKv(k)'
  BY <1>2, ValuesStay
<1>4. HasKv(Public(k)) => HasKv(Public(k))'
  BY <1>2, ValuesStay
<1>5. HasTk(k) => HasTk(k)'
  BY <1>1, TransitKeysStay
<1>. QED BY <1>3, <1>4, <1>5 DEF Probe, Public, HasKv, MaterializeToUse

(* The catalog lists keys. *)
LEMMA OrderedKeys ==
  ASSUME StoresTyped
  PROVE /\ order \in Seq(Keys) /\ Len(order) \in Nat
        /\ \A i \in 1..Len(order) : order[i] \in Keys /\ order[i] # NoKey
  BY ScenesAssumption DEF StoresTyped

(* A key that was reconciled stays reconciled. *)
LEMMA ReconciledStays ==
  ASSUME CustodyTypeOK, [CustodyNext]_custodyVars, Plays("boot"), NEW k \in Keys, Reconciled(k)
  PROVE Reconciled(k)'
<1>1. scene' = scene
  BY CustodyFrame DEF Framed
<1>2. (k \in Active)' = (k \in Active)
  BY <1>1 DEF Active
<1>. QED BY <1>2, ProbeStays DEF Reconciled

(* The keys before number n were reconciled, and still are. *)
LEMMA PrefixStays ==
  ASSUME CustodyTypeOK, [CustodyNext]_custodyVars, Plays("boot"), NEW n,
         \A i \in 1..Len(order) : i < n => Reconciled(order[i])
  PROVE \A i \in 1..Len(order') : i < n => Reconciled(order[i])'
<1>1. order' = order /\ StoresTyped
  BY CustodyFrame DEF Framed, CustodyTypeOK
<1>2. ASSUME NEW i \in 1..Len(order), i < n PROVE Reconciled(order[i])'
  <2>1. order[i] \in Keys /\ Reconciled(order[i])
    BY <1>1, <1>2, OrderedKeys
  <2>2. ASSUME NEW k \in Keys, Reconciled(k) PROVE Reconciled(k)'
    BY <2>2, ReconciledStays
  <2>3. order[i]' = order[i]
    BY <1>1
  <2>. QED BY <2>1, <2>2, <2>3, <1>1 DEF Reconciled, Probe, HasKv, HasTk, Active, Public, MaterializeToUse
<1>. QED BY <1>1, <1>2

(* A probe that goes on has reconciled its key, or remembers it as missing. *)
LEMMA ProbeProgress ==
  ASSUME CustodyTypeOK, BootProgress, [CustodyNext]_custodyVars, BootProbe, job'[Boot].op = "boot"
  PROVE BootProgress'
<1>. DEFINE next == [job[Boot] EXCEPT !.n = @ + 1]
<1>0. /\ StoresTyped /\ JobsTyped /\ Boot \in Jobs /\ JobShape(job[Boot]) /\ job[Boot].op = "boot"
      /\ job[Boot].n \in Nat \ {0} /\ Plays("boot") /\ order' = order /\ scene' = scene
      /\ job[Boot].at = "probe" /\ job[Boot].n <= Len(order) /\ serial \in Nat /\ kv' = kv
  BY BootIsAJob, CustodyFrame DEF BootProbe, At, CustodyTypeOK, JobsTyped, JobData, StoresTyped, Framed
<1>1. PICK k \in Keys : k = order[job[Boot].n] /\ k # NoKey
  BY <1>0, OrderedKeys
<1>2. \A i \in 1..Len(order) : i < job[Boot].n => order[i] \in Keys
  BY <1>0, OrderedKeys
<1>3. ASSUME job[Boot].k = NoKey
      PROVE \A i \in 1..Len(order) : i < job[Boot].n => Reconciled(order[i])'
  BY <1>0, <1>3, PrefixStays DEF BootProgress
<1>4. next.n = job[Boot].n + 1 /\ next.k = job[Boot].k /\ next.at = "probe" /\ next.op = "boot"
  BY <1>0 DEF JobShape, JobFields
<1>5. ASSUME job'[Boot] = next, Reconciled(k)' PROVE BootProgress'
  <2>1. job'[Boot].n = job[Boot].n + 1 /\ job'[Boot].k = job[Boot].k /\ job'[Boot].at = "probe"
    BY <1>4, <1>5
  <2>2. ASSUME job'[Boot].k = NoKey, NEW i \in 1..Len(order), i < job[Boot].n + 1
        PROVE Reconciled(order[i])'
    <3>1. CASE i < job[Boot].n
      BY <1>3, <2>1, <2>2, <3>1
    <3>2. CASE i = job[Boot].n
      BY <1>0, <1>1, <1>5, <3>2 DEF Reconciled, Probe, HasKv, HasTk, Active, Public, MaterializeToUse
    <3>. QED BY <1>0, <2>2, <3>1, <3>2
  <2>. QED BY <1>0, <2>1, <2>2 DEF BootProgress
<1>6. CASE k \notin Active \/ Probe(k) \/ Entry[k].missing = "warn"
  <2>1. job'[Boot] = next
    BY <1>0, <1>6, <1>1, SetIs DEF BootProbe
  <2>2. Reconciled(k)
    BY <1>6 DEF Reconciled
  <2>3. ASSUME NEW j \in Keys, Reconciled(j) PROVE Reconciled(j)'
    BY <1>0, <2>3, ReconciledStays
  <2>4. Reconciled(k)'
    BY <2>2, <2>3
  <2>. QED BY <1>5, <2>1, <2>4
<1>7. CASE ~(k \notin Active \/ Probe(k) \/ Entry[k].missing = "warn") /\ Entry[k].missing = "error"
  <2>1. job'[Boot] = [next EXCEPT !.k = k]
    BY <1>0, <1>7, <1>1, SetIs DEF BootProbe
  <2>2. job'[Boot].k = k /\ job'[Boot].at = "probe"
    BY <1>0, <2>1 DEF JobShape, JobFields
  <2>. QED BY <1>1, <2>2 DEF BootProgress
<1>8. CASE /\ ~(k \notin Active \/ Probe(k) \/ Entry[k].missing = "warn") /\ Entry[k].missing # "error"
           /\ GenerateOk(k) /\ Entry[k].class \in {"asym", "sym"}
  <2>1. job'[Boot] = next /\ tk' = [tk EXCEPT ![k] = Created(k, serial + 1)]
    BY <1>0, <1>8, <1>1, SetIs DEF BootProbe
  <2>2. tk'[k] = Created(k, serial + 1)
    BY <1>0, <1>1, <2>1 DEF StoresTyped
  <2>3. tk'[k].mat # << >>
    <3>1. serial + 1 \in Nat
      BY <1>0
    <3>2. TransitKey(serial + 1).mat = <<serial + 1>>
      BY <3>1, NewTransitTyped
    <3>3. <<serial + 1>> # << >>
      OBVIOUS
    <3>4. CASE HasTk(k)
      BY <2>2, <3>4 DEF Created, HasTk
    <3>5. CASE ~HasTk(k)
      BY <2>2, <3>2, <3>3, <3>5 DEF Created
    <3>. QED BY <3>4, <3>5
  <2>4. ~MaterializeToUse(k)
    BY <1>8 DEF GenerateOk, MaterializeToUse
  <2>5. Reconciled(k)'
    BY <1>0, <1>8, <2>3, <2>4 DEF Reconciled, Probe, HasTk, Active, MaterializeToUse
  <2>. QED BY <1>5, <2>1, <2>5
<1>9. CASE /\ ~(k \notin Active \/ Probe(k) \/ Entry[k].missing = "warn") /\ Entry[k].missing # "error"
           /\ GenerateOk(k) /\ Entry[k].class \notin {"asym", "sym"}
  <2>. DEFINE j == [job[Boot] EXCEPT !.at = "put", !.ws = GeneratedWrites(k, serial + 1)]
  <2>1. Begin(Boot, j)
    BY <1>0, <1>1, <1>9 DEF BootProbe
  <2>2. CanGenerate(k)
    BY <1>9 DEF GenerateOk
  <2>3. JobShape(j) /\ j.n = job[Boot].n /\ j.k = job[Boot].k /\ j.at = "put"
        /\ j.ws = GeneratedWrites(k, serial + 1)
    BY <1>0 DEF JobShape, JobFields
  <2>4. job'[Boot].n = job[Boot].n /\ job'[Boot].k = job[Boot].k
        /\ job'[Boot].ws = GeneratedWrites(k, serial + 1)
    <3>. HIDE DEF j
    <3>. QED BY <1>0, <2>1, <2>3, BeginEffect
  <2>5. \E i \in DOMAIN job'[Boot].ws : job'[Boot].ws[i].p = k
    <3>1. serial + 1 \in Nat
      BY <1>0
    <3>. DEFINE s == GeneratedWrites(k, serial + 1)
    <3>2. \E i \in DOMAIN s : s[i].p = k
      BY <1>0, <2>2, <3>1, GeneratedTyped
    <3>3. job'[Boot].ws = s
      BY <2>4
    <3>. QED BY <3>2, <3>3, Zenon
  <2>6. Entry[k].class \in {"value", "public"}
    BY <2>2 DEF CanGenerate, RequireClass
  <2>7. PutAtHand'
    BY <1>0, <1>1, <2>4, <2>5, <2>6, OrderedKeys DEF PutAtHand, AtHand, Queued
  <2>. QED BY <1>0, <1>3, <2>4, <2>7 DEF BootProgress
<1>10. CASE /\ ~(k \notin Active \/ Probe(k) \/ Entry[k].missing = "warn") /\ Entry[k].missing # "error"
            /\ ~GenerateOk(k)
  <2>1. job'[Boot] = IdleJob
    BY <1>0, <1>10, <1>1, SetIs DEF BootProbe
  <2>. QED BY <2>1, IdleShape
<1>. QED BY <1>6, <1>7, <1>8, <1>9, <1>10

(* A write keeps the key at hand stored or queued, and the last one leaves *)
(* it stored.                                                              *)
LEMMA PutProgress ==
  ASSUME CustodyTypeOK, BootProgress, [CustodyNext]_custodyVars, Put(Boot), job'[Boot].op = "boot"
  PROVE BootProgress'
<1>. DEFINE w == job[Boot].ws[1]
<1>0. /\ StoresTyped /\ JobsTyped /\ Boot \in Jobs /\ JobShape(job[Boot]) /\ Writing(Boot)
      /\ order' = order /\ scene' = scene /\ job[Boot].at = "put"
  BY BootIsAJob, CustodyFrame DEF Put, CustodyTypeOK, JobsTyped, Framed
<1>1. job[Boot].op = "boot" /\ job[Boot].n \in Nat \ {0} /\ Plays("boot")
  BY <1>0 DEF JobsTyped, JobPlace, JobData, Writing
<1>2. /\ job[Boot].ws \in Seq(WriteType) /\ job[Boot].ws # << >> /\ w \in WriteType /\ w.p \in Keys
  BY <1>0, LastWrite
<1>3. Writes(w.p, w.v) /\ w.v \in StoredType
  BY <1>0, <1>2, WriteStored DEF Put, Writes
<1>4. job[Boot].n \in 1..Len(order) /\ Entry[AtHand].class \in {"value", "public"}
      /\ (HasKv(AtHand) \/ Queued(AtHand))
  BY <1>0, <1>1 DEF BootProgress, PutAtHand
<1>5. PICK k \in Keys : k = order[job[Boot].n] /\ k \in Paths
  BY <1>0, <1>4, OrderedKeys, KeysArePaths
<1>6. HasKv(k) \/ k = w.p => HasKv(k)'
  BY <1>0, <1>2, <1>3, <1>5, WrittenLast
<1>7. ASSUME job[Boot].k = NoKey
      PROVE \A i \in 1..Len(order) : i < job[Boot].n => Reconciled(order[i])'
  BY <1>0, <1>1, <1>7, PrefixStays DEF BootProgress
<1>8. CASE Len(job[Boot].ws) = 1
  <2>1. job'[Boot] = [job[Boot] EXCEPT !.ws = << >>, !.at = "probe", !.n = @ + 1, !.half = FALSE]
    BY <1>0, <1>8, SetIs DEF Put
  <2>2. job'[Boot].n = job[Boot].n + 1 /\ job'[Boot].k = job[Boot].k /\ job'[Boot].at = "probe"
    BY <1>0, <2>1 DEF JobShape, JobFields
  <2>3. HasKv(k) \/ k = w.p
    BY <1>2, <1>4, <1>5, <1>8 DEF AtHand, Queued
  <2>4. Reconciled(k)'
    BY <1>4, <1>5, <1>6, <2>3 DEF Reconciled, Probe, MaterializeToUse, AtHand
  <2>5. ASSUME job'[Boot].k = NoKey, NEW i \in 1..Len(order), i < job[Boot].n + 1
        PROVE Reconciled(order[i])'
    <3>1. CASE i < job[Boot].n
      BY <1>7, <2>2, <2>5, <3>1
    <3>2. CASE i = job[Boot].n
      BY <1>0, <1>5, <2>4, <3>2 DEF Reconciled, Probe, HasKv, HasTk, Active, Public, MaterializeToUse
    <3>. QED BY <1>1, <2>5, <3>1, <3>2
  <2>. QED BY <1>0, <2>2, <2>5 DEF BootProgress
<1>9. CASE Len(job[Boot].ws) # 1
  <2>1. job'[Boot] = [job[Boot] EXCEPT !.ws = Tail(@), !.half = TRUE]
    BY <1>0, <1>9, SetIs DEF Put
  <2>2. job'[Boot].n = job[Boot].n /\ job'[Boot].k = job[Boot].k /\ job'[Boot].ws = Tail(job[Boot].ws)
    BY <1>0, <2>1 DEF JobShape, JobFields
  <2>3. ASSUME NEW i \in DOMAIN job[Boot].ws, job[Boot].ws[i].p = k, k # w.p
        PROVE \E m \in DOMAIN job'[Boot].ws : job'[Boot].ws[m].p = k
    <3>1. i \in 1..Len(job[Boot].ws) /\ i # 1
      BY <1>2, <2>3
    <3>2. i - 1 \in DOMAIN Tail(job[Boot].ws) /\ Tail(job[Boot].ws)[i - 1] = job[Boot].ws[i]
      BY <1>2, <3>1
    <3>. QED BY <2>2, <2>3, <3>2
  <2>4. HasKv(k)' \/ Queued(k)'
    BY <1>4, <1>5, <1>6, <2>3 DEF AtHand, Queued
  <2>5. PutAtHand'
    BY <1>0, <1>4, <1>5, <2>2, <2>4 DEF PutAtHand, AtHand, Queued, HasKv
  <2>. QED BY <1>0, <1>7, <2>2, <2>5 DEF BootProgress
<1>. QED BY <1>8, <1>9

(* Every step keeps the progress of the pass; a restart begins it anew. *)
LEMMA ProgressStays ==
  ASSUME CustodyTypeOK, BootProgress, [CustodyNext]_custodyVars
  PROVE BootProgress'
<1>0. StoresTyped /\ JobsTyped /\ Boot \in Jobs /\ order' = order /\ scene' = scene
  BY BootIsAJob, CustodyFrame DEF CustodyTypeOK, Framed
<1>. SUFFICES ASSUME job'[Boot].op = "boot" PROVE BootProgress'
  BY DEF BootProgress
<1>1. SameJob(Boot) \/ BootProbe \/ Put(Boot) \/ Crash
  BY <1>0, CustodyMoves DEF Moves, MovesTo, BootMove
<1>2. CASE SameJob(Boot)
  <2>1. job[Boot].op = "boot" /\ job'[Boot].k = job[Boot].k /\ job'[Boot].n = job[Boot].n
        /\ job'[Boot].at = job[Boot].at /\ job'[Boot].ws = job[Boot].ws
    BY <1>2 DEF SameJob
  <2>2. Plays("boot")
    BY <1>0, <2>1 DEF JobsTyped, JobData
  <2>3. job[Boot].k = NoKey => \A i \in 1..Len(order) : i < job[Boot].n => Reconciled(order[i])'
    BY <1>0, <2>1, <2>2, PrefixStays DEF BootProgress
  <2>4. ASSUME job[Boot].at = "put" PROVE PutAtHand'
    <3>1. PutAtHand
      BY <2>1, <2>4 DEF BootProgress
    <3>2. AtHand \in Paths
      BY <1>0, <3>1, OrderedKeys, KeysArePaths DEF PutAtHand, AtHand
    <3>3. PICK k \in Paths : k = AtHand
      BY <3>2
    <3>4. HasKv(k) => HasKv(k)'
      BY ValuesStay
    <3>. QED BY <1>0, <2>1, <3>1, <3>3, <3>4 DEF PutAtHand, AtHand, Queued, HasKv
  <2>. QED BY <1>0, <2>1, <2>3, <2>4 DEF BootProgress
<1>3. CASE Crash
  <2>1. job'[Boot] = BootJob
    BY <1>0, <1>3 DEF Crash
  <2>2. job'[Boot].n = 1 /\ job'[Boot].at = "probe"
    BY <2>1 DEF BootJob, IdleJob
  <2>. QED BY <1>0, <2>2, OrderedKeys DEF BootProgress
<1>. QED BY <1>1, <1>2, <1>3, ProbeProgress, PutProgress

(* The pass ends in service only when it has remembered no missing key, so *)
(* every key of the catalog is there from then on.                         *)
LEMMA CompleteStays ==
  ASSUME CustodyTypeOK, BootInv, [CustodyNext]_custodyVars
  PROVE BootComplete'
<1>0. /\ StoresTyped /\ JobsTyped /\ Boot \in Jobs /\ order' = order /\ scene' = scene
      /\ Active' = Active /\ Active \subseteq Keys /\ Plays("boot")' = Plays("boot")
  BY BootIsAJob, CustodyFrame, ActiveKeys DEF CustodyTypeOK, Framed, Active, Plays
<1>. SUFFICES ASSUME Plays("boot"), phase' = "serving", NEW k \in Active, Entry[k].missing # "warn"
              PROVE Probe(k)'
  BY <1>0 DEF BootComplete
<1>1. SUFFICES Probe(k)
  BY <1>0, ProbeStays
<1>2. CASE phase = "serving"
  BY <1>2 DEF BootInv, BootComplete
<1>3. CASE phase # "serving"
  <2>1. BootEnds /\ job[Boot].k = NoKey /\ job[Boot].n > Len(order) /\ job[Boot].op = "boot"
    BY <1>3, CustodyFrame DEF Framed, PhaseStep, BootProbe, BootEnds, Crash, At
  <2>2. PICK i \in 1..Len(order) : order[i] = k
    BY <1>0, ScenesAssumption DEF StoresTyped, Plays, Active
  <2>3. job[Boot].n \in Nat /\ Len(order) \in Nat
    BY <1>0, <2>1, OrderedKeys DEF JobsTyped, JobData
  <2>4. Reconciled(k)
    BY <2>1, <2>2, <2>3 DEF BootInv, BootProgress
  <2>. QED BY <2>4 DEF Reconciled
<1>. QED BY <1>2, <1>3

(* The boot part holds initially and is kept. *)
LEMMA BootInvInit == CustodyInit => BootInv
<1>. SUFFICES ASSUME CustodyInit PROVE BootInv
  OBVIOUS
<1>0. StoresTyped /\ Boot \in Jobs
  BY InitialTypes, BootIsAJob DEF CustodyTypeOK
<1>1. BootComplete
  BY DEF CustodyInit, BootComplete
<1>2. ASSUME job[Boot].op = "boot" PROVE job[Boot].n = 1 /\ job[Boot].at = "probe"
  <2>1. job[Boot] = BootJob
    BY <1>0, <1>2, InitialJobs, IdleShape
  <2>. QED BY <2>1 DEF BootJob, IdleJob
<1>3. BootProgress
  BY <1>0, <1>2, OrderedKeys DEF BootProgress
<1>. QED BY <1>1, <1>3 DEF BootInv

LEMMA BootInvStays ==
  CustodyTypeOK /\ BootInv /\ [CustodyNext]_custodyVars => BootInv'
  BY ProgressStays, CompleteStays DEF BootInv

(* An enrollment at one of the places. *)
Enrolls(c, places) == job[c].op = "enroll" /\ job[c].at \in places
Creates(c) == Enrolls(c, {"reread"}) \/ (Enrolls(c, {"judge"}) /\ job[c].n = 1)
EnrollsAlone == \A c \in Jobs : Enrolls(c, {"create", "reread", "judge"}) => lock = c
(* The key of a Nix route while nobody meddles with it, and what answers   *)
(* and enrollments know of it.                                             *)
Fresh(k) == tk[k] = NoTk \/ \E n \in Nat : tk[k] = TransitKey(n)
KeyKnown(k) ==
  /\ Fresh(k)
  /\ \A a \in answers : HasTk(k) /\ a.pub = tk[k].mat[1]
  /\ \A c \in Jobs : Enrolls(c, {"create"}) => ~HasTk(k)
  /\ \A c \in Jobs : Creates(c) => HasTk(k)
  /\ \A c \in Jobs : Enrolls(c, {"judge"}) => job[c].post = tk[k] /\ HasTk(k)
KeysKnown == \A k \in Active : NixRoute(k) => KeyKnown(k)
NewOnce ==
  /\ \A a, b \in answers : a.new /\ b.new => a = b
  /\ \A c \in Jobs : Creates(c) \/ Enrolls(c, {"create"}) => \A a \in answers : ~a.new
  /\ answers # {} => \E k \in Active : NixRoute(k)
Unmeddled == Plays("nix") /\ spent.meddles = 0
CreationInv == EnrollsAlone /\ (Unmeddled => KeysKnown /\ NewOnce)

(* Whoever is past the first read of an enrollment holds the mutex. *)
LEMMA AloneStays ==
  ASSUME CustodyTypeOK, EnrollsAlone, [CustodyNext]_custodyVars
  PROVE EnrollsAlone'
<1>0. StoresTyped /\ JobsTyped /\ Clients \subseteq Jobs /\ Boot \in Jobs /\ Boot \notin Clients
  BY BootIsAJob DEF CustodyTypeOK
<1>. SUFFICES ASSUME NEW d \in Jobs, job'[d].op = "enroll", job'[d].at \in {"create", "reread", "judge"}
              PROVE lock' = d
  BY DEF EnrollsAlone, Enrolls
<1>1. SameJob(d) \/ EnrollMove(d)
  BY CustodyMoves DEF Moves, MovesTo
<1>2. CASE SameJob(d)
  <2>1. job[d].op = "enroll" /\ lock = d
    BY <1>2 DEF SameJob, EnrollsAlone, Enrolls
  <2>2. d \in Clients /\ d # NoKey
    BY <1>0, <2>1, ScenesAssumption DEF JobsTyped, JobPlace, Jobs
  <2>3. ASSUME NEW c \in Clients, EnrollJudge(c) \/ Drop(c) PROVE lock' = lock
    <3>1. job'[c] = IdleJob
      BY <1>0, <2>3, SetIs DEF EnrollJudge, Drop
    <3>2. c # d
      BY <3>1, IdleShape
    <3>. QED BY <2>1, <2>3, <3>2 DEF EnrollJudge, Drop
  <2>4. ASSUME NEW c \in Clients, EnrollRead(c) PROVE FALSE
    BY <2>1, <2>2, <2>4 DEF EnrollRead, LockFree
  <2>5. ~Crash
    <3>1. ASSUME Crash PROVE job'[d].op # "enroll"
      BY <1>0, <2>2, <3>1, IdleShape DEF Crash
    <3>. QED BY <3>1
  <2>6. lock' = lock \/ LockStep
    BY CustodyFrame DEF Framed
  <2>. QED BY <2>1, <2>3, <2>4, <2>5, <2>6 DEF LockStep
<1>3. ASSUME NEW k \in Keys, NixStart(d, k, "enroll") PROVE FALSE
  <2>1. job'[d].at = "first"
    BY <1>0, <1>3, SetIs DEF NixStart, IdleJob
  <2>. QED BY <2>1
<1>4. CASE EnrollRead(d)
  <2>1. lock' = d \/ job'[d] = IdleJob
    BY <1>0, <1>4, SetIs DEF EnrollRead
  <2>. QED BY <2>1, IdleShape
<1>5. CASE EnrollCreate(d) \/ EnrollReread(d)
  BY <1>5 DEF EnrollCreate, EnrollReread, At, EnrollsAlone, Enrolls
<1>. QED BY <1>1, <1>2, <1>3, <1>4, <1>5 DEF EnrollMove

(* While nobody meddles, only an enrollment that creates changes the key. *)
LEMMA UnmeddledBefore ==
  ASSUME CustodyTypeOK, [CustodyNext]_custodyVars, Unmeddled'
  PROVE /\ Unmeddled /\ ~Plays("boot") /\ ~Plays("import") /\ \A k \in Keys : ~Meddle(k)
        /\ Active' = Active /\ Active \subseteq Keys
<1>0. StoresTyped /\ scene' = scene /\ spent \in SpentType
  BY CustodyFrame DEF CustodyTypeOK, Framed, StoresTyped
<1>1. Plays("nix") /\ spent'.meddles = 0 /\ Active' = Active /\ Active \subseteq Keys
  BY <1>0, ActiveKeys DEF Unmeddled, Plays, Active
<1>2. ASSUME NEW k \in Keys, Meddle(k) PROVE FALSE
  <2>1. spent'.meddles = spent.meddles + 1 /\ spent.meddles \in Nat
    BY <1>0, <1>2 DEF Meddle, SpentType
  <2>. QED BY <1>1, <2>1
<1>3. Counted
  BY <1>0, CustodyCounters DEF StoresTyped
<1>4. spent.meddles = 0
  BY <1>1, <1>2, <1>3 DEF Counted
<1>5. ~Plays("boot") /\ ~Plays("import")
  BY <1>0, <1>1, BootKind, OneKind
<1>. QED BY <1>1, <1>2, <1>4, <1>5 DEF Unmeddled

(* The handlers of a scene with Nix keys are about the one key. *)
LEMMA NixKeySole ==
  ASSUME CustodyTypeOK, NEW c \in Jobs, job[c].op \in {"enroll", "nixsign"},
         NEW k \in Active, NixRoute(k)
  PROVE job[c].k = k
<1>1. job[c].k \in Active /\ Plays("nix") /\ NixRoute(job[c].k)
  BY NixJobs
<1>. QED BY <1>1, ScenesAssumption DEF CustodyTypeOK, StoresTyped, Plays, Active

KeySame(k) == tk'[k] = tk[k]
KeyMade(k) ==
  \E c \in Clients : EnrollCreate(c) /\ Enrolls(c, {"create"}) /\ ~HasTk(k) /\ tk'[k] = TransitKey(serial + 1)

(* Sweeps cannot move the floor of a key with one version, rotations       *)
(* refuse a Nix key, and an enrollment creates it at most once.            *)
LEMMA NixKeyStep ==
  ASSUME CustodyTypeOK, [CustodyNext]_custodyVars, Unmeddled', NEW k \in Active, NixRoute(k), KeyKnown(k)
  PROVE KeySame(k) \/ KeyMade(k)
<1>0. /\ StoresTyped /\ JobsTyped /\ BrokerTyped /\ Clients \subseteq Jobs /\ Boot \in Jobs
      /\ tk \in [Keys -> TransitType] /\ k \in Keys /\ Entry[k].nix /\ serial \in Nat
      /\ ~Plays("boot") /\ ~Plays("import") /\ \A j \in Keys : ~Meddle(j)
  BY BootIsAJob, ActiveKeys, UnmeddledBefore DEF CustodyTypeOK, StoresTyped, NixRoute
<1>1. ~BootProbe
  BY <1>0 DEF BootProbe, BrokerTyped
<1>2. ASSUME NEW c \in Clients, RotateFloor(c) PROVE KeySame(k)
  <2>1. job[c].k # k
    BY <1>0, <1>2 DEF JobsTyped, JobData, RotateFloor, At
  <2>. QED BY <1>0, <1>2, <2>1 DEF RotateFloor, SetDec, KeySame
<1>3. ASSUME NEW c \in Clients, SweepFloor(c) PROVE KeySame(k)
  <2>1. CASE job[c].k # k
    BY <1>0, <1>3, <2>1 DEF SweepFloor, SetAvail, KeySame
  <2>2. CASE job[c].k = k
    <3>1. job[c].n \in Nat
      BY <1>0, <1>3, <2>2 DEF JobsTyped, JobData, SweepFloor, At
    <3>. DEFINE a == RetentionFloor(job[c].n)
    <3>2. a \in Nat /\ a >= 1
      BY <3>1, FloorTypes
    <3>3. tk' = tk \/ (ConfigOk(k, tk[k].dec, a) /\ tk' = [tk EXCEPT ![k].avail = a])
      BY <1>3, <2>2 DEF SweepFloor, SetAvail
    <3>4. ASSUME ConfigOk(k, tk[k].dec, a), tk' = [tk EXCEPT ![k].avail = a] PROVE KeySame(k)
      <4>1. tk[k].dec = 1 /\ tk[k].avail = 1 /\ tk[k] \in TransitType
        BY <1>0, NewTransitTyped DEF KeyKnown, Fresh
      <4>2. a = 1
        BY <3>2, <3>4, <4>1 DEF ConfigOk
      <4>3. tk'[k] = [tk[k] EXCEPT !.avail = 1]
        BY <1>0, <3>4, <4>2
      <4>. QED BY <4>1, <4>3 DEF KeySame, TransitType
    <3>. QED BY <3>3, <3>4 DEF KeySame
  <2>. QED BY <2>1, <2>2
<1>4. ASSUME NEW c \in Clients, EnrollCreate(c) PROVE KeySame(k) \/ KeyMade(k)
  <2>1. job[c].op = "enroll" /\ job[c].k = k /\ Enrolls(c, {"create"})
    BY <1>0, <1>4, NixKeySole DEF EnrollCreate, At, Enrolls
  <2>2. ~HasTk(k)
    BY <1>0, <2>1 DEF KeyKnown
  <2>3. tk'[k] = TransitKey(serial + 1)
    BY <1>0, <1>4, <2>1, <2>2 DEF EnrollCreate, Created
  <2>. QED BY <1>4, <2>1, <2>2, <2>3 DEF KeyMade
<1>5. ASSUME NEW c \in Clients, ImportNext(c) PROVE FALSE
  BY <1>0, <1>5 DEF JobsTyped, JobData, ImportNext, At
<1>6. ASSUME NEW c \in Clients, NEW j \in Keys, RotatePost(c, j) PROVE KeySame(k)
  <2>1. j # k
    BY <1>0, <1>6 DEF RotatePost, Rotatable
  <2>. QED BY <1>0, <1>6, <2>1 DEF RotatePost, KeySame
<1>7. tk' = tk \/ TransitStep
  BY CustodyFrame DEF Framed
<1>. QED BY <1>0, <1>1, <1>2, <1>3, <1>4, <1>5, <1>6, <1>7 DEF TransitStep, KeySame

(* A key that exists stays as it is, and a key that is made exists. *)
LEMMA KeyKept ==
  ASSUME CustodyTypeOK, [CustodyNext]_custodyVars, Unmeddled', NEW k \in Active, NixRoute(k), KeyKnown(k)
  PROVE /\ HasTk(k) => tk'[k] = tk[k] /\ HasTk(k)'
        /\ KeyMade(k) => HasTk(k)'
        /\ Fresh(k)'
<1>1. serial + 1 \in Nat
  BY DEF CustodyTypeOK, StoresTyped
<1>2. TransitKey(serial + 1).mat # << >>
  <2>1. TransitKey(serial + 1).mat = <<serial + 1>>
    BY <1>1, NewTransitTyped
  <2>2. <<serial + 1>> # << >>
    OBVIOUS
  <2>. QED BY <2>1, <2>2
<1>3. CASE KeySame(k)
  BY <1>2, <1>3 DEF KeySame, HasTk, KeyMade, Fresh, KeyKnown
<1>4. CASE KeyMade(k)
  BY <1>1, <1>2, <1>4 DEF HasTk, KeyMade, Fresh
<1>. QED BY <1>3, <1>4, NixKeyStep

(* How an enrollment comes to a place. *)
LEMMA EnrollPlaces ==
  ASSUME CustodyTypeOK, [CustodyNext]_custodyVars, NEW d \in Jobs, job'[d].op = "enroll",
         NEW k \in Active, NixRoute(k)
  PROVE /\ job'[d].at = "create" =>
             SameJob(d) \/ (EnrollRead(d) /\ ~HasTk(k) /\ tk' = tk /\ answers' = answers)
        /\ job'[d].at = "reread" =>
             SameJob(d) \/ (EnrollCreate(d) /\ Enrolls(d, {"create"}) /\ answers' = answers)
        /\ job'[d].at = "judge" =>
             \/ SameJob(d)
             \/ /\ HasTk(k) /\ tk' = tk /\ answers' = answers /\ job'[d].post = tk[k]
                /\ job'[d].n = 0 \/ (job'[d].n = 1 /\ Creates(d))
<1>0. /\ JobsTyped /\ DOMAIN job = Jobs /\ JobShape(job[d])
  BY JobsKnown DEF CustodyTypeOK
<1>1. SameJob(d) \/ EnrollMove(d)
  BY CustodyMoves DEF Moves, MovesTo
<1>2. ASSUME NEW j \in Keys, NixStart(d, j, "enroll") PROVE job'[d].at = "first"
  BY <1>0, <1>2, SetIs DEF NixStart, IdleJob
<1>3. ASSUME EnrollRead(d)
      PROVE \/ job'[d].at = "create" /\ ~HasTk(k) /\ tk' = tk /\ answers' = answers
            \/ job'[d].at = "judge" /\ HasTk(k) /\ tk' = tk /\ answers' = answers
               /\ job'[d].post = tk[k] /\ job'[d].n = 0
  <2>1. job[d].k = k
    BY <1>3, NixKeySole DEF EnrollRead, At
  <2>2. CASE HasTk(k)
    <3>1. job'[d] = [job[d] EXCEPT !.at = "judge", !.n = 0, !.post = tk[k]] /\ tk' = tk /\ answers' = answers
      BY <1>0, <1>3, <2>1, <2>2, SetIs DEF EnrollRead
    <3>2. job'[d].at = "judge" /\ job'[d].n = 0 /\ job'[d].post = tk[k]
      BY <1>0, <3>1 DEF JobShape, JobFields
    <3>. QED BY <2>2, <3>1, <3>2
  <2>3. CASE ~HasTk(k)
    <3>1. job'[d] = [job[d] EXCEPT !.at = "create"] \/ job'[d] = IdleJob
      BY <1>0, <1>3, <2>1, <2>3, SetIs DEF EnrollRead
    <3>2. job'[d].at = "create"
      BY <1>0, <3>1, IdleShape DEF JobShape, JobFields
    <3>3. tk' = tk /\ answers' = answers
      BY <1>3 DEF EnrollRead
    <3>. QED BY <2>3, <3>2, <3>3
  <2>. QED BY <2>2, <2>3
<1>4. ASSUME EnrollCreate(d) PROVE job'[d].at = "reread" /\ Enrolls(d, {"create"}) /\ answers' = answers
  <2>1. job'[d] = [job[d] EXCEPT !.at = "reread"]
    BY <1>0, <1>4, SetIs DEF EnrollCreate
  <2>. QED BY <1>0, <1>4, <2>1 DEF JobShape, JobFields, EnrollCreate, At, Enrolls
<1>5. ASSUME EnrollReread(d)
      PROVE job'[d].at = "judge" /\ HasTk(k) /\ tk' = tk /\ answers' = answers
            /\ job'[d].post = tk[k] /\ job'[d].n = 1 /\ Creates(d)
  <2>1. job[d].k = k
    BY <1>5, NixKeySole DEF EnrollReread, At
  <2>2. job'[d] = [job[d] EXCEPT !.at = "judge", !.n = 1, !.post = tk[k]]
    BY <1>0, <1>5, <2>1, SetIs DEF EnrollReread
  <2>3. job'[d].at = "judge" /\ job'[d].n = 1 /\ job'[d].post = tk[k]
    BY <1>0, <2>2 DEF JobShape, JobFields
  <2>. QED BY <1>5, <2>1, <2>3 DEF EnrollReread, At, Creates, Enrolls
<1>. QED BY <1>1, <1>2, <1>3, <1>4, <1>5 DEF EnrollMove

LEMMA SamePlace ==
  ASSUME NEW d \in Jobs, SameJob(d)
  PROVE /\ Creates(d)' = Creates(d)
        /\ \A s : Enrolls(d, s)' = Enrolls(d, s)
        /\ job'[d].post = job[d].post
  BY DEF SameJob, Creates, Enrolls

(* What answers and enrollments know of the key stays true. *)
LEMMA KnownStays ==
  ASSUME CustodyTypeOK, EnrollsAlone, [CustodyNext]_custodyVars, Unmeddled',
         NEW k \in Active, NixRoute(k), KeyKnown(k)
  PROVE KeyKnown(k)'
<1>0. /\ StoresTyped /\ JobsTyped /\ Clients \subseteq Jobs /\ Unmeddled
  BY BootIsAJob, UnmeddledBefore DEF CustodyTypeOK
<1>1. /\ HasTk(k) => tk'[k] = tk[k] /\ HasTk(k)'
      /\ KeyMade(k) => HasTk(k)'
      /\ Fresh(k)'
  BY KeyKept
<1>2. ASSUME NEW a \in answers' PROVE HasTk(k)' /\ a.pub = tk'[k].mat[1]
  <2>1. CASE a \in answers
    BY <1>1, <2>1 DEF KeyKnown
  <2>2. ASSUME NEW c \in Clients, Enrolled(c), a = EnrollReply(c) PROVE HasTk(k) /\ a.pub = tk[k].mat[1]
    <3>1. Enrolls(c, {"judge"})
      BY <2>2 DEF Enrolled, EnrollJudge, At, Enrolls
    <3>2. job[c].post = tk[k] /\ HasTk(k)
      BY <1>0, <3>1 DEF KeyKnown
    <3>. QED BY <2>2, <3>2 DEF EnrollReply
  <2>3. ASSUME NEW c \in Clients, Signed(c), a = SignatureReply(c) PROVE HasTk(k) /\ a.pub = tk[k].mat[1]
    <3>1. job[c].k = k
      BY <1>0, <2>3, NixKeySole DEF Signed
    <3>2. HasTk(k) /\ job[c].id.pin = tk[k].mat[1]
      BY <2>3, <3>1 DEF Signed, PostureFits, NixPinOk, Posture
    <3>. QED BY <2>3, <3>2 DEF SignatureReply
  <2>4. answers' = answers \/ \E c \in Clients : Enrolled(c) \/ Signed(c)
    BY <1>0, NixAnswers DEF Unmeddled
  <2>5. a \in answers \/ \E c \in Clients : (Enrolled(c) /\ a = EnrollReply(c)) \/ (Signed(c) /\ a = SignatureReply(c))
    BY <1>2, <2>4 DEF Enrolled, Signed
  <2>. QED BY <1>1, <2>1, <2>2, <2>3, <2>5
<1>3. ASSUME NEW d \in Jobs, job'[d].op = "enroll", job'[d].at = "create" PROVE ~HasTk(k)'
  <2>1. CASE SameJob(d)
    <3>1. Enrolls(d, {"create"}) /\ lock = d /\ ~HasTk(k)
      BY <1>3, <2>1 DEF SameJob, Enrolls, EnrollsAlone, KeyKnown
    <3>2. ASSUME KeyMade(k) PROVE FALSE
      <4>1. PICK c \in Clients : EnrollCreate(c) /\ Enrolls(c, {"create"})
        BY <3>2 DEF KeyMade
      <4>2. c = d
        BY <1>0, <3>1, <4>1 DEF EnrollsAlone, Enrolls
      <4>3. job'[d] = [job[d] EXCEPT !.at = "reread"]
        BY <1>0, <4>1, <4>2, SetIs DEF EnrollCreate
      <4>4. job'[d].at = "reread"
        BY <1>0, <4>3, JobsKnown DEF JobShape, JobFields
      <4>. QED BY <1>3, <4>4
    <3>. QED BY <3>1, <3>2, NixKeyStep DEF KeySame, HasTk
  <2>2. CASE ~HasTk(k) /\ tk' = tk
    BY <2>2 DEF HasTk
  <2>. QED BY <1>3, <2>1, <2>2, EnrollPlaces
<1>4. ASSUME NEW d \in Jobs, Creates(d)' PROVE HasTk(k)'
  <2>1. CASE SameJob(d)
    BY <1>1, <1>4, <2>1, SamePlace DEF KeyKnown
  <2>2. CASE HasTk(k)
    BY <1>1, <2>2
  <2>3. ASSUME EnrollCreate(d), Enrolls(d, {"create"}) PROVE HasTk(k)'
    <3>1. ~HasTk(k) /\ job[d].k = k
      BY <2>3, NixKeySole DEF KeyKnown, Enrolls
    <3>2. tk'[k] = TransitKey(serial + 1)
      BY <1>0, <2>3, <3>1, ActiveKeys DEF EnrollCreate, Created, StoresTyped
    <3>3. TransitKey(serial + 1).mat = <<serial + 1>> /\ <<serial + 1>> # << >>
      <4>1. serial + 1 \in Nat
        BY <1>0 DEF StoresTyped
      <4>. QED BY <4>1, NewTransitTyped
    <3>. QED BY <3>2, <3>3 DEF HasTk
  <2>4. job'[d].op = "enroll" /\ job'[d].at \in {"reread", "judge"}
    BY <1>4 DEF Creates, Enrolls
  <2>. QED BY <2>1, <2>2, <2>3, <2>4, EnrollPlaces
<1>5. ASSUME NEW d \in Jobs, job'[d].op = "enroll", job'[d].at = "judge"
      PROVE job'[d].post = tk'[k] /\ HasTk(k)'
  <2>1. CASE SameJob(d)
    <3>1. Enrolls(d, {"judge"}) /\ job'[d].post = job[d].post
      BY <1>5, <2>1 DEF SameJob, Enrolls
    <3>. QED BY <1>1, <3>1 DEF KeyKnown
  <2>2. CASE HasTk(k) /\ tk' = tk /\ job'[d].post = tk[k]
    BY <1>1, <2>2
  <2>. QED BY <1>5, <2>1, <2>2, EnrollPlaces
<1>. QED BY <1>1, <1>2, <1>3, <1>4, <1>5 DEF KeyKnown, Enrolls

(* One answer reports the key as created: its enrollment holds the mutex   *)
(* from the read that finds no key to its answer, and no answer was given  *)
(* while there was no key.                                                 *)
LEMMA NewOnceStays ==
  ASSUME CustodyTypeOK, EnrollsAlone, [CustodyNext]_custodyVars, Unmeddled', KeysKnown, NewOnce
  PROVE NewOnce'
<1>0. /\ StoresTyped /\ JobsTyped /\ Clients \subseteq Jobs /\ Unmeddled /\ Active' = Active
  BY BootIsAJob, UnmeddledBefore DEF CustodyTypeOK
<1>1. \/ answers' = answers
      \/ \E c \in Clients : Enrolled(c) /\ answers' = answers \cup {EnrollReply(c)}
      \/ \E c \in Clients : Signed(c) /\ answers' = answers \cup {SignatureReply(c)}
  BY <1>0, NixAnswers DEF Unmeddled, Enrolled, Signed
<1>2. ASSUME NEW c \in Clients, Enrolled(c)
      PROVE /\ Enrolls(c, {"judge"}) /\ (EnrollReply(c).new => Creates(c)) /\ job'[c] = IdleJob
            /\ job[c].k \in Active /\ NixRoute(job[c].k)
  <2>1. Enrolls(c, {"judge"}) /\ job'[c] = IdleJob
    BY <1>0, <1>2, SetIs DEF Enrolled, EnrollJudge, At, Enrolls
  <2>. QED BY <1>0, <2>1, NixJobs DEF EnrollReply, Creates, Enrolls
<1>3. ASSUME NEW c \in Clients, Signed(c)
      PROVE ~SignatureReply(c).new /\ job[c].k \in Active /\ NixRoute(job[c].k)
  BY <1>0, <1>3, NixJobs DEF SignatureReply, Signed
<1>4. \A a, b \in answers' : a.new /\ b.new => a = b
  <2>1. CASE answers' = answers
    BY <2>1 DEF NewOnce
  <2>2. ASSUME NEW c \in Clients, Enrolled(c), answers' = answers \cup {EnrollReply(c)}
        PROVE \A a, b \in answers' : a.new /\ b.new => a = b
    <3>1. EnrollReply(c).new => \A a \in answers : ~a.new
      BY <1>0, <1>2, <2>2 DEF NewOnce
    <3>. QED BY <2>2, <3>1 DEF NewOnce
  <2>3. ASSUME NEW c \in Clients, Signed(c), answers' = answers \cup {SignatureReply(c)}
        PROVE \A a, b \in answers' : a.new /\ b.new => a = b
    BY <1>3, <2>3 DEF NewOnce
  <2>. QED BY <1>1, <2>1, <2>2, <2>3
<1>5. ASSUME NEW d \in Jobs, Creates(d)' \/ Enrolls(d, {"create"})', NEW a \in answers' PROVE ~a.new
  <2>0. job'[d].op = "enroll" /\ job'[d].at \in {"create", "reread", "judge"}
    BY <1>5 DEF Creates, Enrolls
  <2>1. CASE (Creates(d) \/ Enrolls(d, {"create"})) /\ answers' = answers
    BY <1>5, <2>1 DEF NewOnce
  <2>2. CASE SameJob(d)
    <3>1. Creates(d) \/ Enrolls(d, {"create"})
      BY <1>5, <2>2, SamePlace
    <3>2. lock = d
      BY <3>1 DEF EnrollsAlone, Creates, Enrolls
    <3>3. ASSUME NEW c \in Clients, Enrolled(c) PROVE FALSE
      <4>1. lock = c /\ job'[c].op = "idle"
        BY <1>0, <1>2, <3>3, IdleShape DEF EnrollsAlone, Enrolls
      <4>. QED BY <2>0, <3>2, <4>1
    <3>. QED BY <1>1, <1>3, <1>5, <3>1, <3>3 DEF NewOnce
  <2>3. ASSUME ~SameJob(d) PROVE answers = {} \/ Creates(d) \/ Enrolls(d, {"create"})
    <3>1. CASE answers # {}
      <4>1. PICK k \in Active : NixRoute(k) /\ KeyKnown(k)
        BY <3>1 DEF NewOnce, KeysKnown
      <4>2. HasTk(k)
        BY <3>1, <4>1 DEF KeyKnown
      <4>. QED BY <1>5, <2>0, <2>3, <4>1, <4>2, EnrollPlaces DEF Creates, Enrolls
    <3>. QED BY <3>1
  <2>4. ASSUME ~SameJob(d) PROVE answers' = answers
    <3>1. EnrollMove(d)
      BY <2>0, <2>4, CustodyMoves DEF Moves, MovesTo
    <3>. QED BY <3>1 DEF EnrollMove, NixStart, EnrollRead, EnrollCreate, EnrollReread
  <2>. QED BY <1>5, <2>1, <2>2, <2>3, <2>4
<1>6. answers' # {} => \E k \in Active' : NixRoute(k)
  BY <1>0, <1>1, <1>2, <1>3 DEF NewOnce
<1>. QED BY <1>4, <1>5, <1>6 DEF NewOnce

(* The creation part holds initially, is kept, and implies the property. *)
LEMMA CreationInvInit == CustodyInit => CreationInv
<1>. SUFFICES ASSUME CustodyInit PROVE CreationInv
  OBVIOUS
<1>0. StoresTyped
  BY InitialTypes DEF CustodyTypeOK
<1>1. \A c \in Jobs : job[c].op # "enroll"
  BY InitialJobs
<1>2. ASSUME NEW k \in Keys PROVE Fresh(k)
  BY <1>2 DEF CustodyInit, InitialTk, Fresh
<1>3. answers = {}
  BY DEF CustodyInit
<1>4. \A k \in Active : KeyKnown(k)
  BY <1>0, <1>1, <1>2, <1>3, ActiveKeys DEF KeyKnown, Creates, Enrolls
<1>. QED BY <1>1, <1>3, <1>4 DEF CreationInv, EnrollsAlone, Enrolls, KeysKnown, NewOnce, Creates

LEMMA CreationInvStays ==
  CustodyTypeOK /\ CreationInv /\ [CustodyNext]_custodyVars => CreationInv'
<1>. SUFFICES ASSUME CustodyTypeOK, CreationInv, [CustodyNext]_custodyVars PROVE CreationInv'
  OBVIOUS
<1>1. EnrollsAlone'
  BY AloneStays DEF CreationInv
<1>2. ASSUME Unmeddled' PROVE KeysKnown' /\ NewOnce'
  <2>1. Unmeddled /\ Active' = Active
    BY <1>2, UnmeddledBefore
  <2>2. EnrollsAlone /\ KeysKnown /\ NewOnce
    BY <2>1 DEF CreationInv
  <2>3. \A k \in Active : NixRoute(k) => KeyKnown(k)'
    BY <1>2, <2>2, KnownStays DEF KeysKnown
  <2>. QED BY <1>2, <2>1, <2>2, <2>3, NewOnceStays DEF KeysKnown
<1>. QED BY <1>1, <1>2 DEF CreationInv

LEMMA CreationFollows ==
  CustodyTypeOK /\ CreationInv => OneCreation
<1>. SUFFICES ASSUME CustodyTypeOK, CreationInv, Unmeddled
              PROVE /\ Cardinality({a \in answers : a.new}) <= 1
                    /\ \A a, b \in answers : a.pub = b.pub
  BY DEF OneCreation, Unmeddled
<1>0. KeysKnown /\ NewOnce
  BY DEF CreationInv
<1>1. \A a, b \in answers : a.pub = b.pub
  BY <1>0 DEF KeysKnown, NewOnce, KeyKnown
<1>2. Cardinality({a \in answers : a.new}) <= 1
  <2>1. CASE {a \in answers : a.new} = {}
    BY <2>1, FS_EmptySet
  <2>2. ASSUME NEW b \in answers, b.new PROVE Cardinality({a \in answers : a.new}) <= 1
    <3>1. {a \in answers : a.new} = {b}
      BY <1>0, <2>2 DEF NewOnce
    <3>2. Cardinality({b}) = 1
      BY FS_Singleton
    <3>. QED BY <3>1, <3>2
  <2>. QED BY <2>1, <2>2
<1>. QED BY <1>1, <1>2

(* A broker that serves has every key that its catalog requires or lets it *)
(* generate, however often it died while it was generating them            *)
(* (reconcile.rs), and of enrollments that race one at most reports the    *)
(* key as created and all report the same public key                       *)
(* (enroll_nix_cache_key).                                                 *)
THEOREM CreatedOnceHolds == CustodySpec => []CreatedOnce
<1>1. CustodyTypeOK /\ BootInv /\ CreationInv /\ [CustodyNext]_custodyVars => BootInv' /\ CreationInv'
  BY BootInvStays, CreationInvStays
<1>2. CustodyTypeOK /\ BootInv /\ CreationInv => CreatedOnce
  BY CreationFollows DEF CreatedOnce, BootInv
<1>. QED BY <1>1, <1>2, BootInvInit, CreationInvInit, CustodyTypes, PTL DEF CustodySpec
=============================================================================

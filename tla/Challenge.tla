----------------------------- MODULE Challenge -----------------------------
(***************************************************************************)
(* The single-use challenge table of the sealed-invocation service: the    *)
(* bounded table of outstanding challenges, its expiry queue, and the      *)
(* global, per-proof-key and per-source token buckets that meter issuance. *)
(* Callers hold the table's mutex, so every operation is one step; the     *)
(* interleaving is that of the requests, of the wall clock, which may be   *)
(* set back, and of restarts, which replace the table and its instance ID. *)
(*                                                                         *)
(* A challenge is its instance ID and its suffix.  Suffixes come from the  *)
(* system CSPRNG and do not repeat: they are the numbers of the issues.    *)
(***************************************************************************)
EXTENDS Integers, Sequences, FiniteSets

CONSTANTS
  Jkts,               \* proof-key thumbprints
  Sources,            \* accepted-listener source partitions
  Gens,               \* serving generations a request may be pinned to
  GlobalCapacity, PerJktCapacity,
  Ttl,                \* lifetime of a challenge, in seconds
  GlobalRate, JktRate, SourceRate,   \* [burst, refill] of the token buckets
  TrackedPartitions,  \* bound on each map of buckets
  CleanupLimit,       \* EXPIRY_CLEANUP_LIMIT
  ClockMayStepBack,   \* whether the wall clock may be set back
  MaxTime, MaxIssues, MaxInstances   \* bounds of the model

Rate == [burst : Nat, refill : Nat]

ASSUME ChallengeAssumption ==
  /\ GlobalCapacity \in Nat \ {0} /\ PerJktCapacity \in Nat \ {0}
  /\ Ttl \in Nat \ {0} /\ TrackedPartitions \in Nat \ {0}
  /\ CleanupLimit \in Nat \ {0}
  /\ GlobalRate \in Rate /\ JktRate \in Rate /\ SourceRate \in Rate
  /\ ClockMayStepBack \in BOOLEAN
  /\ MaxTime \in Nat /\ MaxIssues \in Nat /\ MaxInstances \in Nat

VARIABLES
  now,          \* the wall clock
  instance,     \* instance_id of the running agent
  records,      \* suffix -> the outstanding record
  outstanding,  \* outstanding_per_jkt, 0 for an absent entry
  globalBucket, jktBuckets, sourceBuckets,
  queue,        \* expiry_queue
  \* History:
  latest,       \* the latest time the clock ever showed
  stepped,      \* the clock has been set back
  issued,       \* every challenge handed out
  presented,    \* suffixes the holder of the proof key has presented
  accepts,      \* suffix -> how many times it was accepted
  jktUse,       \* what each key's bucket would be if it were never evicted
  jktIssues     \* per key: issues, and the time of the first

tableVars == <<records, outstanding, queue>>
bucketVars == <<globalBucket, jktBuckets, sourceBuckets>>
historyVars == <<latest, stepped, issued, presented, accepts, jktUse, jktIssues>>
vars == <<now, instance, tableVars, bucketVars, historyVars>>

Bucket == [tokens : Nat, last : Nat]
Record == [jkt : Jkts, gen : Gens, expires : Nat]
Suffix == 0 .. MaxIssues - 1
Token == [inst : Nat, suffix : Suffix, jkt : Jkts, gen : Gens, expires : Nat]
NoIssue == [count |-> 0, first |-> 0]

-----------------------------------------------------------------------------
(* Token buckets. *)

NewBucket(rate, t) == [tokens |-> rate.burst, last |-> t]

Least(a, b) == IF a <= b THEN a ELSE b

(* A clock that moved backwards re-anchors the bucket without refilling. *)
Refill(b, rate, t) ==
  [tokens |-> IF t <= b.last THEN b.tokens
              ELSE Least(b.tokens + (t - b.last) * rate.refill, rate.burst),
   last |-> t]

(* Faulty form of IsIdle: a bucket with a token is idle. *)
IsIdle_AnyToken(b, rate, t) == Refill(b, rate, t).tokens > 0

CanTake(b, rate, t) == Refill(b, rate, t).tokens > 0
Take(b, rate, t) == [Refill(b, rate, t) EXCEPT !.tokens = @ - 1]
IsIdle(b, rate, t) == Refill(b, rate, t).tokens >= rate.burst

(* plan_partition_token and commit: the maps of buckets that may follow    *)
(* from debiting key p, empty when the debit is declined.  A full map      *)
(* gives up one idle bucket, whichever the iteration meets first.          *)
Debits(buckets, p, rate, t) ==
  LET fresh == NewBucket(rate, t)
      full == Cardinality(DOMAIN buckets) >= TrackedPartitions
      Insert(keys) == [q \in keys \cup {p} |->
                         IF q = p THEN Take(fresh, rate, t) ELSE buckets[q]]
      idle == {q \in DOMAIN buckets : IsIdle(buckets[q], rate, t)}
  IN  IF p \in DOMAIN buckets
        THEN IF CanTake(buckets[p], rate, t)
               THEN {[buckets EXCEPT ![p] = Take(buckets[p], rate, t)]} ELSE {}
        ELSE IF ~CanTake(fresh, rate, t) THEN {}
        ELSE IF full THEN {Insert(DOMAIN buckets \ {q}) : q \in idle}
        ELSE {Insert(DOMAIN buckets)}

-----------------------------------------------------------------------------
(* The table. *)

Outstanding(recs) == [j \in Jkts |-> Cardinality({s \in DOMAIN recs : recs[s].jkt = j})]

(* Faulty form of CountWithout: the count is not decremented. *)
CountWithout_Stale(gone) == outstanding

(* remove_record decrements the count kept beside the records. *)
CountWithout(gone) ==
  [j \in Jkts |->
     LET n == Cardinality({s \in gone : records[s].jkt = j})
     IN  IF outstanding[j] >= n THEN outstanding[j] - n ELSE 0]
Without(gone) == [s \in DOMAIN records \ gone |-> records[s]]

(* purge_expired examines at most CleanupLimit entries of the queue: it    *)
(* drops those that are stale, removes the expired records, and moves the  *)
(* others to the back.                                                     *)
Examined == Least(Len(queue), CleanupLimit)
Matches(e) == e.suffix \in DOMAIN records /\ records[e.suffix].expires = e.expires
IsLive(e) == Matches(e) /\ now <= e.expires
Purged == {queue[i].suffix : i \in {k \in 1 .. Examined : Matches(queue[k]) /\ now > queue[k].expires}}
(* The examined entries that stay, by their places in the queue; they keep *)
(* their order.                                                            *)
Staying == {k \in 1 .. Examined : IsLive(queue[k])}
Place(k) == Cardinality({m \in Staying : m <= k})
Moved == [n \in 1 .. Cardinality(Staying) |-> queue[CHOOSE k \in Staying : Place(k) = n]]
QueueAfterPurge == SubSeq(queue, Examined + 1, Len(queue)) \o Moved

-----------------------------------------------------------------------------
(* Operations. *)

(* The checks of issue, after the purge. *)
HasCapacity(j) ==
  /\ Cardinality(DOMAIN Without(Purged)) < GlobalCapacity
  /\ CountWithout(Purged)[j] < PerJktCapacity

Issue(j, src, g) ==
  /\ Cardinality(issued) < MaxIssues
  /\ HasCapacity(j)
  /\ CanTake(globalBucket, GlobalRate, now)
  /\ sourceBuckets' \in Debits(sourceBuckets, src, SourceRate, now)
  /\ jktBuckets' \in Debits(jktBuckets, j, JktRate, now)
  /\ globalBucket' = Take(globalBucket, GlobalRate, now)
  /\ LET s == Cardinality(issued)
         rec == [jkt |-> j, gen |-> g, expires |-> now + Ttl]
         kept == Without(Purged)
     IN  /\ records' = [x \in DOMAIN kept \cup {s} |-> IF x = s THEN rec ELSE kept[x]]
         /\ queue' = Append(QueueAfterPurge, [suffix |-> s, expires |-> now + Ttl])
         /\ outstanding' = [CountWithout(Purged) EXCEPT ![j] = @ + 1]
         /\ issued' = issued \cup {[inst |-> instance, suffix |-> s, jkt |-> j,
                                    gen |-> g, expires |-> now + Ttl]}
  /\ jktUse' = [jktUse EXCEPT ![j] = Take(@, JktRate, now)]
  /\ jktIssues' = [jktIssues EXCEPT ![j] =
       [count |-> @.count + 1, first |-> IF @.count = 0 THEN now ELSE @.first]]
  /\ UNCHANGED <<now, instance, latest, stepped, presented, accepts>>

(* A declined issue, for capacity, rate, entropy or memory, keeps the      *)
(* purge and debits nothing.                                               *)
Decline ==
  /\ records' = Without(Purged)
  /\ queue' = QueueAfterPurge
  /\ outstanding' = CountWithout(Purged)
  /\ UNCHANGED <<now, instance, bucketVars, historyVars>>

(* Faulty form of Remove: the record is validated and kept. *)
Remove_Keeps(s) == UNCHANGED tableVars

Remove(s) ==
  /\ records' = Without({s})
  /\ outstanding' = CountWithout({s})
  /\ UNCHANGED queue

(* Faulty form of Outcome: the generation is compared before the key, so   *)
(* another key's request drops the record.                                 *)
Outcome_GenFirst(ch, j, g) ==
  IF ch.inst # instance THEN "foreign"
  ELSE IF ch.suffix \notin DOMAIN records THEN "unknown"
  ELSE IF now > records[ch.suffix].expires THEN "expired"
  ELSE IF records[ch.suffix].gen # g THEN "generation_mismatch"
  ELSE IF records[ch.suffix].jkt # j THEN "jkt_mismatch"
  ELSE "ok"

(* consume: the challenge ch presented by the holder of proof key j on a   *)
(* request pinned to generation g.  An expired record or one of another    *)
(* generation is dropped; another key's is left for its holder.            *)
Outcome(ch, j, g) ==
  IF ch.inst # instance THEN "foreign"
  ELSE IF ch.suffix \notin DOMAIN records THEN "unknown"
  ELSE IF now > records[ch.suffix].expires THEN "expired"
  ELSE IF records[ch.suffix].jkt # j THEN "jkt_mismatch"
  ELSE IF records[ch.suffix].gen # g THEN "generation_mismatch"
  ELSE "ok"

Consume(ch, j, g) ==
  /\ IF Outcome(ch, j, g) \in {"expired", "generation_mismatch", "ok"}
       THEN Remove(ch.suffix) ELSE UNCHANGED tableVars
  /\ accepts' = [accepts EXCEPT ![ch.suffix] =
                   IF Outcome(ch, j, g) = "ok" THEN @ + 1 ELSE @]
  /\ presented' = IF j = ch.jkt THEN presented \cup {ch.suffix} ELSE presented
  /\ UNCHANGED <<now, instance, bucketVars, latest, stepped, issued, jktUse, jktIssues>>

Tick ==
  \E t \in 0 .. MaxTime :
    /\ t # now
    /\ ClockMayStepBack \/ t > now
    /\ now' = t
    /\ latest' = IF t > latest THEN t ELSE latest
    /\ stepped' = (stepped \/ t < now)
    /\ UNCHANGED <<instance, tableVars, bucketVars, issued, presented, accepts,
                   jktUse, jktIssues>>

(* with_config: the table of a new process. *)
EmptyTable(recs, count, q, global, byJkt, bySource, use, issues) ==
  /\ recs = << >>
  /\ count = [j \in Jkts |-> 0]
  /\ q = << >>
  /\ global = NewBucket(GlobalRate, 0)
  /\ byJkt = << >>
  /\ bySource = << >>
  /\ use = [j \in Jkts |-> NewBucket(JktRate, 0)]
  /\ issues = [j \in Jkts |-> NoIssue]

(* A restart builds an empty table under a new instance ID. *)
Restart ==
  /\ instance < MaxInstances
  /\ instance' = instance + 1
  /\ EmptyTable(records', outstanding', queue', globalBucket', jktBuckets', sourceBuckets',
                jktUse', jktIssues')
  /\ UNCHANGED <<now, latest, stepped, issued, presented, accepts>>

Init ==
  /\ now = 0 /\ latest = 0 /\ stepped = FALSE
  /\ instance = 0
  /\ EmptyTable(records, outstanding, queue, globalBucket, jktBuckets, sourceBuckets,
                jktUse, jktIssues)
  /\ issued = {} /\ presented = {}
  /\ accepts = [s \in Suffix |-> 0]

Next ==
  \/ \E j \in Jkts, src \in Sources, g \in Gens : Issue(j, src, g)
  \/ Decline
  \/ \E ch \in issued, j \in Jkts, g \in Gens : Consume(ch, j, g)
  \/ Tick
  \/ Restart

Spec == Init /\ [][Next]_vars

-----------------------------------------------------------------------------
(* Properties. *)

TypeOK ==
  /\ now \in Nat /\ latest \in Nat /\ stepped \in BOOLEAN /\ instance \in Nat
  /\ DOMAIN records \subseteq Suffix /\ \A s \in DOMAIN records : records[s] \in Record
  /\ outstanding \in [Jkts -> Nat]
  /\ globalBucket \in Bucket
  /\ DOMAIN jktBuckets \subseteq Jkts /\ \A j \in DOMAIN jktBuckets : jktBuckets[j] \in Bucket
  /\ DOMAIN sourceBuckets \subseteq Sources
  /\ \A p \in DOMAIN sourceBuckets : sourceBuckets[p] \in Bucket
  /\ queue \in Seq([suffix : Suffix, expires : Nat])
  /\ issued \subseteq Token /\ presented \subseteq Suffix
  /\ accepts \in [Suffix -> Nat]

(* A challenge is accepted at most once, over replays, concurrent          *)
(* duplicates, clock changes and restarts.                                 *)
SingleUse == \A s \in Suffix : accepts[s] <= 1

(* The per-key counts that limit issuance are the counts of the table.     *)
CountsExact == outstanding = Outstanding(records)

(* Both limits on outstanding challenges hold.                             *)
WithinCapacity ==
  /\ Cardinality(DOMAIN records) <= GlobalCapacity
  /\ \A j \in Jkts : Outstanding(records)[j] <= PerJktCapacity

(* Every record is in the expiry queue, so none outlives its expiry for    *)
(* want of an entry that would purge it.                                   *)
QueueCoversRecords ==
  \A s \in DOMAIN records :
    \E i \in 1 .. Len(queue) : queue[i] = [suffix |-> s, expires |-> records[s].expires]

(* The table, the counts beside it and the expiry queue agree after any    *)
(* sequence of issues, purges and consumptions (remove_record,             *)
(* purge_expired).                                                         *)
TableConsistent == TypeOK /\ CountsExact /\ WithinCapacity /\ QueueCoversRecords

(* Only its holder can use up a challenge: one that has not expired and    *)
(* that the holder of its key has not presented is still in the table.     *)
HolderNotRobbed ==
  \A ch \in issued :
    ch.inst = instance /\ latest <= ch.expires /\ ch.suffix \notin presented =>
      /\ ch.suffix \in DOMAIN records
      /\ records[ch.suffix] = [jkt |-> ch.jkt, gen |-> ch.gen, expires |-> ch.expires]

(* A challenge is taken once, by its holder: no replay, clock change or    *)
(* restart lets it be used again, and nobody else can use it up (consume). *)
TakenByHolderOnce == SingleUse /\ HolderNotRobbed

(* The table as an abstract store of single-use challenges: what is live,  *)
(* and what has been used.                                                 *)
Store == INSTANCE ChallengeStore WITH
  live <- records, used <- {s \in Suffix : accepts[s] > 0}

(* The bounded table implements the abstract one: whatever it purges,      *)
(* declines and meters, a challenge is taken once, and only as Verdict     *)
(* allows; a lapsed record is the only kind that goes untaken (issue,      *)
(* consume).                                                               *)
ImplementsStore == Store!StoreSpec

(* Evicting an idle bucket loses no rate-limit state: an absent bucket is  *)
(* one that an unbounded map would hold full.                              *)
Available(j) ==
  IF j \in DOMAIN jktBuckets THEN Refill(jktBuckets[j], JktRate, now).tokens ELSE JktRate.burst
EvictionLossless ==
  \A j \in Jkts : Available(j) = Refill(jktUse[j], JktRate, now).tokens

(* No key is issued more challenges than its burst and the refill of the   *)
(* time the clock has ever covered: time that passes twice refills once.   *)
NoDoubleMint ==
  \A j \in Jkts : jktIssues[j].count > 0 =>
    jktIssues[j].count <= JktRate.burst + JktRate.refill * (latest - jktIssues[j].first)

(* While the clock only moves forward the bounded maps of buckets meter    *)
(* exactly as unbounded ones would.  A clock set back and forward again    *)
(* refutes it: the bucket is re-anchored at the earlier time.              *)
RateExact == ~stepped => EvictionLossless /\ NoDoubleMint
=============================================================================

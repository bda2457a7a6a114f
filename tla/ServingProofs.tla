--------------------------- MODULE ServingProofs ---------------------------
(***************************************************************************)
(* Proofs about Serving, for any generations a reload may bring in, any    *)
(* streams, channel capacity and number of events, and about Revocation,   *)
(* for any number of tokens, callers and restarts and any clock bound.     *)
(***************************************************************************)
EXTENDS Serving, Revocation, FiniteSetTheorems, SequenceTheorems, NaturalsInduction, WellFoundedInduction, TLAPS

-----------------------------------------------------------------------------
(* What the running broker answers. *)

(* Lists whose elements need no type. *)
Listed(q) == \E S : q \in Seq(S)

LEMMA Lists ==
  ASSUME NEW q, Listed(q)
  PROVE  Len(q) \in Nat /\ DOMAIN q = 1..Len(q)
  BY DEF Listed

LEMMA ListJoined ==
  ASSUME NEW q, Listed(q), NEW r, Listed(r)
  PROVE  /\ Listed(q \o r) /\ Len(q \o r) = Len(q) + Len(r)
         /\ \A i \in 1..Len(q) : (q \o r)[i] = q[i]
         /\ \A i \in 1..Len(r) : (q \o r)[Len(q) + i] = r[i]
<1>1. PICK S : q \in Seq(S)
  BY DEF Listed
<1>2. PICK T : r \in Seq(T)
  BY DEF Listed
<1>3. q \in Seq(S \cup T) /\ r \in Seq(S \cup T)
  BY <1>1, <1>2
<1>4. /\ q \o r \in Seq(S \cup T) /\ Len(q \o r) = Len(q) + Len(r)
      /\ \A i \in 1..(Len(q) + Len(r)) : (q \o r)[i] = IF i <= Len(q) THEN q[i] ELSE r[i - Len(q)]
  BY <1>3, ConcatProperties
<1>5. Len(q) \in Nat /\ Len(r) \in Nat
  BY Lists
<1>6. Listed(q \o r)
  BY <1>4 DEF Listed
<1>7. ASSUME NEW i \in 1..Len(r) PROVE (q \o r)[Len(q) + i] = r[i]
  <2>1. Len(q) + i \in 1..(Len(q) + Len(r)) /\ ~(Len(q) + i <= Len(q)) /\ Len(q) + i - Len(q) = i
    BY <1>5
  <2>2. QED BY <1>4, <2>1
<1>8. ASSUME NEW i \in 1..Len(q) PROVE (q \o r)[i] = q[i]
  <2>1. i \in 1..(Len(q) + Len(r)) /\ i <= Len(q)
    BY <1>5
  <2>2. QED BY <1>4, <2>1
<1>9. QED BY <1>4, <1>6, <1>7, <1>8

LEMMA ListAppended ==
  ASSUME NEW q, Listed(q), NEW e
  PROVE  /\ Listed(Append(q, e)) /\ Len(Append(q, e)) = Len(q) + 1
         /\ \A i \in 1..Len(q) : Append(q, e)[i] = q[i]
         /\ Append(q, e)[Len(q) + 1] = e
<1>1. PICK S : q \in Seq(S)
  BY DEF Listed
<1>2. q \in Seq(S \cup {e}) /\ e \in S \cup {e}
  BY <1>1
<1>3. Append(q, e) \in Seq(S \cup {e}) /\ Len(Append(q, e)) = Len(q) + 1
      /\ (\A i \in 1..Len(q) : Append(q, e)[i] = q[i]) /\ Append(q, e)[Len(q) + 1] = e
  BY <1>2, AppendProperties
<1>4. QED BY <1>3 DEF Listed

LEMMA ListMade ==
  ASSUME NEW n \in Nat, NEW q, q = [i \in 1..n |-> q[i]]
  PROVE  Listed(q) /\ Len(q) = n
<1> DEFINE S == {q[i] : i \in 1..n}
<1>1. q \in [1..n -> S]
  OBVIOUS
<1> HIDE DEF S
<1>2. q \in Seq(S)
  BY <1>1, SeqDef
<1>3. Len(q) = n
  BY <1>1, <1>2, LenProperties
<1>4. QED BY <1>2, <1>3 DEF Listed

(* Every element of a finite set is in the list made of it. *)
LEMMA ListOfSet ==
  ASSUME NEW S, IsFiniteSet(S)
  PROVE  /\ Listed(Ext!SetToSeq(S)) /\ DOMAIN Ext!SetToSeq(S) = 1..Len(Ext!SetToSeq(S))
         /\ \A x \in S : \E i \in 1..Len(Ext!SetToSeq(S)) : Ext!SetToSeq(S)[i] = x
<1> DEFINE n == Cardinality(S)
           f == Ext!SetToSeq(S)
<1>1. n \in Nat /\ ExistsBijection(1..n, S)
  BY FS_CardinalityType
<1>2. PICK b : b \in Bijection(1..n, S)
  BY <1>1 DEF ExistsBijection
<1>3. b \in [1..n -> S] /\ Ext!IsInjective(b)
  BY <1>2 DEF Bijection, Injection, IsInjective, Ext!IsInjective
<1>4. f \in [1..n -> S] /\ Ext!IsInjective(f)
  <2>1. f = CHOOSE g \in [1..n -> S] : Ext!IsInjective(g)
    BY Zenon DEF Ext!SetToSeq, Ext!Cardinality, Cardinality
  <2> HIDE DEF f, n
  <2>2. QED BY <1>3, <2>1
<1> HIDE DEF f
<1>5. f \in Injection(1..n, S)
  BY <1>4 DEF Injection, IsInjective, Ext!IsInjective
<1>6. Cardinality(1..n) = n
  BY <1>1, FS_Interval
<1>7. f \in Surjection(1..n, S)
  BY <1>5, <1>6, FS_Injection
<1>8. f = [i \in 1..n |-> f[i]]
  BY <1>4
<1>9. Listed(f) /\ Len(f) = n
  BY <1>1, <1>8, ListMade
<1>10. QED BY <1>4, <1>7, <1>9 DEF f, Surjection

(* A bounded set of numbers has a greatest. *)
LEMMA Greatest ==
  ASSUME NEW n \in Nat, NEW T, T \subseteq 0..n, T # {}
  PROVE  \E m \in T : \A l \in T : l <= m
<1> DEFINE U == {n - k : k \in T}
<1>1. \A k \in T : k \in Nat /\ n - k \in Nat
  OBVIOUS
<1>2. U \subseteq Nat /\ U # {}
  BY <1>1
<1> HIDE DEF U
<1>3. PICK m \in U : \A l \in U : ~(<<l, m>> \in OpToRel(<, Nat))
  BY <1>2, NatLessThanWellFounded, WFMin
<1>4. PICK k \in T : m = n - k
  BY DEF U
<1>5. \A l \in T : l <= k
  <2> TAKE l \in T
  <2>1. n - l \in U /\ n - l \in Nat /\ m \in Nat
    BY <1>1, <1>2 DEF U
  <2>2. ~(n - l < m)
    BY <1>3, <2>1 DEF OpToRel
  <2>3. QED BY <1>1, <1>4, <2>1, <2>2
<1>6. QED BY <1>5

-----------------------------------------------------------------------------
(* What a reload tells bundle streams. *)

BundleKinds == {"x509b", "jwtb"}

(* Either the publishers of a bundle are the same after a reload, or the   *)
(* trust domain of each is announced.                                      *)
LEMMA ReloadNews ==
  ASSUME NEW g \in DOMAIN Generations, NEW h \in DOMAIN Generations, NEW kind \in BundleKinds
  PROVE  \/ /\ Issuers(g, kind) = Issuers(h, kind)
            /\ \A k \in Issuers(h, kind) : TrustDomain(Entry(g, k)) = TrustDomain(Entry(h, k))
         \/ \A k \in Issuers(h, kind) :
              TrustDomain(Entry(h, k)) \in BundleChangedTrustDomains(Catalogue(g), Catalogue(h))
<1> DEFINE D == DOMAIN Catalogue(g).keys
           a == SpiffeBundlePublishers(Catalogue(g))
           b == SpiffeBundlePublishers(Catalogue(h))
<1>1. /\ D = DOMAIN Catalogue(h).keys
      /\ \A k \in D : Entry(g, k).class = Entry(h, k).class /\ Entry(g, k).type = Entry(h, k).type
  BY ServingAssumption DEF Catalogue, Entry
<1>2. ASSUME NEW x \in {g, h}
      PROVE  /\ DOMAIN SpiffeBundlePublishers(Catalogue(x)) =
                  {k \in D : Label(Entry(x, k), "svid_kind") \in {"jwt", "x509"} /\ TrustDomain(Entry(x, k)) # NoValue}
             /\ \A k \in DOMAIN SpiffeBundlePublishers(Catalogue(x)) :
                  SpiffeBundlePublishers(Catalogue(x))[k] = <<Label(Entry(x, k), "svid_kind"), TrustDomain(Entry(x, k))>>
             /\ Issuers(x, kind) = {k \in D : IsIssuer(kind, Entry(x, k))}
  BY <1>1, <1>2 DEF SpiffeBundlePublishers, Entry, Issuers
<1>3. \A e : IsIssuer(kind, e) <=>
        /\ e.class = "asym" /\ TrustDomain(e) # NoValue
        /\ Label(e, "svid_kind") = (IF kind = "jwtb" THEN "jwt" ELSE "x509")
        /\ kind = "jwtb" => e.type \in SvidProfile
  BY DEF IsIssuer, IsJwtSvidIssuer, IsX509SvidIssuer, BundleKinds
<1>4. ASSUME NEW x \in {g, h}, NEW k \in Issuers(x, kind)
      PROVE  /\ k \in D /\ k \in DOMAIN SpiffeBundlePublishers(Catalogue(x)) /\ IsIssuer(kind, Entry(x, k))
             /\ SpiffeBundlePublishers(Catalogue(x))[k] = <<Label(Entry(x, k), "svid_kind"), TrustDomain(Entry(x, k))>>
  BY <1>2, <1>3, <1>4
<1>5. CASE a = b
  <2>1. ASSUME NEW x \in {g, h}, NEW y \in {g, h}, NEW k \in Issuers(x, kind)
        PROVE  k \in Issuers(y, kind) /\ TrustDomain(Entry(x, k)) = TrustDomain(Entry(y, k))
    <3>1. /\ k \in D /\ IsIssuer(kind, Entry(x, k)) /\ k \in DOMAIN SpiffeBundlePublishers(Catalogue(y))
          /\ SpiffeBundlePublishers(Catalogue(y))[k] = <<Label(Entry(x, k), "svid_kind"), TrustDomain(Entry(x, k))>>
      BY <1>4, <1>5, <2>1
    <3>2. /\ Label(Entry(x, k), "svid_kind") = Label(Entry(y, k), "svid_kind")
          /\ TrustDomain(Entry(x, k)) = TrustDomain(Entry(y, k))
      BY <1>2, <3>1
    <3>3. IsIssuer(kind, Entry(y, k))
      BY <1>1, <1>3, <3>1, <3>2
    <3>4. QED BY <1>2, <3>1, <3>2, <3>3
  <2>2. QED BY <2>1
<1>6. CASE a # b
  <2>1. BundleChangedTrustDomains(Catalogue(g), Catalogue(h)) = {a[k][2] : k \in DOMAIN a} \cup {b[k][2] : k \in DOMAIN b}
    BY <1>6 DEF BundleChangedTrustDomains
  <2>2. QED BY <1>4, <2>1
<1>7. QED BY <1>5, <1>6

LEMMA NewsFinite ==
  ASSUME NEW g \in DOMAIN Generations, NEW h \in DOMAIN Generations
  PROVE  IsFiniteSet(BundleChangedTrustDomains(Catalogue(g), Catalogue(h)))
<1>1. ASSUME NEW x \in {g, h}
      PROVE  IsFiniteSet({SpiffeBundlePublishers(Catalogue(x))[k][2] : k \in DOMAIN SpiffeBundlePublishers(Catalogue(x))})
  <2> DEFINE a == SpiffeBundlePublishers(Catalogue(x))
             f == [k \in DOMAIN a |-> a[k][2]]
             T == {a[k][2] : k \in DOMAIN a}
  <2>1. IsFiniteSet(DOMAIN Catalogue(x).keys)
    BY <1>1, ServingAssumption DEF Catalogue
  <2>2. DOMAIN a \in SUBSET DOMAIN Catalogue(x).keys
    BY DEF SpiffeBundlePublishers
  <2>3. IsFiniteSet(DOMAIN a)
    BY <2>1, <2>2, FS_Subset
  <2> HIDE DEF a
  <2>4. f \in Surjection(DOMAIN a, T)
    BY DEF Surjection
  <2>5. IsFiniteSet(T)
    BY <2>3, <2>4, FS_Surjection
  <2>6. QED BY <2>5 DEF a
<1> DEFINE A(x) == {SpiffeBundlePublishers(Catalogue(x))[k][2] : k \in DOMAIN SpiffeBundlePublishers(Catalogue(x))}
<1>2. IsFiniteSet(A(g) \cup A(h)) /\ IsFiniteSet({})
  BY <1>1, FS_Union, FS_EmptySet
<1>3. QED BY <1>2 DEF BundleChangedTrustDomains

-----------------------------------------------------------------------------
(* The audit writer. *)

AuditInv ==
  /\ DOMAIN au = {"q", "flag", "pc", "then", "at", "handle", "files", "asked", "up", "n"}
  /\ au.files \in Nat /\ au.at \in Nat /\ au.flag \in BOOLEAN
  /\ ReopenKept

-----------------------------------------------------------------------------
(* The streams. *)

(* The history is a list of generations as the stream's kind meets them.   *)
HistoryOK ==
  /\ Listed(hist) /\ Gen >= 1 /\ st.kind \in Kinds
  /\ \A g \in 1..Gen : hist[g].name \in DOMAIN Generations /\ hist[g] = View(st.kind, hist[g].name)
(* No event is younger than the serving generation, and none announces a   *)
(* version its key has not reached.                                        *)
LogOK ==
  /\ Listed(log)
  /\ \A k \in DOMAIN vers : vers[k] \in Nat \ {0}
  /\ busy \subseteq DOMAIN vers
  /\ \A i \in 1..Len(log) :
       /\ log[i].gen \in 1..Gen
       /\ log[i].kind = "rotated" =>
            log[i].on \in DOMAIN vers /\ log[i].n \in Nat /\ log[i].n <= vers[log[i].on]
PlanOK ==
  /\ DOMAIN st = {"kind", "at", "plan", "from", "pos", "got", "out", "told"}
  /\ st.pos \in 0..Len(log) /\ st.from \in 0..st.pos
  /\ st.at \notin {"new", "ended"} =>
       st.plan.gen \in 1..Gen /\ st.plan.keys = hist[st.plan.gen].plan /\ st.plan.keys # {}

(* What a watcher took but for the event in its hands. *)
Hidden(e) == \E g \in e.gen..Gen : ~EventAllowed(g, e)
WatchOK ==
  st.kind = "watch" =>
    /\ st.at \in {"new", "subscribe", "wait", "deliver", "ended"}
    /\ st.at = "deliver" => st.from < st.pos
    /\ st.at \in {"wait", "deliver"} =>
         \A i \in (st.from + 1)..st.pos :
           i \in st.told \/ Hidden(log[i]) \/ (st.at = "deliver" /\ i = st.pos)

(* A version was read after every announcement of its key that was taken.  *)
Newest(got) ==
  \A k \in DOMAIN got :
    /\ got[k] \in Nat \ {0}
    /\ \A i \in 1..st.pos : log[i].kind = "rotated" /\ log[i].on = k => log[i].n <= got[k]
Served == Issuers(hist[Gen].name, st.kind)
(* A bundle stream that waits either sent what serves now, or has news of  *)
(* every publisher ahead of it.                                            *)
UpToDate ==
  /\ st.out.plan.gen \in 1..Gen /\ DOMAIN st.out.got = st.out.plan.keys /\ Newest(st.out.got)
  /\ Publishers(st.out.plan.gen, st.out.plan.keys) = Publishers(Gen, Served)
Pending ==
  \A k \in Served : \E i \in (st.pos + 1)..Len(log) : log[i].kind = "bundle" /\ log[i].on = hist[Gen].domain[k]
BundleOK ==
  st.kind \in BundleKinds =>
    /\ st.at \in {"new", "subscribe", "issue", "answer", "error", "wait", "ended"}
    /\ st.at \in {"subscribe", "wait"} => st.got = << >>
    /\ st.at = "wait" => Pending \/ UpToDate
    /\ st.at \in {"issue", "answer"} => DOMAIN st.got \subseteq st.plan.keys /\ Newest(st.got)
    /\ st.at = "answer" => st.plan.keys \subseteq DOMAIN st.got

SubscriberInv == HistoryOK /\ LogOK /\ PlanOK /\ WatchOK /\ BundleOK

LEMMA AuditStep == AuditInv /\ [AuditNext]_au => AuditInv'
<1> SUFFICES ASSUME AuditInv, [AuditNext]_au PROVE AuditInv'
  OBVIOUS
<1> USE DEF AuditInv, ReopenKept
<1>1. ASSUME NEW then, au.pc \notin {"open", "ended"}, MaybeReopen(then) PROVE AuditInv'
  BY <1>1 DEF MaybeReopen
<1>2. CASE OpenAppend
  BY <1>2 DEF OpenAppend
<1>3. CASE OpenFails
  BY <1>3 DEF OpenFails, Rearm
<1>4. CASE WriterLoop \/ WriterLine
  BY <1>1, <1>4 DEF WriterLoop, WriterLine
<1>5. CASE AuditAppend \/ LogMoved \/ RequestReopen
  <2>1. CASE AuditAppend
    BY <2>1 DEF AuditAppend
  <2>2. CASE LogMoved
    BY <2>2 DEF LogMoved
  <2>3. CASE RequestReopen
    BY <2>3 DEF RequestReopen
  <2>4. QED BY <1>5, <2>1, <2>2, <2>3
<1>6. CASE WriterReceives \/ WriterTimeout \/ WriteLine
  BY <1>6 DEF WriterReceives, WriterTimeout, WriteLine
<1>7. CASE AuditStop \/ WriterEnds \/ UNCHANGED au
  BY <1>7 DEF AuditStop, WriterEnds
<1>8. QED BY <1>2, <1>3, <1>4, <1>5, <1>6, <1>7 DEF AuditNext

(* Nothing but the audit actions touches the writer. *)
LEMMA AuditAlone == [ServingNext]_servingVars => [AuditNext]_au
<1> SUFFICES ASSUME [ServingNext]_servingVars PROVE AuditNext \/ au' = au
  OBVIOUS
<1>1. CASE ReloadBegin \/ ReloadCommit \/ ReloadFail
  BY <1>1, ZenonT(40) DEF ReloadBegin, ReloadCommit, ReloadFail
<1>2. CASE StreamNext
  BY <1>2 DEF StreamNext, Rotate, Announce, RotateDropped, Revoked, FetchX509Svid, FetchX509Bundles,
     FetchJwtBundles, StreamSecrets, FetchSecrets, FetchJwtSvid, Watch, Open, Subscribe, IssueSvid,
     IssueBundles, IssueSecrets, Issue, IssueFails, Answer, UnaryAnswer, Receive, Lagged, Refresh, Request,
     WatchReceive, WatchDeliver, Steady
<1>3. CASE ReadyNext
  BY <1>3 DEF ReadyNext, ReadinessCached, ReadinessCheck, ReadinessClassify, CacheReadiness, CacheExpires, Still
<1>4. CASE AuditNext \/ UNCHANGED servingVars
  BY <1>4 DEF servingVars
<1>5. ASSUME NEW x, Resolve(x) \/ LoadFiles(x) PROVE au' = au
  BY <1>5 DEF Resolve, LoadFiles
<1>6. QED BY <1>1, <1>2, <1>3, <1>4, <1>5 DEF ServingNext

(* The audit writer never loses a reopen that was asked for after the log  *)
(* file was moved, whatever it was doing then (audit.rs maybe_reopen).     *)
THEOREM ReopenKeptHolds == ServingSpec => []ReopenKept
<1>1. ServingInit => AuditInv
  BY DEF ServingInit, AuditInv, ReopenKept
<1>2. AuditInv /\ [ServingNext]_servingVars => AuditInv'
  BY AuditStep, AuditAlone
<1>3. AuditInv => ReopenKept
  BY DEF AuditInv
<1>4. QED BY <1>1, <1>2, <1>3, PTL DEF ServingSpec

-----------------------------------------------------------------------------
(* Steps that leave the stream alone. *)

LEMMA Generational ==
  ASSUME HistoryOK
  PROVE  Gen \in Nat \ {0} /\ Listed(hist) /\ Gen \in 1..Gen
  BY Lists DEF HistoryOK, Gen

(* Only a reload changes the history, by one more generation. *)
Reloaded(next) == next \in DOMAIN Generations /\ hist' = Append(hist, Views[st.kind][next])

LEMMA HistoryGrows ==
  ASSUME HistoryOK, NEW next, Reloaded(next), st'.kind = st.kind
  PROVE  /\ HistoryOK' /\ Gen' = Gen + 1 /\ hist'[Gen'] = View(st.kind, next) /\ hist'[Gen'].name = next
         /\ \A g \in 1..Gen : hist'[g] = hist[g]
<1>1. Gen \in Nat \ {0} /\ Listed(hist) /\ st.kind \in Kinds
  BY Generational DEF HistoryOK
<1>2. Views[st.kind][next] = View(st.kind, next)
  BY <1>1 DEF Reloaded, Views
<1>3. /\ Listed(hist') /\ Len(hist') = Len(hist) + 1 /\ hist'[Len(hist) + 1] = View(st.kind, next)
      /\ \A g \in 1..Len(hist) : hist'[g] = hist[g]
  BY <1>1, <1>2, ListAppended DEF Reloaded
<1>4. View(st.kind, next).name = next
  BY DEF View
<1>5. Gen' = Gen + 1 /\ hist'[Gen'] = View(st.kind, next) /\ hist'[Gen'].name = next
  BY <1>3, <1>4 DEF Gen
<1>6. HistoryOK'
  <2>1. ASSUME NEW g \in 1..(Gen + 1)
        PROVE  hist'[g].name \in DOMAIN Generations /\ hist'[g] = View(st.kind, hist'[g].name)
    <3>1. CASE g = Gen + 1
      BY <1>5, <3>1 DEF Reloaded
    <3>2. CASE g # Gen + 1
      <4>1. g \in 1..Gen
        BY <1>1, <3>2
      <4>2. QED BY <1>3, <4>1 DEF HistoryOK, Gen
    <3>3. QED BY <3>1, <3>2
  <2>2. Listed(hist') /\ Gen' >= 1 /\ st'.kind \in Kinds
    BY <1>1, <1>3, <1>5
  <2>3. QED BY <1>5, <2>1, <2>2 DEF HistoryOK
<1>7. QED BY <1>3, <1>5, <1>6 DEF Gen

(* The log grows, and everything already in it stays. *)
Grows(events) == Listed(events) /\ log' = log \o events
LEMMA LogGrows ==
  ASSUME LogOK, NEW events, Grows(events)
  PROVE  /\ Listed(log') /\ Len(log) \in Nat /\ Len(events) \in Nat /\ Len(log') = Len(log) + Len(events)
         /\ \A i \in 1..Len(log) : log'[i] = log[i]
         /\ \A i \in 1..Len(events) : log'[Len(log) + i] = events[i]
  BY ListJoined, Lists DEF LogOK, Grows

(* A watcher's and a bundle stream's standing outlive growth of the log    *)
(* and of the versions, while the generation stays.                        *)
LEMMA NewsKept ==
  ASSUME SubscriberInv, LogOK', NEW events, Grows(events), UNCHANGED <<hist, st>>
  PROVE  SubscriberInv'
<1>1. /\ Listed(log') /\ Len(log) \in Nat /\ Len(events) \in Nat /\ Len(log') = Len(log) + Len(events)
      /\ \A i \in 1..Len(log) : log'[i] = log[i]
  BY LogGrows DEF SubscriberInv
<1>2. Gen' = Gen /\ Served' = Served
  BY DEF Gen, Served
<1>3. HistoryOK'
  BY <1>2 DEF SubscriberInv, HistoryOK
<1>4. PlanOK'
  BY <1>1, <1>2 DEF SubscriberInv, PlanOK
<1>5. st.pos \in Nat /\ st.from \in Nat /\ st.pos <= Len(log) /\ \A i \in 1..st.pos : log'[i] = log[i]
  BY <1>1 DEF SubscriberInv, PlanOK
<1>6. WatchOK'
  <2>1. ASSUME NEW i \in (st.from + 1)..st.pos PROVE Hidden(log[i])' <=> Hidden(log[i])
    <3>1. log'[i] = log[i]
      BY <1>5
    <3>2. QED BY <1>2, <3>1 DEF Hidden, EventAllowed, EventKindSelected
  <2>2. QED BY <2>1 DEF SubscriberInv, WatchOK
<1>7. BundleOK'
  <2>1. ASSUME NEW got, Newest(got) PROVE Newest(got)'
    BY <1>5, <2>1 DEF Newest
  <2>2. Pending => Pending'
    <3> SUFFICES ASSUME Pending, NEW k \in Served
                 PROVE  \E i \in (st.pos + 1)..Len(log') : log'[i].kind = "bundle" /\ log'[i].on = hist[Gen].domain[k]
      BY <1>2 DEF Pending
    <3>1. PICK i \in (st.pos + 1)..Len(log) : log[i].kind = "bundle" /\ log[i].on = hist[Gen].domain[k]
      BY DEF Pending
    <3>2. i \in 1..Len(log) /\ i \in (st.pos + 1)..Len(log')
      BY <1>1, <1>5
    <3>3. QED BY <1>1, <3>1, <3>2
  <2>3. UpToDate => UpToDate'
    BY <1>2, <2>1 DEF UpToDate, Publishers
  <2>4. QED BY <2>1, <2>2, <2>3 DEF SubscriberInv, BundleOK
<1>8. QED BY <1>3, <1>4, <1>6, <1>7 DEF SubscriberInv

(* One event more, on a rotation or a revocation. *)
LEMMA EventPublished ==
  ASSUME SubscriberInv, NEW e, log' = log \o <<e>>, e.gen = Gen, UNCHANGED <<hist, st, vers>>, busy' \subseteq busy,
         e.kind = "rotated" => e.on \in DOMAIN vers /\ e.n = vers[e.on]
  PROVE  SubscriberInv'
<1>1. Listed(<<e>>) /\ Len(<<e>>) = 1 /\ <<e>>[1] = e
  <2>1. <<e>> \in Seq({e})
    OBVIOUS
  <2>2. QED BY <2>1 DEF Listed
<1>2. Grows(<<e>>)
  BY <1>1 DEF Grows
<1>3. /\ Listed(log') /\ Len(log) \in Nat /\ Len(log') = Len(log) + 1 /\ log'[Len(log) + 1] = e
      /\ \A i \in 1..Len(log) : log'[i] = log[i]
  <2>1. /\ Listed(log') /\ Len(log) \in Nat /\ Len(log') = Len(log) + Len(<<e>>)
        /\ \A i \in 1..Len(log) : log'[i] = log[i]
        /\ \A i \in 1..Len(<<e>>) : log'[Len(log) + i] = <<e>>[i]
    BY <1>2, LogGrows DEF SubscriberInv
  <2>2. QED BY <1>1, <2>1
<1>4. Gen' = Gen /\ Gen \in 1..Gen
  BY Generational DEF Gen, SubscriberInv
<1>5. LogOK'
  <2>1. ASSUME NEW i \in 1..Len(log')
        PROVE  /\ log'[i].gen \in 1..Gen
               /\ log'[i].kind = "rotated" =>
                    log'[i].on \in DOMAIN vers /\ log'[i].n \in Nat /\ log'[i].n <= vers[log'[i].on]
    <3>1. CASE i = Len(log) + 1
      <4>1. log'[i] = e
        BY <1>3, <3>1
      <4>2. e.kind = "rotated" => e.n \in Nat /\ e.n <= vers[e.on]
        BY DEF SubscriberInv, LogOK
      <4>3. QED BY <1>4, <4>1, <4>2
    <3>2. CASE i # Len(log) + 1
      <4>1. i \in 1..Len(log)
        BY <1>3, <3>2
      <4>2. QED BY <1>3, <4>1 DEF SubscriberInv, LogOK
    <3>3. QED BY <3>1, <3>2
  <2>2. QED BY <1>3, <1>4, <2>1 DEF SubscriberInv, LogOK
<1>6. QED BY <1>2, <1>5, NewsKept

(* A version more, or a rotation that ends without its event. *)
LEMMA VersionsGrow ==
  ASSUME SubscriberInv, UNCHANGED <<hist, st, log>>, DOMAIN vers' = DOMAIN vers, busy' \subseteq DOMAIN vers,
         \A k \in DOMAIN vers : vers'[k] \in Nat /\ vers[k] <= vers'[k]
  PROVE  SubscriberInv'
<1>1. Listed(<< >>) /\ log \o << >> = log
  <2>1. << >> \in Seq({})
    OBVIOUS
  <2>2. PICK S : log \in Seq(S)
    BY DEF SubscriberInv, LogOK, Listed
  <2>3. QED BY <2>1, <2>2, ConcatEmptySeq DEF Listed
<1>2. Grows(<< >>)
  BY <1>1 DEF Grows
<1>3. Gen' = Gen
  BY DEF Gen
<1>4. \A k \in DOMAIN vers : vers'[k] \in Nat \ {0}
  BY DEF SubscriberInv, LogOK
<1>5. \A i \in 1..Len(log) : log[i].kind = "rotated" =>
        log[i].on \in DOMAIN vers /\ log[i].n \in Nat /\ log[i].n <= vers'[log[i].on]
  BY DEF SubscriberInv, LogOK
<1>6. LogOK'
  BY <1>3, <1>4, <1>5 DEF SubscriberInv, LogOK
<1>7. QED BY <1>2, <1>6, NewsKept

LEMMA BrokerSteps ==
  ASSUME SubscriberInv, NEW k \in DOMAIN vers,
         Rotate(k) \/ Announce(k) \/ RotateDropped(k) \/ Revoked(hist[1].domain[k])
  PROVE  SubscriberInv'
<1>1. CASE Rotate(k)
  <2>1. /\ vers' = [vers EXCEPT ![k] = vers[k] + 1] /\ busy' = busy \cup {k} /\ UNCHANGED <<hist, st, log>>
    BY <1>1 DEF Rotate
  <2>2. \A j \in DOMAIN vers : vers[j] \in Nat
    BY DEF SubscriberInv, LogOK
  <2>3. \A j \in DOMAIN vers : vers'[j] \in Nat /\ vers[j] <= vers'[j]
    BY <2>1, <2>2
  <2>4. DOMAIN vers' = DOMAIN vers /\ busy' \subseteq DOMAIN vers
    BY <2>1 DEF SubscriberInv, LogOK
  <2>5. QED BY <2>1, <2>3, <2>4, VersionsGrow
<1>2. CASE Announce(k)
  <2> DEFINE e == Event("rotated", k, vers[k])
  <2>1. log' = log \o <<e>> /\ UNCHANGED <<hist, st, vers>> /\ busy' \subseteq busy
    BY <1>2 DEF Announce, Publish
  <2>2. e.gen = Gen /\ e.on = k /\ e.n = vers[k]
    BY DEF Event
  <2> HIDE DEF e
  <2>3. QED BY <2>1, <2>2, EventPublished
<1>3. CASE RotateDropped(k)
  <2>1. UNCHANGED <<hist, st, log, vers>> /\ busy' \subseteq busy
    BY <1>3 DEF RotateDropped
  <2>2. busy' \subseteq DOMAIN vers /\ \A j \in DOMAIN vers : vers'[j] \in Nat /\ vers[j] <= vers'[j]
    BY <2>1 DEF SubscriberInv, LogOK
  <2>3. QED BY <2>1, <2>2, VersionsGrow
<1>4. CASE Revoked(hist[1].domain[k])
  <2> DEFINE e == Event("revoked", hist[1].domain[k], 0)
  <2>1. log' = log \o <<e>> /\ UNCHANGED <<hist, st, vers>> /\ busy' \subseteq busy
    BY <1>4 DEF Revoked, Publish
  <2>2. e.gen = Gen /\ e.kind # "rotated"
    BY DEF Event
  <2> HIDE DEF e
  <2>3. QED BY <2>1, <2>2, EventPublished
<1>5. QED BY <1>1, <1>2, <1>3, <1>4

(* What the swap publishes: one event for each trust domain of the news.   *)
News(next) == Changed[hist[Gen].name][next]
SwapEvents(next) == [i \in DOMAIN News(next) |-> [Event("bundle", News(next)[i], 0) EXCEPT !.gen = Gen + 1]]

LEMMA SwapTells ==
  ASSUME HistoryOK, NEW next \in DOMAIN Generations
  PROVE  LET events == SwapEvents(next)
             news == BundleChangedTrustDomains(Catalogue(hist[Gen].name), Catalogue(next))
         IN /\ Listed(events)
            /\ \A i \in 1..Len(events) : events[i].kind = "bundle" /\ events[i].gen = Gen + 1
            /\ \A d \in news : \E i \in 1..Len(events) : events[i].on = d
<1> DEFINE g == hist[Gen].name
           news == BundleChangedTrustDomains(Catalogue(g), Catalogue(next))
           q == Ext!SetToSeq(news)
           n == Len(q)
           events == SwapEvents(next)
<1>1. g \in DOMAIN Generations
  BY Generational DEF HistoryOK
<1>2. News(next) = q
  BY <1>1 DEF News, Changed
<1>3. Listed(q) /\ DOMAIN q = 1..n /\ \A d \in news : \E i \in 1..n : q[i] = d
  <2>1. IsFiniteSet(news)
    BY <1>1, NewsFinite
  <2> HIDE DEF news
  <2>2. QED BY <2>1, ListOfSet
<1>4. n \in Nat
  BY <1>3, Lists
<1> HIDE DEF q, n
<1>5. events = [i \in 1..n |-> [Event("bundle", q[i], 0) EXCEPT !.gen = Gen + 1]]
  BY <1>2, <1>3 DEF SwapEvents
<1>6. \A i \in 1..n : events[i].kind = "bundle" /\ events[i].gen = Gen + 1 /\ events[i].on = q[i]
  BY <1>5 DEF Event
<1>7. events = [i \in 1..n |-> events[i]]
  BY <1>5
<1> HIDE DEF events
<1>8. Listed(events) /\ Len(events) = n
  BY <1>4, <1>7, ListMade
<1>9. \A d \in news : \E i \in 1..n : events[i].on = d
  BY <1>3, <1>6
<1>10. QED BY <1>6, <1>8, <1>9 DEF events

(* After a swap a waiting bundle stream has news of every publisher ahead  *)
(* of it, unless the publishers are what they were.                        *)
LEMMA ReloadStep == SubscriberInv /\ ReloadCommit => SubscriberInv'
<1> SUFFICES ASSUME SubscriberInv, ReloadCommit PROVE SubscriberInv'
  BY ZenonT(40)
<1>1. PICK next \in DOMAIN Generations :
        hist' = Append(hist, Views[st.kind][next]) /\ log' = log \o SwapEvents(next)
  BY DEF ReloadCommit, Publish, SwapEvents, News
<1>2. UNCHANGED <<st, vers, busy>>
  BY DEF ReloadCommit
<1>3. /\ HistoryOK' /\ Gen' = Gen + 1 /\ hist'[Gen'] = View(st.kind, next) /\ hist'[Gen'].name = next
      /\ \A g \in 1..Gen : hist'[g] = hist[g]
  BY <1>1, <1>2, HistoryGrows DEF SubscriberInv, Reloaded
<1>4. Gen \in Nat \ {0} /\ Gen \in 1..Gen
  BY Generational DEF SubscriberInv
<1> DEFINE events == SwapEvents(next)
           g == hist[Gen].name
           news == BundleChangedTrustDomains(Catalogue(g), Catalogue(next))
<1>5. /\ Listed(events) /\ \A i \in 1..Len(events) : events[i].kind = "bundle" /\ events[i].gen = Gen + 1
      /\ \A d \in news : \E i \in 1..Len(events) : events[i].on = d
  BY SwapTells DEF SubscriberInv
<1>6. Grows(events)
  BY <1>1, <1>5 DEF Grows
<1> HIDE DEF events
<1>7. /\ Listed(log') /\ Len(log) \in Nat /\ Len(events) \in Nat /\ Len(log') = Len(log) + Len(events)
      /\ \A i \in 1..Len(log) : log'[i] = log[i]
      /\ \A i \in 1..Len(events) : log'[Len(log) + i] = events[i]
  BY <1>6, LogGrows DEF SubscriberInv
<1>8. LogOK'
  <2>1. ASSUME NEW i \in 1..Len(log')
        PROVE  /\ log'[i].gen \in 1..Gen'
               /\ log'[i].kind = "rotated" =>
                    log'[i].on \in DOMAIN vers /\ log'[i].n \in Nat /\ log'[i].n <= vers[log'[i].on]
    <3>1. CASE i \in 1..Len(log)
      <4>1. log'[i] = log[i]
        BY <1>7, <3>1
      <4>2. QED BY <1>3, <1>4, <3>1, <4>1 DEF SubscriberInv, LogOK
    <3>2. CASE i \notin 1..Len(log)
      <4>1. i - Len(log) \in 1..Len(events) /\ i = Len(log) + (i - Len(log))
        BY <1>7, <3>2
      <4>2. log'[i] = events[i - Len(log)]
        BY <1>7, <4>1
      <4>3. QED BY <1>3, <1>4, <1>5, <4>1, <4>2
    <3>3. QED BY <3>1, <3>2
  <2>2. QED BY <1>2, <1>7, <2>1 DEF SubscriberInv, LogOK
<1>9. PlanOK'
  BY <1>2, <1>3, <1>4, <1>7 DEF SubscriberInv, PlanOK
<1>10. st.pos \in Nat /\ st.from \in Nat /\ st.pos <= Len(log) /\ \A i \in 1..st.pos : log'[i] = log[i]
  BY <1>7 DEF SubscriberInv, PlanOK
<1>11. WatchOK'
  <2>1. ASSUME NEW i \in (st.from + 1)..st.pos, Hidden(log[i]) PROVE Hidden(log[i])'
    <3>1. log'[i] = log[i] /\ log[i].gen \in Nat /\ log[i].gen >= 1
      BY <1>10 DEF SubscriberInv, LogOK
    <3>2. PICK x \in log[i].gen..Gen : ~EventAllowed(x, log[i])
      BY <2>1 DEF Hidden
    <3>3. x \in 1..Gen /\ x \in log[i].gen..Gen'
      BY <1>3, <1>4, <3>1
    <3>4. ~EventAllowed(x, log[i])'
      BY <1>3, <3>1, <3>2, <3>3 DEF EventAllowed, EventKindSelected
    <3>5. QED BY <3>1, <3>3, <3>4 DEF Hidden
  <2>2. QED BY <1>2, <2>1 DEF SubscriberInv, WatchOK
<1>12. BundleOK'
  <2> SUFFICES ASSUME st.kind \in BundleKinds PROVE BundleOK'
    BY <1>2 DEF BundleOK
  <2>1. ASSUME NEW got, Newest(got) PROVE Newest(got)'
    BY <1>2, <1>10, <2>1 DEF Newest
  <2>2. /\ g \in DOMAIN Generations /\ Served = Issuers(g, st.kind) /\ Served' = Issuers(next, st.kind)
        /\ hist[Gen] = View(st.kind, g)
    BY <1>2, <1>3, <1>4 DEF SubscriberInv, HistoryOK, Served
  <2>3. /\ \A k \in Issuers(g, st.kind) : hist[Gen].domain[k] = TrustDomain(Entry(g, k))
        /\ \A k \in Issuers(next, st.kind) : hist'[Gen'].domain[k] = TrustDomain(Entry(next, k))
    BY <1>3, <2>2 DEF View, Issuers
  <2>4. ASSUME st.at = "wait", Pending \/ UpToDate PROVE Pending' \/ UpToDate'
    <3>1. CASE /\ Issuers(g, st.kind) = Issuers(next, st.kind)
               /\ \A k \in Issuers(next, st.kind) : TrustDomain(Entry(g, k)) = TrustDomain(Entry(next, k))
      <4>1. Served' = Served /\ \A k \in Served : hist'[Gen'].domain[k] = hist[Gen].domain[k]
        BY <2>2, <2>3, <3>1
      <4>2. ASSUME Pending PROVE Pending'
        <5> SUFFICES ASSUME NEW k \in Served
                     PROVE  \E i \in (st.pos + 1)..Len(log') : log'[i].kind = "bundle" /\ log'[i].on = hist[Gen].domain[k]
          BY <1>2, <4>1 DEF Pending
        <5>1. PICK i \in (st.pos + 1)..Len(log) : log[i].kind = "bundle" /\ log[i].on = hist[Gen].domain[k]
          BY <4>2 DEF Pending
        <5>2. i \in 1..Len(log) /\ i \in (st.pos + 1)..Len(log')
          BY <1>7, <1>10
        <5>3. QED BY <1>7, <5>1, <5>2
      <4>3. ASSUME UpToDate PROVE UpToDate'
        <5>1. Newest(st.out.got)'
          BY <1>2, <1>10, <4>3 DEF UpToDate, Newest
        <5>2. Publishers(Gen, Served)' = Publishers(Gen, Served)
          BY <4>1 DEF Publishers
        <5>3. /\ st.out.plan.gen \in 1..Gen /\ st.out.plan.gen \in 1..Gen'
              /\ Publishers(st.out.plan.gen, st.out.plan.keys)' = Publishers(st.out.plan.gen, st.out.plan.keys)
          BY <1>2, <1>3, <1>4, <4>3 DEF UpToDate, Publishers
        <5>4. QED BY <1>2, <4>3, <5>1, <5>2, <5>3 DEF UpToDate
      <4>4. QED BY <2>4, <4>2, <4>3
    <3>2. CASE \A k \in Issuers(next, st.kind) : TrustDomain(Entry(next, k)) \in news
      <4>1. Pending'
        <5> SUFFICES ASSUME NEW k \in Issuers(next, st.kind)
                     PROVE  \E i \in (st.pos + 1)..Len(log') : log'[i].kind = "bundle" /\ log'[i].on = hist'[Gen'].domain[k]
          BY <1>2, <2>2 DEF Pending
        <5>1. PICK i \in 1..Len(events) : events[i].on = TrustDomain(Entry(next, k))
          BY <1>5, <3>2
        <5>2. Len(log) + i \in (st.pos + 1)..Len(log') /\ log'[Len(log) + i] = events[i]
          BY <1>7, <1>10
        <5>3. QED BY <1>5, <2>3, <5>1, <5>2
      <4>2. QED BY <4>1
    <3>3. QED BY <2>2, <3>1, <3>2, ReloadNews
  <2>5. QED BY <1>2, <2>1, <2>4 DEF SubscriberInv, BundleOK
<1>13. QED BY <1>3, <1>8, <1>9, <1>11, <1>12 DEF SubscriberInv

-----------------------------------------------------------------------------
(* Steps of the stream. *)

StreamFields == {"kind", "at", "plan", "from", "pos", "got", "out", "told"}
SamePlace(s, t) ==
  /\ DOMAIN s = StreamFields /\ s.kind = t.kind /\ s.from = t.from /\ s.out = t.out /\ s.told = t.told
Planned(p) == p.gen \in 1..Gen /\ p.keys = hist[p.gen].plan /\ p.keys # {}

LEMMA PlanParts ==
  ASSUME SubscriberInv
  PROVE  /\ DOMAIN st = StreamFields /\ st.pos \in Nat /\ st.from \in Nat /\ st.from <= st.pos
         /\ Len(log) \in Nat /\ st.pos <= Len(log) /\ DOMAIN log = 1..Len(log)
         /\ st.at \notin {"new", "ended"} => Planned(st.plan)
<1>1. Listed(log)
  BY DEF SubscriberInv, LogOK
<1>2. Len(log) \in Nat /\ DOMAIN log = 1..Len(log)
  BY <1>1, Lists
<1>3. QED BY <1>2 DEF SubscriberInv, PlanOK, StreamFields, Planned

(* A plan made anew is the serving generation's, or the stream ends. *)
LEMMA Replans ==
  ASSUME HistoryOK, NEW s, DOMAIN s = StreamFields, NEW at
  PROVE  LET r == Replanned(s, at)
         IN /\ SamePlace(r, s) /\ r.pos = s.pos
            /\ \/ r.at = "ended"
               \/ r.at = at /\ r.got = << >> /\ r.plan.gen = Gen /\ Planned(r.plan)
<1> DEFINE plan == [gen |-> Gen, keys |-> hist[Gen].plan]
<1>1. Gen \in 1..Gen
  BY Generational
<1>2. CASE Refused(plan)
  <2>1. Replanned(s, at) = [s EXCEPT !.at = "ended"]
    BY <1>2 DEF Replanned, LoadGeneration
  <2>2. QED BY <2>1 DEF StreamFields, SamePlace
<1>3. CASE ~Refused(plan)
  <2>1. Replanned(s, at) = [s EXCEPT !.plan = plan, !.at = at, !.got = << >>]
    BY <1>3 DEF Replanned, LoadGeneration
  <2>2. plan.gen = Gen /\ Planned(plan)
    BY <1>1, <1>3 DEF Refused, Planned
  <2> HIDE DEF plan
  <2>3. QED BY <2>1, <2>2 DEF StreamFields, SamePlace
<1>4. QED BY <1>2, <1>3

LEMMA Moves ==
  ASSUME SubscriberInv, UNCHANGED <<hist, log, vers, busy>>, SamePlace(st', st) \/ st'.kind = st.kind,
         PlanOK', WatchOK', BundleOK'
  PROVE  SubscriberInv'
<1>1. Gen' = Gen /\ st'.kind = st.kind
  BY DEF Gen, SamePlace
<1>2. HistoryOK'
  BY <1>1 DEF SubscriberInv, HistoryOK
<1>3. LogOK'
  BY <1>1 DEF SubscriberInv, LogOK
<1>4. QED BY <1>2, <1>3 DEF SubscriberInv

LEMMA OpenStep == SubscriberInv /\ Open => SubscriberInv'
<1> SUFFICES ASSUME SubscriberInv, Open PROVE SubscriberInv'
  OBVIOUS
<1> DEFINE at == IF st.kind \in {"sds", "jwt", "fetch"} THEN "issue" ELSE "subscribe"
<1>1. st' = Replanned(st, at) /\ UNCHANGED <<hist, log, vers, busy>>
  BY DEF Open, Steady
<1>2. /\ SamePlace(st', st) /\ st'.pos = st.pos
      /\ st'.at = "ended" \/ (st'.at = at /\ st'.got = << >> /\ Planned(st'.plan))
  BY <1>1, PlanParts, Replans DEF SubscriberInv
<1>3. Gen' = Gen
  BY <1>1 DEF Gen
<1>4. PlanOK'
  BY <1>1, <1>2, <1>3, PlanParts DEF PlanOK, SamePlace, StreamFields, Planned
<1>5. WatchOK' /\ BundleOK'
  BY <1>2 DEF WatchOK, BundleOK, SamePlace, BundleKinds
<1>6. QED BY <1>1, <1>2, <1>4, <1>5, Moves

LEMMA SubscribeStep == SubscriberInv /\ Subscribe => SubscriberInv'
<1> SUFFICES ASSUME SubscriberInv, Subscribe PROVE SubscriberInv'
  OBVIOUS
<1>1. /\ st.at = "subscribe" /\ UNCHANGED <<hist, log, vers, busy>>
      /\ st' = [st EXCEPT !.from = Len(log), !.pos = Len(log),
                          !.at = IF st.kind = "watch" THEN "wait" ELSE "issue"]
  BY DEF Subscribe, Steady
<1>2. /\ DOMAIN st' = StreamFields /\ st'.kind = st.kind /\ st'.from = Len(log) /\ st'.pos = Len(log)
      /\ st'.plan = st.plan /\ st'.got = st.got /\ st'.at = IF st.kind = "watch" THEN "wait" ELSE "issue"
  BY <1>1, PlanParts DEF StreamFields
<1>3. Gen' = Gen
  BY <1>1 DEF Gen
<1>4. PlanOK'
  BY <1>1, <1>2, <1>3, PlanParts DEF PlanOK, StreamFields, Planned
<1>5. WatchOK'
  <2>1. (Len(log) + 1)..Len(log) = {}
    BY PlanParts
  <2>2. QED BY <1>1, <1>2, <2>1 DEF WatchOK
<1>6. BundleOK'
  <2> SUFFICES ASSUME st.kind \in BundleKinds PROVE BundleOK'
    BY <1>2 DEF BundleOK
  <2>1. st.got = << >> /\ st'.at = "issue" /\ st'.got = << >>
    BY <1>1, <1>2 DEF SubscriberInv, BundleOK, BundleKinds
  <2>2. DOMAIN st'.got = {} /\ Newest(st.got)'
    BY <2>1 DEF Newest
  <2>3. QED BY <2>1, <2>2 DEF BundleOK
<1>7. QED BY <1>1, <1>2, <1>4, <1>5, <1>6, Moves

LEMMA IssueStep ==
  ASSUME SubscriberInv, NEW k \in DOMAIN vers, Issue(k)
  PROVE  SubscriberInv'
<1> DEFINE D == {k} \cup DOMAIN st.got
           got == [x \in D |-> IF x = k THEN vers[k] ELSE st.got[x]]
           at == IF st.plan.keys \subseteq D THEN "answer" ELSE "issue"
<1>1. /\ st.at = "issue" /\ k \in st.plan.keys /\ UNCHANGED <<hist, log, vers, busy>>
      /\ st' = [st EXCEPT !.got = got, !.at = at]
  BY DEF Issue, Steady
<1> HIDE DEF got
<1>2. /\ DOMAIN st' = StreamFields /\ st'.kind = st.kind /\ st'.from = st.from /\ st'.pos = st.pos
      /\ st'.plan = st.plan /\ st'.got = got /\ st'.at = at
  BY <1>1, PlanParts DEF StreamFields
<1>3. Gen' = Gen
  BY <1>1 DEF Gen
<1>4. PlanOK'
  BY <1>1, <1>2, <1>3, PlanParts DEF PlanOK, StreamFields, Planned
<1>5. WatchOK'
  BY <1>1, <1>2 DEF SubscriberInv, WatchOK
<1>6. BundleOK'
  <2> SUFFICES ASSUME st.kind \in BundleKinds PROVE BundleOK'
    BY <1>2 DEF BundleOK
  <2>1. DOMAIN st.got \subseteq st.plan.keys /\ Newest(st.got)
    BY <1>1 DEF SubscriberInv, BundleOK
  <2>2. DOMAIN got = D /\ D \subseteq st.plan.keys
    BY <1>1, <2>1 DEF got
  <2>3. ASSUME NEW x \in DOMAIN got
        PROVE  /\ got[x] \in Nat \ {0}
               /\ \A i \in 1..st.pos : log[i].kind = "rotated" /\ log[i].on = x => log[i].n <= got[x]
    <3>1. CASE x = k
      <4>1. got[x] = vers[k]
        BY <2>2, <3>1 DEF got
      <4>2. vers[k] \in Nat \ {0} /\ \A i \in 1..Len(log) : log[i].kind = "rotated" /\ log[i].on = k => log[i].n <= vers[k]
        BY DEF SubscriberInv, LogOK
      <4>3. \A i \in 1..st.pos : i \in 1..Len(log)
        BY PlanParts
      <4>4. QED BY <3>1, <4>1, <4>2, <4>3
    <3>2. CASE x # k
      <4>1. x \in DOMAIN st.got /\ got[x] = st.got[x]
        BY <2>2, <3>2 DEF got
      <4>2. QED BY <2>1, <4>1 DEF Newest
    <3>3. QED BY <3>1, <3>2
  <2>4. Newest(st.got)'
    BY <1>1, <1>2, <2>3 DEF Newest
  <2>5. QED BY <1>2, <2>2, <2>4 DEF BundleOK
<1>7. QED BY <1>1, <1>2, <1>4, <1>5, <1>6, Moves

(* A stream that ends, or has only an error to report, owes nothing. *)
LEMMA Quits ==
  ASSUME SubscriberInv, UNCHANGED <<hist, log, vers, busy>>,
         DOMAIN st' = StreamFields, st'.kind = st.kind, st'.from = st.from,
         st'.pos \in st.pos..Len(log), st'.plan = st.plan,
         st'.at = "ended" \/ (st'.at = "error" /\ st.at = "issue")
  PROVE  SubscriberInv'
<1>1. Gen' = Gen
  BY DEF Gen
<1>2. st'.pos \in 0..Len(log) /\ st.from \in 0..st'.pos
  BY PlanParts
<1>3. PlanOK'
  BY <1>1, <1>2, PlanParts DEF PlanOK, StreamFields, Planned
<1>4. WatchOK' /\ BundleOK'
  BY DEF SubscriberInv, WatchOK, BundleOK
<1>5. QED BY <1>3, <1>4, Moves

LEMMA IssueFailsStep == SubscriberInv /\ IssueFails => SubscriberInv'
<1> SUFFICES ASSUME SubscriberInv, IssueFails PROVE SubscriberInv'
  OBVIOUS
<1> DEFINE at == IF Streaming(st.kind) /\ st.kind # "sds" THEN "error" ELSE "ended"
<1>1. st.at = "issue" /\ UNCHANGED <<hist, log, vers, busy>> /\ st' = [st EXCEPT !.at = at]
  BY DEF IssueFails, To
<1>2. /\ DOMAIN st' = StreamFields /\ st'.kind = st.kind /\ st'.from = st.from /\ st'.pos = st.pos
      /\ st'.plan = st.plan /\ st'.at = at
  BY <1>1, PlanParts DEF StreamFields
<1>3. st'.pos \in st.pos..Len(log)
  BY <1>2, PlanParts
<1>4. QED BY <1>1, <1>2, <1>3, Quits

LEMMA UnaryAnswerStep == SubscriberInv /\ UnaryAnswer => SubscriberInv'
<1> SUFFICES ASSUME SubscriberInv, UnaryAnswer PROVE SubscriberInv'
  OBVIOUS
<1>1. /\ UNCHANGED <<hist, log, vers, busy>>
      /\ st' = [st EXCEPT !.out = [plan |-> st.plan, got |-> st.got], !.at = "ended"]
  BY DEF UnaryAnswer, Steady
<1>2. /\ DOMAIN st' = StreamFields /\ st'.kind = st.kind /\ st'.from = st.from /\ st'.pos = st.pos
      /\ st'.plan = st.plan /\ st'.at = "ended"
  BY <1>1, PlanParts DEF StreamFields
<1>3. st'.pos \in st.pos..Len(log)
  BY <1>2, PlanParts
<1>4. QED BY <1>1, <1>2, <1>3, Quits

(* The plan of a bundle stream is every publisher. *)
LEMMA BundlePlans ==
  ASSUME SubscriberInv, st.kind \in BundleKinds, NEW g \in 1..Gen
  PROVE  hist[g].plan # {} => hist[g].plan = Issuers(hist[g].name, st.kind)
<1>1. hist[g] = View(st.kind, hist[g].name)
  BY DEF SubscriberInv, HistoryOK
<1>2. hist[g].plan = PlanOf(st.kind, hist[g].name)
  BY <1>1 DEF View
<1>3. PlanOf(st.kind, hist[g].name) = BundlePlan(hist[g].name, st.kind)
  BY DEF PlanOf, BundleKinds
<1>4. QED BY <1>2, <1>3 DEF BundlePlan

(* A plan made for an answer that turned out stale. *)
LEMMA ReplanStep ==
  ASSUME SubscriberInv, UNCHANGED <<hist, log, vers, busy>>, st' = Replanned(st, "issue"), st.kind # "watch"
  PROVE  SubscriberInv'
<1>1. /\ SamePlace(st', st) /\ st'.pos = st.pos
      /\ st'.at = "ended" \/ (st'.at = "issue" /\ st'.got = << >> /\ Planned(st'.plan))
  BY PlanParts, Replans DEF SubscriberInv
<1>2. Gen' = Gen
  BY DEF Gen
<1>3. PlanOK'
  BY <1>1, <1>2, PlanParts DEF PlanOK, SamePlace, StreamFields, Planned
<1>4. WatchOK'
  BY <1>1 DEF WatchOK, SamePlace
<1>5. st'.got = << >> => DOMAIN st'.got = {} /\ Newest(st.got)'
  BY DEF Newest
<1>6. BundleOK'
  BY <1>1, <1>5 DEF BundleOK
<1>7. QED BY <1>1, <1>3, <1>4, <1>6, Moves

LEMMA AnswerStep == SubscriberInv /\ Answer => SubscriberInv'
<1> SUFFICES ASSUME SubscriberInv, Answer PROVE SubscriberInv'
  OBVIOUS
<1>1. st.at \in {"answer", "error"} /\ UNCHANGED <<hist, log, vers, busy>> /\ Gen' = Gen
  BY DEF Answer, Steady, Gen
<1>2. st.kind # "watch" /\ Planned(st.plan)
  BY <1>1, PlanParts DEF SubscriberInv, WatchOK
<1>3. CASE Current /\ st.at = "answer"
  <2>1. st' = Delivered
    BY <1>3 DEF Answer
  <2>2. /\ DOMAIN st' = StreamFields /\ st'.kind = st.kind /\ st'.from = st.from /\ st'.pos = st.pos
        /\ st'.plan = st.plan /\ st'.at = "wait" /\ st'.got = << >> /\ st'.out.plan = st.plan /\ st'.out.got = st.got
    BY <2>1, PlanParts DEF StreamFields, Delivered
  <2>3. PlanOK'
    BY <1>1, <1>2, <2>2, PlanParts DEF PlanOK, StreamFields, Planned
  <2>4. WatchOK'
    BY <1>2, <2>2 DEF WatchOK
  <2>5. BundleOK'
    <3> SUFFICES ASSUME st.kind \in BundleKinds PROVE BundleOK'
      BY <2>2 DEF BundleOK
    <3>1. DOMAIN st.got = st.plan.keys /\ Newest(st.got)
      BY <1>3 DEF SubscriberInv, BundleOK
    <3>2. st.plan.gen = Gen /\ st.plan.keys = Served
      BY <1>2, <1>3, BundlePlans DEF Current, Planned, Served
    <3>3. Newest(st.out.got)'
      BY <1>1, <2>2, <3>1 DEF Newest
    <3>4. Served' = Served
      BY <1>1, <2>2 DEF Served
    <3>5. Publishers(st.out.plan.gen, st.out.plan.keys)' = Publishers(Gen, Served)'
      BY <1>1, <2>2, <3>2, <3>4 DEF Publishers
    <3>6. UpToDate'
      BY <1>1, <1>2, <2>2, <3>1, <3>3, <3>5 DEF UpToDate, Planned
    <3>7. QED BY <2>2, <3>6 DEF BundleOK
  <2>6. QED BY <1>1, <2>2, <2>3, <2>4, <2>5, Moves
<1>4. CASE Current /\ st.at # "answer"
  <2>1. st' = [st EXCEPT !.at = "ended"]
    BY <1>1, <1>4 DEF Answer, Ended
  <2>2. /\ DOMAIN st' = StreamFields /\ st'.kind = st.kind /\ st'.from = st.from /\ st'.pos = st.pos
        /\ st'.plan = st.plan /\ st'.at = "ended"
    BY <2>1, PlanParts DEF StreamFields
  <2>3. st'.pos \in st.pos..Len(log)
    BY <2>2, PlanParts
  <2>4. QED BY <1>1, <2>2, <2>3, Quits
<1>5. CASE ~Current
  <2>1. st' = Replanned(st, "issue")
    BY <1>5 DEF Answer
  <2>2. QED BY <1>1, <1>2, <2>1, ReplanStep
<1>6. QED BY <1>3, <1>4, <1>5

(* An event is taken: the plan is the serving generation's from then on,   *)
(* and an event that does not concern it is neither news of a publisher    *)
(* nor an announcement of a version.                                       *)
LEMMA ReceiveStep == SubscriberInv /\ Receive => SubscriberInv'
<1> SUFFICES ASSUME SubscriberInv, Receive PROVE SubscriberInv'
  OBVIOUS
<1> DEFINE s == IF st.plan.gen # Gen THEN Replanned(st, "wait") ELSE st
           e == log[st.pos + 1]
           at == IF s.at = "wait" /\ Refreshes(s.plan, e) THEN "issue" ELSE s.at
<1>1. /\ st.at = "wait" /\ st.kind \in {"x509", "x509b", "jwtb"} /\ st.pos < Len(log)
      /\ UNCHANGED <<hist, log, vers, busy>> /\ Gen' = Gen
  BY DEF Receive, Steady, Gen
<1>2. st' = [s EXCEPT !.pos = st.pos + 1, !.at = at]
  BY DEF Receive
<1>3. st.kind # "watch" /\ Planned(st.plan) /\ DOMAIN st = StreamFields
  BY <1>1, PlanParts
<1>4. /\ SamePlace(s, st)
      /\ s.at = "ended" \/ (s.at = "wait" /\ s.plan.gen = Gen /\ Planned(s.plan) /\ (s.got = << >> \/ s.got = st.got))
  <2>1. CASE st.plan.gen # Gen
    BY <1>3, <2>1, Replans DEF SubscriberInv
  <2>2. CASE st.plan.gen = Gen
    BY <1>1, <1>3, <2>2 DEF SamePlace
  <2>3. QED BY <2>1, <2>2
<1> HIDE DEF s, e
<1>5. /\ DOMAIN st' = StreamFields /\ st'.kind = st.kind /\ st'.from = st.from /\ st'.pos = st.pos + 1
      /\ st'.at = at /\ st'.plan = s.plan /\ st'.got = s.got /\ st'.out = st.out
  BY <1>2, <1>4 DEF SamePlace, StreamFields
<1>6. at = "ended" \/ (at \in {"wait", "issue"} /\ s.at = "wait")
  BY <1>4
<1>7. PlanOK'
  <2>1. st.pos + 1 \in 0..Len(log) /\ st.from \in 0..(st.pos + 1)
    BY <1>1, PlanParts
  <2>2. QED BY <1>1, <1>4, <1>5, <1>6, <2>1 DEF PlanOK, StreamFields, Planned
<1>8. WatchOK'
  BY <1>3, <1>5 DEF WatchOK
<1>9. BundleOK'
  <2> SUFFICES ASSUME st.kind \in BundleKinds PROVE BundleOK'
    BY <1>5 DEF BundleOK
  <2>1. st.got = << >> /\ (Pending \/ UpToDate)
    BY <1>1 DEF SubscriberInv, BundleOK
  <2>2. CASE at = "ended"
    BY <1>5, <2>2 DEF BundleOK
  <2>3. CASE at = "issue"
    <3>1. st'.got = << >>
      BY <1>4, <1>5, <2>1, <2>3
    <3>2. DOMAIN st'.got = {} /\ Newest(st.got)'
      BY <3>1 DEF Newest
    <3>3. QED BY <1>5, <2>3, <3>2 DEF BundleOK
  <2>4. CASE at = "wait"
    <3>1. /\ s.at = "wait" /\ s.plan.gen = Gen /\ Planned(s.plan) /\ ~Refreshes(s.plan, e) /\ st'.got = << >>
      BY <1>4, <1>5, <2>1, <2>4
    <3>2. s.plan.keys = Served
      BY <3>1, BundlePlans DEF Planned, Served
    <3>3. \A k \in Served : IF e.kind = "rotated" THEN e.on # k ELSE e.on # hist[Gen].domain[k]
      BY <3>1, <3>2 DEF Refreshes
    <3>4. Served' = Served
      BY <1>1, <1>5 DEF Served
    <3>5. ASSUME Pending PROVE Pending'
      <4> SUFFICES ASSUME NEW k \in Served
                   PROVE  \E i \in (st.pos + 1 + 1)..Len(log) : log[i].kind = "bundle" /\ log[i].on = hist[Gen].domain[k]
        BY <1>1, <1>5, <3>4 DEF Pending
      <4>1. PICK i \in (st.pos + 1)..Len(log) : log[i].kind = "bundle" /\ log[i].on = hist[Gen].domain[k]
        BY <3>5 DEF Pending
      <4>2. i # st.pos + 1
        BY <3>3, <4>1 DEF e
      <4>3. i \in (st.pos + 1 + 1)..Len(log)
        BY <4>2, PlanParts
      <4>4. QED BY <4>1, <4>3
    <3>6. ASSUME UpToDate PROVE UpToDate'
      <4>1. DOMAIN st.out.got = Served
        <5>1. Publishers(st.out.plan.gen, st.out.plan.keys) = Publishers(Gen, Served)
          BY <3>6 DEF UpToDate
        <5>2. \A x : (\E d : <<x, d>> \in Publishers(st.out.plan.gen, st.out.plan.keys)) <=> x \in st.out.plan.keys
          BY DEF Publishers
        <5>3. \A x : (\E d : <<x, d>> \in Publishers(Gen, Served)) <=> x \in Served
          BY DEF Publishers
        <5>4. \A x : x \in st.out.plan.keys <=> x \in Served
          BY <5>1, <5>2, <5>3
        <5>5. QED BY <3>6, <5>4 DEF UpToDate
      <4>2. Newest(st.out.got)
        BY <3>6 DEF UpToDate
      <4>3. ASSUME NEW k \in Served, NEW i \in 1..(st.pos + 1), log[i].kind = "rotated", log[i].on = k
            PROVE  log[i].n <= st.out.got[k]
        <5>1. i # st.pos + 1
          BY <3>3, <4>3 DEF e
        <5>2. i \in 1..st.pos
          BY <5>1, PlanParts
        <5>3. QED BY <4>1, <4>2, <4>3, <5>2 DEF Newest
      <4>4. Newest(st.out.got)'
        BY <1>1, <1>5, <4>1, <4>2, <4>3 DEF Newest
      <4>5. /\ Publishers(st.out.plan.gen, st.out.plan.keys)' = Publishers(st.out.plan.gen, st.out.plan.keys)
            /\ Publishers(Gen, Served)' = Publishers(Gen, Served)
        BY <1>1, <1>5, <3>4 DEF Publishers
      <4>6. QED BY <1>1, <1>5, <3>6, <4>4, <4>5 DEF UpToDate
    <3>7. QED BY <1>5, <2>1, <2>4, <3>1, <3>5, <3>6 DEF BundleOK
  <2>5. QED BY <1>6, <2>2, <2>3, <2>4
<1>10. QED BY <1>1, <1>5, <1>7, <1>8, <1>9, Moves

(* A stream that fell behind is told so: a watcher ends, a bundle is made  *)
(* again.                                                                  *)
LEMMA LaggedStep == SubscriberInv /\ Lagged => SubscriberInv'
<1> SUFFICES ASSUME SubscriberInv, Lagged PROVE SubscriberInv'
  OBVIOUS
<1> DEFINE p == Len(log) - Capacity
<1>1. /\ st.at = "wait" /\ st.pos < p /\ UNCHANGED <<hist, log, vers, busy>> /\ Gen' = Gen
      /\ st' = [st EXCEPT !.pos = p, !.at = OnLag(st.kind)]
  BY DEF Lagged, Behind, Steady, Gen
<1>2. p \in st.pos..Len(log) /\ p \in 0..Len(log) /\ st.from \in 0..p
  BY <1>1, PlanParts, ServingAssumption
<1> HIDE DEF p
<1>3. /\ DOMAIN st' = StreamFields /\ st'.kind = st.kind /\ st'.from = st.from /\ st'.pos = p
      /\ st'.plan = st.plan /\ st'.at = OnLag(st.kind) /\ st'.got = st.got
  BY <1>1, PlanParts DEF StreamFields
<1>4. PlanOK'
  BY <1>1, <1>2, <1>3, PlanParts DEF PlanOK, StreamFields, Planned
<1>5. WatchOK'
  BY <1>3 DEF WatchOK, OnLag
<1>6. BundleOK'
  <2> SUFFICES ASSUME st.kind \in BundleKinds PROVE BundleOK'
    BY <1>3 DEF BundleOK
  <2>1. st'.got = << >> /\ st'.at = "issue"
    BY <1>1, <1>3 DEF SubscriberInv, BundleOK, OnLag, BundleKinds
  <2>2. DOMAIN st'.got = {} /\ Newest(st.got)'
    BY <2>1 DEF Newest
  <2>3. QED BY <2>1, <2>2 DEF BundleOK
<1>7. QED BY <1>1, <1>3, <1>4, <1>5, <1>6, Moves

LEMMA RefreshStep == SubscriberInv /\ Refresh => SubscriberInv'
<1> SUFFICES ASSUME SubscriberInv, Refresh PROVE SubscriberInv'
  OBVIOUS
<1>1. st.at = "wait" /\ st.kind = "x509" /\ st' = [st EXCEPT !.at = "issue"] /\ UNCHANGED <<hist, log, vers, busy>> /\ Gen' = Gen
  BY DEF Refresh, To, Steady, Gen
<1>2. /\ DOMAIN st' = StreamFields /\ st'.kind = st.kind /\ st'.from = st.from /\ st'.pos = st.pos
      /\ st'.plan = st.plan /\ st'.at = "issue"
  BY <1>1, PlanParts DEF StreamFields
<1>3. PlanOK'
  BY <1>1, <1>2, PlanParts DEF PlanOK, StreamFields, Planned
<1>4. WatchOK' /\ BundleOK'
  BY <1>1, <1>2 DEF WatchOK, BundleOK, BundleKinds
<1>5. QED BY <1>1, <1>2, <1>3, <1>4, Moves

LEMMA RequestStep == SubscriberInv /\ Request => SubscriberInv'
  BY ReplanStep DEF Request, Steady

LEMMA WatchReceiveStep == SubscriberInv /\ WatchReceive => SubscriberInv'
<1> SUFFICES ASSUME SubscriberInv, WatchReceive PROVE SubscriberInv'
  OBVIOUS
<1>1. /\ st.at = "wait" /\ st.kind = "watch" /\ st.pos < Len(log) /\ UNCHANGED <<hist, log, vers, busy>> /\ Gen' = Gen
      /\ st' = [st EXCEPT !.pos = st.pos + 1, !.at = "deliver"]
  BY DEF WatchReceive, Steady, Gen
<1>2. /\ DOMAIN st' = StreamFields /\ st'.kind = st.kind /\ st'.from = st.from /\ st'.pos = st.pos + 1
      /\ st'.plan = st.plan /\ st'.at = "deliver" /\ st'.told = st.told
  BY <1>1, PlanParts DEF StreamFields
<1>3. st.pos + 1 \in 0..Len(log) /\ st.from \in 0..(st.pos + 1) /\ st.from < st.pos + 1
  BY <1>1, PlanParts
<1>4. PlanOK'
  BY <1>1, <1>2, <1>3, PlanParts DEF PlanOK, StreamFields, Planned
<1>5. WatchOK'
  <2>1. ASSUME NEW i \in (st.from + 1)..(st.pos + 1), i # st.pos + 1 PROVE i \in st.told \/ Hidden(log[i])'
    <3>1. i \in (st.from + 1)..st.pos
      BY <2>1, PlanParts
    <3>2. i \in st.told \/ Hidden(log[i])
      BY <1>1, <3>1 DEF SubscriberInv, WatchOK
    <3>3. Hidden(log[i])' <=> Hidden(log[i])
      BY <1>1 DEF Hidden, EventAllowed, EventKindSelected
    <3>4. QED BY <3>2, <3>3
  <2>2. QED BY <1>2, <1>3, <2>1 DEF WatchOK
<1>6. BundleOK'
  BY <1>1, <1>2 DEF BundleOK, BundleKinds
<1>7. QED BY <1>1, <1>2, <1>4, <1>5, <1>6, Moves

(* The event in a watcher's hands is told, or the serving generation hides *)
(* it, or the watcher is cut off.                                          *)
LEMMA WatchDeliverStep == SubscriberInv /\ WatchDeliver => SubscriberInv'
<1> SUFFICES ASSUME SubscriberInv, WatchDeliver PROVE SubscriberInv'
  OBVIOUS
<1> DEFINE s == IF ~Current THEN Replanned(st, "wait") ELSE [st EXCEPT !.at = "wait"]
           e == log[st.pos]
           told == s.at = "wait" /\ EventAllowed(Gen, e)
<1>1. st.at = "deliver" /\ UNCHANGED <<hist, log, vers, busy>> /\ Gen' = Gen
  BY DEF WatchDeliver, Steady, Gen
<1>2. st' = IF told THEN [s EXCEPT !.told = s.told \cup {st.pos}, !.out = [plan |-> s.plan, got |-> << >>]] ELSE s
  BY DEF WatchDeliver
<1>3. st.kind \notin BundleKinds /\ Planned(st.plan) /\ DOMAIN st = StreamFields
  BY <1>1, PlanParts DEF SubscriberInv, BundleOK
<1>4. /\ SamePlace(s, st) /\ s.pos = st.pos
      /\ s.at = "ended" \/ (s.at = "wait" /\ Planned(s.plan))
  <2>1. CASE ~Current
    BY <1>3, <2>1, Replans DEF SubscriberInv
  <2>2. CASE Current
    BY <1>3, <2>2 DEF SamePlace, StreamFields
  <2>3. QED BY <2>1, <2>2
<1> HIDE DEF s, e
<1>5. /\ DOMAIN st' = StreamFields /\ st'.kind = st.kind /\ st'.from = st.from /\ st'.pos = st.pos
      /\ st'.at = s.at /\ st'.plan = s.plan
      /\ st'.told = IF told THEN st.told \cup {st.pos} ELSE st.told
  <2>1. CASE told
    BY <1>2, <1>4, <2>1 DEF SamePlace, StreamFields
  <2>2. CASE ~told
    BY <1>2, <1>4, <2>2 DEF SamePlace, StreamFields
  <2>3. QED BY <2>1, <2>2
<1>6. PlanOK'
  BY <1>1, <1>4, <1>5, PlanParts DEF PlanOK, StreamFields, Planned
<1>7. WatchOK'
  <2> SUFFICES ASSUME st.kind = "watch", s.at = "wait" PROVE WatchOK'
    BY <1>4, <1>5 DEF WatchOK
  <2>1. ASSUME NEW i \in (st.from + 1)..st.pos PROVE i \in st'.told \/ Hidden(log[i])'
    <3>1. Hidden(log[i])' <=> Hidden(log[i])
      BY <1>1 DEF Hidden, EventAllowed, EventKindSelected
    <3>2. CASE i # st.pos
      <4>1. i \in st.told \/ Hidden(log[i])
        BY <1>1, <3>2 DEF SubscriberInv, WatchOK
      <4>2. QED BY <1>5, <3>1, <4>1
    <3>3. CASE i = st.pos /\ told
      BY <1>5, <3>3
    <3>4. CASE i = st.pos /\ ~told
      <4>1. i \in 1..Len(log)
        BY PlanParts
      <4>2. log[i].gen \in 1..Gen /\ Gen \in Nat
        BY <4>1, Generational DEF SubscriberInv, LogOK
      <4>3. Gen \in log[i].gen..Gen
        BY <4>2
      <4>4. ~EventAllowed(Gen, log[i])
        BY <3>4 DEF e
      <4>5. QED BY <3>1, <4>3, <4>4 DEF Hidden
    <3>5. QED BY <3>2, <3>3, <3>4
  <2>2. QED BY <1>5, <2>1 DEF WatchOK
<1>8. BundleOK'
  BY <1>3, <1>5 DEF BundleOK
<1>9. QED BY <1>1, <1>5, <1>6, <1>7, <1>8, Moves

-----------------------------------------------------------------------------
(* Whatever the stream is left alone by. *)
LEMMA StreamRests == SubscriberInv /\ UNCHANGED <<hist, log, vers, busy, st>> => SubscriberInv'
<1> SUFFICES ASSUME SubscriberInv, UNCHANGED <<hist, log, vers, busy, st>> PROVE SubscriberInv'
  OBVIOUS
<1>1. busy' \subseteq DOMAIN vers /\ \A k \in DOMAIN vers : vers'[k] \in Nat /\ vers[k] <= vers'[k]
  BY DEF SubscriberInv, LogOK
<1>2. QED BY <1>1, VersionsGrow

StreamStep ==
  \/ Open \/ Subscribe \/ (\E k \in DOMAIN vers : Issue(k)) \/ IssueFails \/ Answer \/ UnaryAnswer
  \/ Receive \/ Lagged \/ Refresh \/ Request \/ WatchReceive \/ (st.kind = "watch" /\ WatchDeliver)
BrokerStep(k) == Rotate(k) \/ Announce(k) \/ RotateDropped(k) \/ Revoked(hist[1].domain[k])

(* Every step is one of the stream's, one of the broker's, a swap, or      *)
(* none of their business.                                                 *)
LEMMA ServingSteps ==
  ASSUME [ServingNext]_servingVars
  PROVE  \/ StreamStep \/ (\E k \in DOMAIN vers : BrokerStep(k)) \/ ReloadCommit
         \/ UNCHANGED <<hist, log, vers, busy, st>>
<1>1. CASE StreamNext
  BY <1>1 DEF StreamNext, FetchX509Svid, FetchX509Bundles, FetchJwtBundles, StreamSecrets, FetchSecrets,
     FetchJwtSvid, Watch, IssueSvid, IssueBundles, IssueSecrets, StreamStep, BrokerStep
<1>2. CASE ReloadBegin \/ ReloadFail \/ UNCHANGED servingVars
  BY <1>2 DEF ReloadBegin, ReloadFail, servingVars
<1>3. CASE ReadyNext
  BY <1>3 DEF ReadyNext, ReadinessCached, ReadinessCheck, ReadinessClassify, CacheReadiness, CacheExpires, Still
<1>4. CASE AuditNext
  BY <1>4 DEF AuditNext, AuditAppend, LogMoved, RequestReopen, WriterLoop, OpenAppend, OpenFails,
     WriterReceives, WriterTimeout, WriterLine, WriteLine, AuditStop, WriterEnds, Calm
<1>5. ASSUME NEW x, Resolve(x) \/ LoadFiles(x) PROVE UNCHANGED <<hist, log, vers, busy, st>>
  BY <1>5 DEF Resolve, LoadFiles
<1>6. QED BY <1>1, <1>2, <1>3, <1>4, <1>5 DEF ServingNext

LEMMA SubscriberStep == SubscriberInv /\ [ServingNext]_servingVars => SubscriberInv'
<1> SUFFICES ASSUME SubscriberInv, [ServingNext]_servingVars PROVE SubscriberInv'
  OBVIOUS
<1>1. CASE StreamStep
  BY <1>1, OpenStep, SubscribeStep, IssueStep, IssueFailsStep, AnswerStep, UnaryAnswerStep, ReceiveStep,
     LaggedStep, RefreshStep, RequestStep, WatchReceiveStep, WatchDeliverStep DEF StreamStep
<1>2. ASSUME NEW k \in DOMAIN vers, BrokerStep(k) PROVE SubscriberInv'
  BY <1>2, BrokerSteps DEF BrokerStep
<1>3. QED BY <1>1, <1>2, ReloadStep, StreamRests, ServingSteps

LEMMA SubscriberStart == ServingInit => SubscriberInv
<1> SUFFICES ASSUME ServingInit PROVE SubscriberInv
  OBVIOUS
<1>1. PICK kind \in Kinds : st = Fresh(kind) /\ hist = <<Views[kind][First]>>
  BY DEF ServingInit
<1>2. /\ st.kind = kind /\ st.at = "new" /\ st.pos = 0 /\ st.from = 0
      /\ DOMAIN st = {"kind", "at", "plan", "from", "pos", "got", "out", "told"}
  BY <1>1 DEF Fresh
<1>3. Views[kind][First] = View(kind, First) /\ View(kind, First).name = First /\ First \in DOMAIN Generations
  BY ServingAssumption DEF Views, View
<1>4. Listed(hist) /\ Gen = 1 /\ hist[1] = View(kind, First)
  <2>1. hist \in Seq({View(kind, First)}) /\ Len(hist) = 1 /\ hist[1] = View(kind, First)
    BY <1>1, <1>3
  <2>2. QED BY <2>1 DEF Listed, Gen
<1>5. HistoryOK
  BY <1>2, <1>3, <1>4 DEF HistoryOK
<1>6. Listed(log) /\ Len(log) = 0
  <2>1. log \in Seq({}) /\ Len(log) = 0
    BY DEF ServingInit
  <2>2. QED BY <2>1 DEF Listed
<1>7. LogOK
  BY <1>6 DEF LogOK, ServingInit
<1>8. PlanOK /\ WatchOK /\ BundleOK
  BY <1>2, <1>6 DEF PlanOK, WatchOK, BundleOK
<1>9. QED BY <1>5, <1>7, <1>8 DEF SubscriberInv

(* What was announced of a key is at most what every announcement of it is *)
(* bounded by.                                                             *)
LEMMA AnnouncedBound ==
  ASSUME SubscriberInv, NEW k, NEW b \in Nat \ {0},
         \A i \in 1..Len(log) : log[i].kind = "rotated" /\ log[i].on = k => log[i].n <= b
  PROVE  b >= Announced(k)
<1> DEFINE J == {j \in DOMAIN log : log[j].kind = "rotated" /\ log[j].on = k}
           ns == {log[i].n : i \in J}
<1>1. \A n \in ns : n \in Nat /\ n <= b
  BY PlanParts DEF SubscriberInv, LogOK
<1>2. Announced(k) = IF ns = {} THEN 1 ELSE CHOOSE n \in ns : \A m \in ns : m <= n
  BY DEF Announced
<1> HIDE DEF ns
<1>3. CASE ns = {}
  BY <1>2, <1>3
<1>4. CASE ns # {}
  <2>1. ns \subseteq 0..b
    BY <1>1
  <2>2. \E n \in ns : \A m \in ns : m <= n
    BY <1>4, <2>1, Greatest
  <2>3. Announced(k) \in ns
    BY <1>2, <1>4, <2>2
  <2>4. QED BY <1>1, <2>3
<1>5. QED BY <1>3, <1>4

LEMMA SubscriberShows == SubscriberInv => SubscriberCurrent
<1> SUFFICES ASSUME SubscriberInv PROVE SubscriberCurrent
  OBVIOUS
<1>1. WatchComplete
  BY DEF SubscriberInv, WatchOK, WatchComplete, Hidden
<1>2. BundleCurrent
  <2> SUFFICES ASSUME st.kind \in BundleKinds, st.at = "wait", st.pos = Len(log), hist[Gen].plan # {}
               PROVE  /\ Publishers(st.out.plan.gen, st.out.plan.keys) = Publishers(Gen, hist[Gen].plan)
                      /\ \A k \in DOMAIN st.out.got : st.out.got[k] >= Announced(k)
    BY DEF BundleCurrent, BundleKinds
  <2>1. hist[Gen].plan = Served /\ Served # {}
    BY BundlePlans, Generational DEF SubscriberInv, Served
  <2>2. (st.pos + 1)..Len(log) = {}
    BY PlanParts
  <2>3. UpToDate
    BY <2>1, <2>2 DEF SubscriberInv, BundleOK, Pending
  <2>4. ASSUME NEW k \in DOMAIN st.out.got PROVE st.out.got[k] >= Announced(k)
    <3>1. /\ st.out.got[k] \in Nat \ {0}
          /\ \A i \in 1..Len(log) : log[i].kind = "rotated" /\ log[i].on = k => log[i].n <= st.out.got[k]
      BY <2>3 DEF UpToDate, Newest
    <3>2. QED BY <3>1, AnnouncedBound
  <2>5. QED BY <2>1, <2>3, <2>4 DEF UpToDate
<1>3. QED BY <1>1, <1>2 DEF SubscriberCurrent

(* A waiting subscriber has been told every event but what a generation    *)
(* hides from it, and a waiting bundle stream that took every event last   *)
(* sent the serving publishers in their announced versions: neither lag    *)
(* nor a reload loses news (the loops of watch in admin.rs and of the      *)
(* bundle fetches in spiffe.rs over the channel of event.rs).              *)
THEOREM SubscriberCurrentHolds == ServingSpec => []SubscriberCurrent
<1>1. ServingInit => SubscriberInv
  BY SubscriberStart
<1>2. SubscriberInv /\ [ServingNext]_servingVars => SubscriberInv'
  BY SubscriberStep
<1>3. SubscriberInv => SubscriberCurrent
  BY SubscriberShows
<1>4. QED BY <1>1, <1>2, <1>3, PTL DEF ServingSpec

(* What a step that sends something sends is planned in the generation the *)
(* stream may answer from.                                                 *)
SendsPlanned ==
  st'.out # st.out \/ st'.told # st.told =>
    Grants(IF Streaming(st.kind) THEN Gen ELSE st.plan.gen, st.kind, st'.out.plan)

LEMMA PlannedGranted ==
  ASSUME NEW p, Planned(p), NEW g, g = p.gen, NEW kind
  PROVE  Grants(g, kind, p)
  BY DEF Planned, Grants

LEMMA SendsOnlyPlanned == SubscriberInv /\ [ServingNext]_servingVars => SendsPlanned
<1> SUFFICES ASSUME SubscriberInv, [ServingNext]_servingVars, st'.out # st.out \/ st'.told # st.told
             PROVE  Grants(IF Streaming(st.kind) THEN Gen ELSE st.plan.gen, st.kind, st'.out.plan)
  BY DEF SendsPlanned
<1>1. DOMAIN st = StreamFields /\ (st.at \notin {"new", "ended"} => Planned(st.plan)) /\ HistoryOK
  BY PlanParts DEF SubscriberInv
<1>2. ASSUME NEW at, NEW s, DOMAIN s = StreamFields PROVE Replanned(s, at).out = s.out /\ Replanned(s, at).told = s.told
  BY <1>1, <1>2, Replans DEF SamePlace
<1>3. CASE Answer
  <2>1. st.at \in {"answer", "error"} /\ Streaming(st.kind) /\ Planned(st.plan)
    BY <1>1, <1>3 DEF Answer
  <2>2. CASE Current /\ st.at = "answer"
    <3>1. st' = Delivered
      BY <1>3, <2>2 DEF Answer
    <3>2. st'.out.plan = st.plan
      BY <1>1, <3>1 DEF Delivered, StreamFields
    <3>3. QED BY <2>1, <2>2, <3>2, PlannedGranted DEF Current
  <2>3. CASE Current /\ st.at # "answer"
    <3>1. st' = [st EXCEPT !.at = "ended"]
      BY <1>3, <2>1, <2>3 DEF Answer, Ended
    <3>2. QED BY <1>1, <3>1 DEF StreamFields
  <2>4. CASE ~Current
    <3>1. st' = Replanned(st, "issue")
      BY <1>3, <2>4 DEF Answer
    <3>2. QED BY <1>1, <1>2, <3>1
  <2>5. QED BY <2>2, <2>3, <2>4
<1>4. CASE UnaryAnswer
  <2>1. /\ st.at = "answer" /\ ~Streaming(st.kind) /\ Planned(st.plan)
        /\ st' = [st EXCEPT !.out = [plan |-> st.plan, got |-> st.got], !.at = "ended"]
    BY <1>1, <1>4 DEF UnaryAnswer
  <2>2. st'.out.plan = st.plan
    BY <1>1, <2>1 DEF StreamFields
  <2>3. QED BY <2>1, <2>2, PlannedGranted
<1>5. CASE st.kind = "watch" /\ WatchDeliver
  <2> DEFINE s == IF ~Current THEN Replanned(st, "wait") ELSE [st EXCEPT !.at = "wait"]
             told == s.at = "wait" /\ EventAllowed(Gen, log[st.pos])
  <2>1. st.at = "deliver" /\ Planned(st.plan)
        /\ st' = IF told THEN [s EXCEPT !.told = s.told \cup {st.pos}, !.out = [plan |-> s.plan, got |-> << >>]] ELSE s
    BY <1>1, <1>5 DEF WatchDeliver
  <2>2. SamePlace(s, st) /\ (s.at = "ended" \/ (s.plan.gen = Gen /\ Planned(s.plan)))
    <3>1. CASE ~Current
      BY <1>1, <3>1, Replans
    <3>2. CASE Current
      BY <1>1, <2>1, <3>2 DEF SamePlace, StreamFields, Current
    <3>3. QED BY <3>1, <3>2
  <2> HIDE DEF s
  <2>3. CASE told
    <3>1. st'.out.plan = s.plan
      BY <2>1, <2>2, <2>3 DEF SamePlace, StreamFields
    <3>2. Streaming(st.kind)
      BY <1>5 DEF Streaming
    <3>3. QED BY <2>2, <2>3, <3>1, <3>2, PlannedGranted
  <2>4. CASE ~told
    BY <2>1, <2>2, <2>4 DEF SamePlace
  <2>5. QED BY <2>3, <2>4
<1>6. CASE Open \/ Subscribe \/ (\E k \in DOMAIN vers : Issue(k)) \/ IssueFails
  <2>1. CASE Open
    BY <1>1, <1>2, <2>1 DEF Open
  <2>2. CASE Subscribe
    BY <1>1, <2>2 DEF Subscribe, StreamFields
  <2>3. CASE \E k \in DOMAIN vers : Issue(k)
    BY <1>1, <2>3 DEF Issue, StreamFields
  <2>4. CASE IssueFails
    BY <1>1, <2>4 DEF IssueFails, To, StreamFields
  <2>5. QED BY <1>6, <2>1, <2>2, <2>3, <2>4
<1>7. CASE Receive
  <2> DEFINE s == IF st.plan.gen # Gen THEN Replanned(st, "wait") ELSE st
             at == IF s.at = "wait" /\ Refreshes(s.plan, log[st.pos + 1]) THEN "issue" ELSE s.at
  <2>1. st' = [s EXCEPT !.pos = st.pos + 1, !.at = at]
    BY <1>7 DEF Receive
  <2>2. SamePlace(s, st)
    BY <1>1, Replans DEF SamePlace
  <2> HIDE DEF s, at
  <2>3. QED BY <2>1, <2>2 DEF SamePlace, StreamFields
<1>8. CASE Lagged \/ Refresh \/ Request \/ WatchReceive
  <2>1. CASE Lagged
    BY <1>1, <2>1 DEF Lagged, StreamFields
  <2>2. CASE Refresh
    BY <1>1, <2>2 DEF Refresh, To, StreamFields
  <2>3. CASE Request
    BY <1>1, <1>2, <2>3 DEF Request
  <2>4. CASE WatchReceive
    BY <1>1, <2>4 DEF WatchReceive, StreamFields
  <2>5. QED BY <1>8, <2>1, <2>2, <2>3, <2>4
<1>9. ASSUME NEW k, BrokerStep(k) PROVE st' = st
  BY <1>9 DEF BrokerStep, Rotate, Announce, RotateDropped, Revoked
<1>10. ReloadCommit => st' = st
  BY DEF ReloadCommit
<1>11. QED BY <1>3, <1>4, <1>5, <1>6, <1>7, <1>8, <1>9, <1>10, ServingSteps DEF StreamStep

(* Whatever a stream sends, its caller is entitled to it in the generation *)
(* that serves at that moment, because a response leaves under the reload  *)
(* lock and is planned again when the generation changed (spiffe.rs).      *)
THEOREM StreamAuthorizedHolds == ServingSpec => StreamAuthorized
<1>1. ServingInit => SubscriberInv
  BY SubscriberStart
<1>2. SubscriberInv /\ [ServingNext]_servingVars => SubscriberInv' /\ SendsPlanned
  BY SubscriberStep, SendsOnlyPlanned
<1>3. QED BY <1>1, <1>2, PTL DEF ServingSpec, StreamAuthorized, SendsPlanned

-----------------------------------------------------------------------------
(* Judgements: who is calling, and what a policy that loads may grant.     *)

(* A compiled expression. *)
Compiled(e) ==
  /\ Len(e) \in Nat /\ DOMAIN e = 1..Len(e) /\ WellFormed(e)
  /\ \A i \in DOMAIN e : e[i].op = "leaf" => e[i].pred.on \in Predicates

(* The state of node i, given those of the nodes before it, and a table of *)
(* the states of the first n nodes.                                        *)
StateOf(e, ev, f, i) ==
  IF e[i].op = "leaf" THEN LeafState(e[i].pred, ev) ELSE Combine(e[i].op, {f[k] : k \in e[i].kids})
IsTable(e, ev, n, f) == f = [i \in 1..n |-> StateOf(e, ev, f, i)]

LEMMA Kids ==
  ASSUME NEW e, Compiled(e), NEW i \in 1..Len(e), e[i].op # "leaf"
  PROVE  e[i].kids \subseteq 1..(i - 1)
  BY DEF Compiled, WellFormed

(* Only the states of earlier nodes matter. *)
LEMMA StateLocal ==
  ASSUME NEW e, Compiled(e), NEW i \in 1..Len(e), NEW ev, NEW f, NEW g, \A k \in 1..(i - 1) : f[k] = g[k]
  PROVE  StateOf(e, ev, f, i) = StateOf(e, ev, g, i)
<1>1. CASE e[i].op = "leaf"
  BY <1>1 DEF StateOf
<1>2. CASE e[i].op # "leaf"
  <2>1. \A k \in e[i].kids : f[k] = g[k]
    BY <1>2, Kids
  <2>2. {f[k] : k \in e[i].kids} = {g[k] : k \in e[i].kids}
    BY <2>1
  <2>3. QED BY <1>2, <2>2 DEF StateOf
<1>3. QED BY <1>1, <1>2

(* The table of every prefix exists: a shortest prefix without one would   *)
(* follow a prefix that has one.                                           *)
LEMMA TableExists ==
  ASSUME NEW e, Compiled(e), NEW ev
  PROVE  \E f : IsTable(e, ev, Len(e), f)
<1> DEFINE Bad == {n \in 0..Len(e) : ~\E f : IsTable(e, ev, n, f)}
<1>n. Len(e) \in Nat
  BY DEF Compiled
<1>1. SUFFICES ASSUME Bad # {} PROVE FALSE
  BY <1>n
<1>2. Bad \subseteq Nat
  BY <1>n
<1>3. PICK m \in Bad : \A l \in Bad : ~(<<l, m>> \in OpToRel(<, Nat))
  <2> HIDE DEF Bad
  <2>1. QED BY <1>1, <1>2, NatLessThanWellFounded, WFMin
<1>4. m \in 0..Len(e) /\ ~\E f : IsTable(e, ev, m, f)
  OBVIOUS
<1>5. m # 0
  <2>1. ASSUME m = 0 PROVE IsTable(e, ev, m, [i \in 1..0 |-> 0])
    <3>1. 1..0 = {}
      OBVIOUS
    <3>2. QED BY <2>1, <3>1, Zenon DEF IsTable
  <2>2. QED BY <2>1, <1>4
<1>6. m \in 1..Len(e) /\ m - 1 \in 0..Len(e) /\ m - 1 \in Nat /\ m \in Nat /\ m - 1 < m
  BY <1>4, <1>5, <1>n
<1>7. m - 1 \notin Bad
  BY <1>3, <1>6 DEF OpToRel
<1>8. PICK f : IsTable(e, ev, m - 1, f)
  BY <1>6, <1>7
<1> HIDE DEF Bad
<1> DEFINE g == [i \in 1..m |-> IF i < m THEN f[i] ELSE StateOf(e, ev, f, m)]
<1>9. ASSUME NEW i \in 1..m PROVE g[i] = StateOf(e, ev, g, i)
  <2>1. \A k \in 1..(i - 1) : g[k] = f[k]
    BY <1>6
  <2>2. i \in 1..Len(e)
    BY <1>6
  <2> HIDE DEF g
  <2>3. StateOf(e, ev, g, i) = StateOf(e, ev, f, i)
    BY <2>1, <2>2, StateLocal
  <2>4. CASE i = m
    BY <2>3, <2>4, <1>6 DEF g
  <2>5. CASE i < m
    <3>1. i \in 1..(m - 1)
      BY <2>5, <1>6
    <3>2. f[i] = StateOf(e, ev, f, i)
      BY <3>1, <1>8, Zenon DEF IsTable
    <3>3. g[i] = f[i]
      BY <2>5 DEF g
    <3>4. QED BY <2>3, <3>2, <3>3
  <2>6. QED BY <2>4, <2>5, <1>6
<1>10. g = [i \in 1..m |-> g[i]]
  OBVIOUS
<1> HIDE DEF g
<1>11. IsTable(e, ev, m, g)
  BY <1>9, <1>10 DEF IsTable
<1>12. QED BY <1>4, <1>11

(* So evaluation is what its equations say. *)
Table(e, ev) == CHOOSE f : IsTable(e, ev, Len(e), f)

LEMMA Tabulated ==
  ASSUME NEW e, Compiled(e), NEW ev
  PROVE  /\ \A i \in 1..Len(e) : Table(e, ev)[i] = StateOf(e, ev, Table(e, ev), i)
         /\ Evaluate3(e, ev) = Table(e, ev)[Len(e)]
<1>1. IsTable(e, ev, Len(e), Table(e, ev))
  BY TableExists DEF Table
<1>2. \A i \in 1..Len(e) : Table(e, ev)[i] = StateOf(e, ev, Table(e, ev), i)
  BY <1>1, Zenon DEF IsTable
<1>3. Evaluate3(e, ev) = Table(e, ev)[Len(e)]
  BY DEF Evaluate3, Table, IsTable, StateOf, Root, Compiled
<1>4. QED BY <1>2, <1>3

(* A leaf whose evidence is known reads the same in the full evidence. *)
LEMMA LeafFirm ==
  ASSUME NEW p, p.on \in Predicates, NEW full, DOMAIN full = SnapshotFields, NEW hidden
  PROVE  LeafState(p, Hide(full, hidden)) \in {"unavailable", LeafState(p, full)}
<1> DEFINE ev == Hide(full, hidden)
<1>1. \A f \in SnapshotFields : ev[f] = Unknown \/ ev[f] = full[f]
  BY DEF Hide
<1>2. /\ ev.supplementary \in {Unknown, full.supplementary} /\ ev.systemd \in {Unknown, full.systemd}
      /\ (p.on \in SnapshotFields => ev[p.on] \in {Unknown, full[p.on]})
  BY <1>1 DEF SnapshotFields
<1> HIDE DEF ev
<1>3. CASE p.on \in {"uids", "gids"}
  <2>1. CompareSlots(ev[p.on], p.slot, p.want) \in {"unavailable", CompareSlots(full[p.on], p.slot, p.want)}
    BY <1>2, <1>3 DEF CompareSlots, SnapshotFields
  <2>2. \A y : LeafState(p, y) = CompareSlots(y[p.on], p.slot, p.want)
    BY <1>3, Zenon DEF LeafState
  <2>3. QED BY <2>1, <2>2 DEF ev
<1>4. CASE p.on = "supplementary"
  <2>1. CompareMembership(ev.supplementary, p.want) \in {"unavailable", CompareMembership(full.supplementary, p.want)}
    BY <1>2 DEF CompareMembership
  <2>2. \A y : LeafState(p, y) = CompareMembership(y.supplementary, p.want)
    BY <1>4 DEF LeafState
  <2>3. QED BY <2>1, <2>2 DEF ev
<1>5. CASE p.on \in {"unit", "template"}
  <2>1. CompareSystemd(ev.systemd, p.on, p.want) \in {"unavailable", CompareSystemd(full.systemd, p.on, p.want)}
    BY <1>2 DEF CompareSystemd
  <2>2. \A y : LeafState(p, y) = CompareSystemd(y.systemd, p.on, p.want)
    BY <1>5 DEF LeafState
  <2>3. QED BY <2>1, <2>2 DEF ev
<1>6. CASE p.on \in {"digest", "signature"}
  <2>1. Compare(ev[p.on], p.want) \in {"unavailable", Compare(full[p.on], p.want)}
    BY <1>2, <1>6 DEF Compare, SnapshotFields
  <2>2. \A y : LeafState(p, y) = Compare(y[p.on], p.want)
    BY <1>6 DEF LeafState
  <2>3. QED BY <2>1, <2>2 DEF ev
<1>7. QED BY <1>3, <1>4, <1>5, <1>6 DEF Predicates

(* Neither a conjunction nor a disjunction that is decided changes when    *)
(* parts that were not available become known.                             *)
LEMMA CombineFirm ==
  ASSUME NEW op, NEW F, NEW G, \A x \in F : x = "unavailable" \/ x \in G, "unavailable" \notin F => F = G
  PROVE  Combine(op, F) \in {"unavailable", Combine(op, G)}
<1>1. EvaluateAll(F) \in {"unavailable", EvaluateAll(G)}
  BY DEF EvaluateAll
<1>2. EvaluateAny(F) \in {"unavailable", EvaluateAny(G)}
  BY DEF EvaluateAny
<1>3. QED BY <1>1, <1>2 DEF Combine

(* So is every node of an expression, by the order of its nodes. *)
LEMMA EvaluateFirm ==
  ASSUME NEW e, Compiled(e), NEW full, DOMAIN full = SnapshotFields, NEW hidden
  PROVE  Evaluate3(e, Hide(full, hidden)) \in {"unavailable", Evaluate3(e, full)}
<1> DEFINE ev == Hide(full, hidden)
           f == Table(e, ev)
           g == Table(e, full)
           Bad == {i \in 1..Len(e) : f[i] \notin {"unavailable", g[i]}}
<1>n. Len(e) \in Nat /\ Len(e) \in 1..Len(e)
  BY DEF Compiled, WellFormed
<1>t. /\ \A i \in 1..Len(e) : f[i] = StateOf(e, ev, f, i) /\ g[i] = StateOf(e, full, g, i)
      /\ Evaluate3(e, ev) = f[Len(e)] /\ Evaluate3(e, full) = g[Len(e)]
  BY Tabulated
<1>l. \A p : p.on \in Predicates => LeafState(p, ev) \in {"unavailable", LeafState(p, full)}
  BY LeafFirm
<1> HIDE DEF ev, f, g
<1>1. SUFFICES ASSUME Bad # {} PROVE FALSE
  BY <1>n, <1>t DEF ev
<1>2. Bad \subseteq Nat
  BY <1>n
<1>3. PICK m \in Bad : \A l \in Bad : ~(<<l, m>> \in OpToRel(<, Nat))
  <2> HIDE DEF Bad
  <2>1. QED BY <1>1, <1>2, NatLessThanWellFounded, WFMin
<1>4. \A k \in 1..(m - 1) : f[k] \in {"unavailable", g[k]}
  <2> TAKE k \in 1..(m - 1)
  <2>1. k \in 1..Len(e) /\ k \in Nat /\ m \in Nat /\ k < m
    BY <1>n
  <2>2. k \notin Bad
    <3> HIDE DEF Bad
    <3>1. QED BY <1>3, <2>1 DEF OpToRel
  <2>3. QED BY <2>1, <2>2
<1>5. m \in 1..Len(e) /\ f[m] \notin {"unavailable", g[m]}
  OBVIOUS
<1> HIDE DEF Bad
<1>6. CASE e[m].op = "leaf"
  <2>1. e[m].pred.on \in Predicates
    BY <1>5, <1>6 DEF Compiled
  <2>2. f[m] = LeafState(e[m].pred, ev) /\ g[m] = LeafState(e[m].pred, full)
    BY <1>5, <1>6, <1>t DEF StateOf
  <2>3. QED BY <1>5, <1>l, <2>1, <2>2
<1>7. CASE e[m].op # "leaf"
  <2>1. \A k \in e[m].kids : f[k] \in {"unavailable", g[k]}
    BY <1>4, <1>5, <1>7, Kids
  <2> DEFINE F == {f[k] : k \in e[m].kids}
             G == {g[k] : k \in e[m].kids}
  <2>2. f[m] = Combine(e[m].op, F) /\ g[m] = Combine(e[m].op, G)
    BY <1>5, <1>7, <1>t DEF StateOf
  <2>3. (\A x \in F : x = "unavailable" \/ x \in G) /\ ("unavailable" \notin F => F = G)
    BY <2>1
  <2> HIDE DEF F, G
  <2>4. QED BY <1>5, <2>2, <2>3, CombineFirm
<1>8. QED BY <1>6, <1>7

(* Without a signature, a subject resolved on partial evidence is the one  *)
(* of the full evidence: nothing was unavailable, so nothing changes.      *)
LEMMA ResolvedFirm ==
  ASSUME NEW x \in Cases, x.full.signature = Unknown,
         ResolveEvidenceActor(x.subjects, Hide(x.full, x.hidden)).ok
  PROVE  ResolveEvidenceActor(x.subjects, x.full) = ResolveEvidenceActor(x.subjects, Hide(x.full, x.hidden))
<1> DEFINE ev == Hide(x.full, x.hidden)
<1>1. DOMAIN x.full = SnapshotFields /\ \A s \in DOMAIN x.subjects : Compiled(x.subjects[s].match)
  BY JudgementAssumption DEF Compiled
<1>2. ev.signature = Unknown /\ ev.domain \in {Unknown, x.full.domain}
  BY <1>1 DEF Hide, SnapshotFields
<1>3. \A s \in DOMAIN x.subjects :
        /\ EvaluateForResolution(x.subjects[s].match, ev) = Evaluate3(x.subjects[s].match, ev)
        /\ EvaluateForResolution(x.subjects[s].match, x.full) = Evaluate3(x.subjects[s].match, x.full)
  BY <1>2 DEF EvaluateForResolution
<1>4. \A s \in DOMAIN x.subjects :
        EvaluateForResolution(x.subjects[s].match, ev)
          \in {"unavailable", EvaluateForResolution(x.subjects[s].match, x.full)}
  BY <1>1, <1>3, EvaluateFirm
<1>5. ResolveSubject(x.subjects, ev).ok
  BY DEF ResolveEvidenceActor
<1> HIDE DEF ev
<1>6. ev.domain # Unknown /\ InState(x.subjects, ev, "unavailable") = {}
  BY <1>5 DEF ResolveSubject
<1>7. Eligible(x.subjects, ev) = Eligible(x.subjects, x.full)
  BY <1>2, <1>6 DEF Eligible
<1>8. \A s \in Eligible(x.subjects, ev) :
        EvaluateForResolution(x.subjects[s].match, ev) = EvaluateForResolution(x.subjects[s].match, x.full)
  BY <1>4, <1>6 DEF InState, Eligible
<1>9. \A state : InState(x.subjects, ev, state) = InState(x.subjects, x.full, state)
  BY <1>7, <1>8 DEF InState
<1>10. ev.domain = x.full.domain
  BY <1>2, <1>6
<1>11. ResolveSubject(x.subjects, ev) = ResolveSubject(x.subjects, x.full)
  BY <1>9, <1>10 DEF ResolveSubject
<1>12. QED BY <1>11 DEF ResolveEvidenceActor, ev

-----------------------------------------------------------------------------
(* A target that parses and does not match every key begins with a literal *)
(* segment, so it does not match a key that begins otherwise.              *)
LEMMA LiteralFirst ==
  ASSUME NEW g \in Seq(STRING), ParseGlob(g), ~MatchesAll(g),
         NEW key \in Seq(STRING), key # << >>, g # << >> => g[1] # key[1]
  PROVE  ~GlobMatches(g, key)
<1>1. ~IsAnyKey(g) /\ g # <<"**">> /\ g # <<"*">>
  BY DEF MatchesAll, IsAnyKey
<1>2. /\ g # << >> /\ Len(g) \in Nat \ {0} /\ 1 \in DOMAIN g /\ DOMAIN g = 1..Len(g)
      /\ \A i \in DOMAIN g : g[i] \in Wildcards => i = Len(g)
  <2>1. g # << >> /\ \A i \in DOMAIN g : g[i] \in Wildcards => i = Len(g)
    BY <1>1, Zenon DEF ParseGlob
  <2>2. QED BY <2>1
<1>3. g[1] # key[1] /\ Len(key) \in Nat
  BY <1>2
<1>4. SUFFICES ASSUME PatternMatches(g, key) PROVE FALSE
  BY <1>1 DEF GlobMatches
<1>5. CASE Len(g) > 1
  <2>1. 1 \in 1..(Len(g) - 1)
    BY <1>2, <1>5
  <2>2. QED BY <1>3, <1>4, <2>1 DEF PatternMatches
<1>6. CASE Len(g) = 1
  <2>1. g = <<g[1]>>
    BY <1>2, <1>6
  <2>2. g[1] \notin Wildcards
    BY <1>1, <2>1 DEF Wildcards
  <2>3. g[Len(g)] = g[1] /\ g[1] # "*" /\ g[1] # "**"
    BY <1>6, <2>2 DEF Wildcards
  <2>4. QED BY <1>3, <1>4, <1>6, <2>3 DEF PatternMatches
<1>7. QED BY <1>2, <1>5, <1>6

(* What a policy grants to a subject without break-glass. *)
LEMMA NoRoot ==
  ASSUME NEW x \in Files, LoadPolicy(x.raw, x.accounts), NEW s \in DOMAIN Resolved(x.raw).subjects,
         ~Resolved(x.raw).subjects[s].glass
  PROVE  \E key \in Probes : \A op \in AllOps : \A actor :
           actor.subject = s => ~Granted(Resolved(x.raw), actor, op, key)
<1>1. PICK key \in Probes : /\ key # << >> /\ key \in Seq(STRING)
                            /\ \A i \in DOMAIN x.raw.rules : \A g \in x.raw.rules[i].target : g # << >> => g[1] # key[1]
  BY JudgementAssumption
<1>2. /\ Resolved(x.raw).subjects = ParseSubjects(x.raw.subjects)
      /\ DOMAIN Resolved(x.raw).rules = DOMAIN x.raw.rules
      /\ \A i \in DOMAIN x.raw.rules :
           /\ Resolved(x.raw).rules[i].subjects = x.raw.rules[i].subjects
           /\ \A g \in Resolved(x.raw).rules[i].grants : g.target \in x.raw.rules[i].target
  BY DEF Resolved, BuildResolved
<1>3. \A i \in DOMAIN x.raw.rules : ParseRule(x.raw.rules[i], ParseSubjects(x.raw.subjects))
  BY DEF LoadPolicy, ParseRules
<1>4. ASSUME NEW i \in DOMAIN x.raw.rules, s \in x.raw.rules[i].subjects, NEW g \in x.raw.rules[i].target
      PROVE  ~GlobMatches(g, key)
  <2>1. ParseGlob(g) /\ ~MatchesAll(g)
    BY <1>2, <1>3, <1>4 DEF ParseRule
  <2>2. g \in Seq(STRING) /\ (g # << >> => g[1] # key[1])
    BY <1>1, JudgementAssumption
  <2>3. QED BY <1>1, <2>1, <2>2, LiteralFirst
<1>5. ASSUME NEW op \in AllOps, NEW actor, actor.subject = s, Granted(Resolved(x.raw), actor, op, key)
      PROVE  FALSE
  BY <1>2, <1>4, <1>5 DEF Granted, MatchingRuleSubject
<1>6. QED BY <1>5

-----------------------------------------------------------------------------
(* What is under examination was judged from a case or a file. *)
JudgementInv ==
  \/ who = << >>
  \/ Plays("who") /\ \E x \in Cases :
       who = <<[case |-> x, known |-> ResolveEvidenceActor(x.subjects, Hide(x.full, x.hidden)),
                truth |-> ResolveEvidenceActor(x.subjects, x.full)]>>
  \/ Plays("load") /\ \E x \in Files : LoadPolicy(x.raw, x.accounts) /\ who = <<Resolved(x.raw)>>

LEMMA JudgementStep ==
  JudgementInv /\ [ServingNext]_servingVars => JudgementInv'
<1> SUFFICES ASSUME JudgementInv, [ServingNext]_servingVars PROVE JudgementInv'
  OBVIOUS
<1>0. CASE UNCHANGED <<scene, who>>
  BY <1>0, Zenon DEF JudgementInv, Plays
<1>1. CASE ReloadBegin \/ ReloadCommit \/ ReloadFail
  BY <1>0, <1>1, ZenonT(40) DEF ReloadBegin, ReloadCommit, ReloadFail
<1>2. CASE StreamNext
  <2>1. UNCHANGED <<scene, who>>
    BY <1>2 DEF StreamNext, Rotate, Announce, RotateDropped, Revoked, FetchX509Svid, FetchX509Bundles,
     FetchJwtBundles, StreamSecrets, FetchSecrets, FetchJwtSvid, Watch, Open, Subscribe, IssueSvid,
     IssueBundles, IssueSecrets, Issue, IssueFails, Answer, UnaryAnswer, Receive, Lagged, Refresh, Request,
     WatchReceive, WatchDeliver, Steady
  <2>2. QED BY <2>1, <1>0
<1>3. CASE ReadyNext
  <2>1. UNCHANGED <<scene, who>>
    BY <1>3 DEF ReadyNext, ReadinessCached, ReadinessCheck, ReadinessClassify, CacheReadiness, CacheExpires, Still
  <2>2. QED BY <2>1, <1>0
<1>4. CASE AuditNext
  <2>1. UNCHANGED <<scene, who>>
    BY <1>4 DEF AuditNext, AuditAppend, LogMoved, RequestReopen, WriterLoop, OpenAppend, OpenFails, WriterReceives,
      WriterTimeout, WriterLine, WriteLine, AuditStop, WriterEnds, Calm
  <2>2. QED BY <2>1, <1>0
<1>5. ASSUME Plays("who"), NEW x \in Cases, Resolve(x) PROVE JudgementInv'
  BY <1>5, Zenon DEF Resolve, JudgementInv, Plays
<1>6. ASSUME Plays("load"), NEW x \in Files, LoadFiles(x) PROVE JudgementInv'
  BY <1>6, Zenon DEF LoadFiles, LoadPair, JudgementInv, Plays
<1>7. CASE UNCHANGED servingVars
  BY <1>0, <1>7 DEF servingVars
<1>8. QED BY <1>1, <1>2, <1>3, <1>4, <1>5, <1>6, <1>7 DEF ServingNext

LEMMA JudgementSound ==
  JudgementInv => PolicySound
<1> SUFFICES ASSUME JudgementInv PROVE PolicySound
  OBVIOUS
<1>1. ResolutionConclusive
  <2> SUFFICES ASSUME Plays("who"), who # << >>, who[1].known.ok, who[1].case.full.signature = Unknown
               PROVE  who[1].truth = who[1].known
    BY DEF ResolutionConclusive
  <2>1. PICK x \in Cases :
          who = <<[case |-> x, known |-> ResolveEvidenceActor(x.subjects, Hide(x.full, x.hidden)),
                   truth |-> ResolveEvidenceActor(x.subjects, x.full)]>>
    BY DEF JudgementInv, Plays
  <2>2. /\ who[1].case = x /\ who[1].known = ResolveEvidenceActor(x.subjects, Hide(x.full, x.hidden))
        /\ who[1].truth = ResolveEvidenceActor(x.subjects, x.full)
    BY <2>1
  <2>3. QED BY <2>2, ResolvedFirm
<1>2. NoAccidentalRoot
  <2> SUFFICES ASSUME Plays("load"), who # << >>, NEW s \in DOMAIN who[1].subjects, ~who[1].subjects[s].glass
               PROVE  \E key \in Probes : \A op \in AllOps :
                        ~Granted(who[1], [subject |-> s, domain |-> who[1].subjects[s].domain], op, key)
    BY DEF NoAccidentalRoot
  <2>1. PICK x \in Files : LoadPolicy(x.raw, x.accounts) /\ who = <<Resolved(x.raw)>>
    BY DEF JudgementInv, Plays
  <2>2. who[1] = Resolved(x.raw)
    BY <2>1
  <2> DEFINE actor == [subject |-> s, domain |-> who[1].subjects[s].domain]
  <2>3. actor.subject = s
    OBVIOUS
  <2> HIDE DEF actor
  <2>4. PICK key \in Probes : \A op \in AllOps : \A a :
          a.subject = s => ~Granted(Resolved(x.raw), a, op, key)
    BY <2>1, <2>2, NoRoot
  <2>5. \A op \in AllOps : ~Granted(who[1], actor, op, key)
    BY <2>2, <2>3, <2>4
  <2>6. QED BY <2>5 DEF actor
<1>3. QED BY <1>1, <1>2 DEF PolicySound

(* Evidence that cannot be read never decides a resolution, for callers    *)
(* without a signature (evidence.rs evaluate_all, evaluate_any), and no    *)
(* policy that loads opens every key to a subject that is not marked       *)
(* break-glass (loader.rs matches_all): for any expressions, evidence and  *)
(* policy files.                                                           *)
THEOREM PolicySoundHolds == ServingSpec => []PolicySound
<1>1. ServingInit => JudgementInv
  BY DEF ServingInit, JudgementInv
<1>2. QED BY <1>1, JudgementStep, JudgementSound, PTL DEF ServingSpec

-----------------------------------------------------------------------------
(* The deny-list. *)

USE DEF Entries

-----------------------------------------------------------------------------
(* prune_expired keeps what has not expired and adds nothing. *)
LEMMA PruneFacts ==
  ASSUME now \in Nat, NEW m \in Entries
  PROVE  /\ Prune(m) \in Entries
         /\ \A j \in Jtis : m[j] > now => Prune(m)[j] = m[j]
         /\ \A j \in Jtis : Prune(m)[j] \in {0, m[j]}
BY DEF Prune

(* merge_from is at least either map where they are live, and each of its  *)
(* entries comes from one of the two.                                      *)
LEMMA MergedFacts ==
  ASSUME now \in Nat, NEW a \in Entries, NEW b \in Entries
  PROVE  /\ Merged(a, b) \in Entries
         /\ \A j \in Jtis : a[j] > now => Merged(a, b)[j] >= a[j]
         /\ \A j \in Jtis : Merged(a, b)[j] \in {0, a[j], b[j]}
BY PruneFacts DEF Merged, Longer, Prune

-----------------------------------------------------------------------------
(* Every reachable state is well typed. *)
LEMMA TypeInit == Init => TypeOK
BY ConstantsOK DEF Init, TypeOK, Task, IdleTask, NoEntries, Tasks

LEMMA TypeNext == TypeOK /\ [Next]_vars => TypeOK'
<1> SUFFICES ASSUME TypeOK, [Next]_vars PROVE TypeOK'
  OBVIOUS
<1> USE DEF TypeOK
<1>t. IdleTask \in Task
  BY DEF IdleTask, Task, NoEntries
<1>1. ASSUME NEW t \in Revokers, Revoke(t) PROVE TypeOK'
  <2>0. PICK j \in Jtis : \E e \in Expiries[j] :
          e > now /\ Insert(t, j, e) /\ contested' = contested \cup Contest(j, e)
    BY <1>1 DEF Revoke
  <2>1. PICK e \in Expiries[j] :
          e > now /\ Insert(t, j, e) /\ contested' = contested \cup Contest(j, e)
    BY <2>0
  <2>2. e \in Nat /\ contested' \subseteq Jtis
    BY <2>1, ConstantsOK DEF Contest
  <2>3. task' \in [Tasks -> Task]
    <3>1. t \in Tasks /\ task[t] \in Task
      BY DEF Tasks
    <3>2. [task[t] EXCEPT !.st = "inserted", !.jti = j, !.exp = e] \in Task
      BY <2>2, <3>1 DEF Task
    <3>3. task' = [task EXCEPT ![t] =
                     [task[t] EXCEPT !.st = "inserted", !.jti = j, !.exp = e]]
      BY <2>1, <3>1 DEF Insert, Task
    <3>4. QED
      BY <3>1, <3>2, <3>3
  <2>4. QED
    BY <1>1, <2>1, <2>2, <2>3 DEF Revoke, Insert
<1>2. ASSUME NEW t \in Revokers, Snapshot(t) PROVE TypeOK'
  BY <1>2, ZenonT(40) DEF Snapshot, Step, Tasks, Task
<1>3. ASSUME NEW t \in Revokers, PutLands(t) PROVE TypeOK'
  BY <1>3, ZenonT(40) DEF PutLands, Step, Tasks, Task
<1>4. ASSUME NEW t \in Revokers, Acknowledge(t) PROVE TypeOK'
  <2>1. task[t].exp \in Nat
    BY DEF Tasks, Task
  <2>2. acked' \in Entries
    BY <1>4, <2>1 DEF Acknowledge, Longer
  <2>3. QED
    BY <1>4, <1>t, <2>2 DEF Acknowledge, Return
<1>5. ASSUME NEW t \in Revokers, Abandon(t) PROVE TypeOK'
  BY <1>5, <1>t DEF Abandon, Return
<1>6. ASSUME NEW t \in Refreshers, Load(t) PROVE TypeOK'
  <2>1. Prune(store) \in Entries
    BY PruneFacts
  <2>2. QED
    BY <1>6, <2>1, ZenonT(40) DEF Load, Step, Tasks, Task
<1>7. ASSUME NEW t \in Refreshers, Merge(t) PROVE TypeOK'
  <2>1. task[t].map \in Entries
    BY DEF Tasks, Task
  <2>2. QED
    BY <1>7, <1>t, <2>1, MergedFacts DEF Merge, Return
<1>8. CASE IsRevoked
  BY <1>8, PruneFacts DEF IsRevoked
<1>9. CASE Tick
  BY <1>9 DEF Tick
<1>10. CASE Restart
  BY <1>10, <1>t, PruneFacts DEF Restart
<1>11. CASE UNCHANGED vars
  BY <1>11 DEF vars
<1>12. QED
  BY <1>1, <1>2, <1>3, <1>4, <1>5, <1>6, <1>7, <1>8, <1>9, <1>10, <1>11 DEF Next

(* The deny-list, its stored copy and every call in flight keep their types. *)
THEOREM TypeCorrect == Spec => []TypeOK
BY TypeInit, TypeNext, PTL DEF Spec

-----------------------------------------------------------------------------
(* Durability.  AckedKept alone is not inductive: a write replaces the     *)
(* whole copy, so every map on its way to the backend must hold what is    *)
(* acknowledged, and the entry of every call that may still be             *)
(* acknowledged.  For a token whose revocation met no map on its way and   *)
(* was not shortened, it does.                                             *)

(* Of token j, entry e is in the map m while the token is live. *)
Has(m, j, e) == e > now => m[j] >= e
(* A Revoke RPC for j that has not returned. *)
Revoking(s, j) == ~At(s, "idle") /\ task[s].jti = j

KeptFor(j) ==
  /\ Has(mem, j, acked[j]) /\ Has(store, j, acked[j])
  /\ \A t \in Revokers : At(t, "sending") => Has(task[t].map, j, acked[j])
  /\ \A s \in Revokers : Revoking(s, j) =>
       /\ Has(mem, j, task[s].exp)
       /\ At(s, "landed") => Has(store, j, task[s].exp)
       /\ \A t \in Revokers : At(t, "sending") => Has(task[t].map, j, task[s].exp)

Kept ==
  /\ \A t \in Revokers : ~At(t, "idle") => task[t].jti \in Jtis
  /\ \A j \in Jtis : j \notin contested => KeptFor(j)

LEMMA KeptInit == Init => Kept
BY DEF Init, Kept, KeptFor, Has, Revoking, At, NoEntries, IdleTask, Tasks

LEMMA KeptNext == TypeOK /\ TypeOK' /\ Kept /\ [Next]_vars => Kept'
<1> SUFFICES ASSUME TypeOK, TypeOK', Kept, [Next]_vars PROVE Kept'
  OBVIOUS
<1> USE DEF TypeOK, Kept, At
<1>m. \A t \in Tasks : task[t].map \in Entries /\ task[t].exp \in Nat
  BY DEF Task
<1>n. now \in Nat /\ mem \in [Jtis -> Nat] /\ store \in [Jtis -> Nat] /\ acked \in [Jtis -> Nat]
  BY DEF Entries
<1>r. Revokers \subseteq Tasks /\ Refreshers \subseteq Tasks
      /\ \A t \in Refreshers : t \notin Revokers
  BY ConstantsOK DEF Tasks
<1>1. ASSUME NEW t \in Revokers, Revoke(t) PROVE Kept'
  <2>0. PICK j \in Jtis : \E e \in Expiries[j] :
          e > now /\ Insert(t, j, e) /\ contested' = contested \cup Contest(j, e)
    BY <1>1 DEF Revoke
  <2>1. PICK e \in Expiries[j] :
          e > now /\ Insert(t, j, e) /\ contested' = contested \cup Contest(j, e)
    BY <2>0
  <2>2. e \in Nat
    BY ConstantsOK
  <2>3. /\ task'[t].st = "inserted" /\ task'[t].jti = j /\ task'[t].exp = e
        /\ task[t].st = "idle"
        /\ \A s \in Revokers : s # t => task'[s] = task[s]
    BY <1>1, <1>r, <2>1 DEF Revoke, Insert, Task
  <2>4. mem' = [mem EXCEPT ![j] = e] /\ UNCHANGED <<now, store, acked>>
    BY <1>1, <2>1 DEF Revoke, Insert
  <2>5. ASSUME NEW i \in Jtis, i \notin contested' PROVE KeptFor(i)'
    <3>1. i \notin contested /\ KeptFor(i)
      BY <2>1, <2>5
    <3>2. CASE i # j
      BY <2>3, <2>4, <3>1, <3>2, <1>m, <1>r DEF KeptFor, Has, Revoking
    <3>3. CASE i = j
      <4>1. (\A s \in Revokers : task[s].st # "sending") /\ e >= mem[j]
        BY <2>1, <2>2, <2>5, <3>3, <1>n DEF Contest
      <4>2. \A s \in Revokers : task'[s].st # "sending"
        BY <2>3, <4>1
      <4>3. mem'[j] = e /\ mem'[j] >= mem[j] /\ mem'[j] \in Nat /\ mem[j] \in Nat
        BY <2>2, <2>4, <4>1, <1>n
      <4>4. Has(mem, j, acked[j])' /\ Has(store, j, acked[j])'
        BY <2>4, <3>1, <3>3, <4>3, <1>n DEF KeptFor, Has
      <4>5. ASSUME NEW s \in Revokers, Revoking(s, j)'
            PROVE  /\ Has(mem, j, task[s].exp)'
                   /\ (At(s, "landed") => Has(store, j, task[s].exp))'
        <5>1. CASE s = t
          BY <2>3, <4>3, <5>1 DEF Has
        <5>2. CASE s # t
          BY <2>3, <2>4, <3>1, <3>3, <4>3, <4>5, <5>2, <1>m, <1>n, <1>r DEF KeptFor, Has, Revoking
        <5>3. QED BY <5>1, <5>2
      <4>6. QED
        BY <3>3, <4>2, <4>4, <4>5 DEF KeptFor
    <3>4. QED BY <3>2, <3>3
  <2>6. QED
    BY <2>3, <2>5
<1>2. ASSUME NEW t \in Revokers, Snapshot(t) PROVE Kept'
  <2>1. /\ task[t].st = "inserted" /\ task'[t].st = "sending" /\ task'[t].map = mem
        /\ task'[t].jti = task[t].jti /\ task'[t].exp = task[t].exp
        /\ \A s \in Revokers : s # t => task'[s] = task[s]
        /\ UNCHANGED <<now, mem, store, acked, contested>>
    BY <1>2, <1>r DEF Snapshot, Step, Task
  <2>2. ASSUME NEW i \in Jtis, i \notin contested PROVE KeptFor(i)'
    BY <2>1, <2>2 DEF KeptFor, Has, Revoking
  <2>3. QED BY <2>1, <2>2
<1>3. ASSUME NEW t \in Revokers, PutLands(t) PROVE Kept'
  <2>1. /\ task[t].st = "sending" /\ task'[t].st = "landed" /\ store' = task[t].map
        /\ task'[t].jti = task[t].jti /\ task'[t].exp = task[t].exp
        /\ \A s \in Revokers : s # t => task'[s] = task[s]
        /\ UNCHANGED <<now, mem, acked, contested>>
    BY <1>3, <1>r DEF PutLands, Step, Task
  <2>2. ASSUME NEW i \in Jtis, i \notin contested PROVE KeptFor(i)'
    BY <2>1, <2>2 DEF KeptFor, Has, Revoking
  <2>3. QED BY <2>1, <2>2
<1>4. ASSUME NEW t \in Revokers, Acknowledge(t) PROVE Kept'
  <2>1. /\ task[t].st = "landed" /\ task'[t].st = "idle"
        /\ \A s \in Revokers : s # t => task'[s] = task[s]
        /\ UNCHANGED <<now, mem, store, contested>>
    BY <1>4, <1>r DEF Acknowledge, Return, IdleTask
  <2> DEFINE j == task[t].jti
             e == task[t].exp
  <2>2. j \in Jtis /\ e \in Nat
    BY <2>1, <1>m, <1>r
  <2>3. \A i \in Jtis : acked'[i] = acked[i] \/ (i = j /\ acked'[i] = e)
    BY <1>4, <2>2, <1>n DEF Acknowledge, Longer
  <2>4. ASSUME NEW i \in Jtis, i \notin contested PROVE KeptFor(i)'
    <3>1. KeptFor(i)
      BY <2>4
    <3>2. CASE acked'[i] = acked[i]
      BY <2>1, <3>1, <3>2 DEF KeptFor, Has, Revoking
    <3>3. CASE i = j /\ acked'[i] = e
      <4>1. Revoking(t, i)
        BY <2>1, <3>3 DEF Revoking
      <4>2. Has(mem, i, e) /\ Has(store, i, e)
            /\ \A s \in Revokers : task[s].st = "sending" => Has(task[s].map, i, e)
        BY <2>1, <3>1, <4>1 DEF KeptFor
      <4>3. QED
        BY <2>1, <3>1, <3>3, <4>2 DEF KeptFor, Has, Revoking
    <3>4. QED BY <2>3, <3>2, <3>3
  <2>5. QED BY <2>1, <2>4
<1>5. ASSUME NEW t \in Revokers, Abandon(t) PROVE Kept'
  <2>1. /\ task'[t].st = "idle" /\ UNCHANGED <<now, mem, store, acked, contested>>
        /\ \A s \in Revokers : s # t => task'[s] = task[s]
    BY <1>5, <1>r DEF Abandon, Return, IdleTask
  <2>2. ASSUME NEW i \in Jtis, i \notin contested PROVE KeptFor(i)'
    BY <2>1, <2>2 DEF KeptFor, Has, Revoking
  <2>3. QED BY <2>1, <2>2
<1>6. ASSUME NEW t \in Refreshers, Load(t) PROVE Kept'
  <2>1. /\ \A s \in Revokers : task'[s] = task[s]
        /\ UNCHANGED <<now, mem, store, acked, contested>>
    BY <1>6, <1>r DEF Load, Step
  <2>2. QED
    BY <2>1 DEF KeptFor, Has, Revoking
<1>7. ASSUME (\A i \in Jtis : mem[i] > now => mem'[i] >= mem[i]),
             (\A s \in Revokers : task'[s] = task[s]),
             UNCHANGED <<now, store, acked, contested>>
      PROVE  Kept'
  <2>1. ASSUME NEW i \in Jtis, NEW e \in Nat, Has(mem, i, e) PROVE Has(mem', i, e)
    BY <1>7, <2>1, <1>n DEF Has
  <2>2. ASSUME NEW i \in Jtis, i \notin contested PROVE KeptFor(i)'
    <3>1. KeptFor(i) /\ acked[i] \in Nat /\ \A s \in Revokers : task[s].exp \in Nat
      BY <2>2, <1>m, <1>n, <1>r
    <3>2. Has(mem', i, acked[i]) /\ \A s \in Revokers : Revoking(s, i) => Has(mem', i, task[s].exp)
      BY <2>1, <3>1 DEF KeptFor
    <3>3. QED
      BY <1>7, <3>1, <3>2 DEF KeptFor, Has, Revoking
  <2>3. QED BY <1>7, <2>2
<1>8. ASSUME NEW t \in Refreshers, Merge(t) PROVE Kept'
  <2>1. \A s \in Revokers : task'[s] = task[s]
    BY <1>8, <1>r DEF Merge, Return
  <2>2. \A i \in Jtis : mem[i] > now => mem'[i] >= mem[i]
    BY <1>8, <1>m, <1>r, MergedFacts DEF Merge
  <2>3. QED
    BY <1>7, <1>8, <2>1, <2>2 DEF Merge
<1>9. CASE IsRevoked
  <2>1. \A i \in Jtis : mem[i] > now => mem'[i] >= mem[i]
    BY <1>9, <1>n, PruneFacts DEF IsRevoked
  <2>2. QED
    BY <1>7, <1>9, <2>1 DEF IsRevoked
<1>10. CASE Tick
  <2>1. now' = now + 1 /\ UNCHANGED <<mem, store, task, acked, contested>>
    BY <1>10 DEF Tick
  <2>2. ASSUME NEW i \in Jtis, i \notin contested PROVE KeptFor(i)'
    BY <2>1, <2>2, <1>m, <1>n, <1>r DEF KeptFor, Has, Revoking
  <2>3. QED BY <2>1, <2>2
<1>11. CASE Restart
  <2>1. \A i \in Jtis : store[i] > now => mem'[i] = store[i]
    BY <1>11, PruneFacts DEF Restart
  <2>2. UNCHANGED <<now, store, acked, contested>> /\ \A t \in Revokers : task'[t].st = "idle"
    BY <1>11, <1>r DEF Restart, IdleTask
  <2>3. ASSUME NEW i \in Jtis, i \notin contested PROVE KeptFor(i)'
    <3>1. Has(store, i, acked[i]) /\ Has(mem', i, acked[i])
      BY <2>1, <2>3, <1>n DEF KeptFor, Has
    <3>2. QED
      BY <2>2, <3>1 DEF KeptFor, Has, Revoking
  <2>4. QED
    BY <2>2, <2>3
<1>12. CASE UNCHANGED vars
  BY <1>12 DEF vars, KeptFor, Has, Revoking
<1>13. QED
  BY <1>1, <1>2, <1>3, <1>4, <1>5, <1>6, <1>8, <1>9, <1>10, <1>11, <1>12 DEF Next

(* Whatever Revoke RPCs overlap, and whatever reloads, crashes, abandoned  *)
(* writes and lookups come after it, an acknowledged revocation is in the  *)
(* backend's copy and is enforced until the expiry it named, unless it met *)
(* a map on its way or a caller gave an earlier expiry (AckedKept; persist *)
(* and insert of revocation.rs).                                           *)
THEOREM AckedKeptHolds == Spec => []AckedKept
<1>1. Kept => AckedKept
  BY DEF Kept, KeptFor, Has, AckedKept
<1>2. QED
  BY <1>1, KeptInit, KeptNext, TypeCorrect, PTL DEF Spec

-----------------------------------------------------------------------------
(* What a process remembers. *)

(* One step removes and shortens nothing that is live unless it inserts    *)
(* that very token: merging takes the longer of the two, pruning and the   *)
(* clock spare what has not expired.                                       *)
LEMMA StepKeeps ==
  ASSUME TypeOK, [Next]_vars, boots' = boots, NEW j \in Jtis, mem[j] > now'
  PROVE  mem'[j] >= mem[j] \/ Overwritten(j)
<1> USE DEF TypeOK
<1>m. \A t \in Refreshers : task[t].map \in Entries
  BY DEF Task, Tasks
<1>1. ASSUME NEW t \in Revokers, Revoke(t) PROVE mem'[j] >= mem[j] \/ Overwritten(j)
  <2>1. PICK i \in Jtis : \E e \in Expiries[i] : e > now /\ Insert(t, i, e)
    BY <1>1 DEF Revoke
  <2>2. PICK e \in Expiries[i] : e > now /\ Insert(t, i, e)
    BY <2>1
  <2>3. CASE i = j
    <3>1. task'[t].st = "inserted" /\ task'[t].jti = j /\ task'[t].exp = e /\ mem'[j] = e
      BY <2>2, <2>3 DEF Insert, Task, Tasks
    <3>2. QED BY <1>1, <3>1 DEF Overwritten, Revoke
  <2>4. CASE i # j
    BY <2>2, <2>4 DEF Insert
  <2>5. QED BY <2>3, <2>4
<1>2. ASSUME NEW t \in Refreshers, Merge(t) PROVE mem'[j] >= mem[j]
  BY <1>2, <1>m, MergedFacts DEF Merge
<1>3. CASE IsRevoked
  BY <1>3, PruneFacts DEF IsRevoked
<1>4. CASE Restart
  BY <1>4 DEF Restart
<1>5. CASE mem' = mem
  BY <1>5
<1>6. QED
  BY <1>1, <1>2, <1>3, <1>4, <1>5
     DEF Next, vars, Snapshot, PutLands, Acknowledge, Abandon, Load, Tick

(* While a process lives, no reload, lookup, failed write or revocation of *)
(* another token removes or shortens an entry that has not expired,        *)
(* however they overlap (merge_from, is_revoked of revocation.rs).         *)
THEOREM EntriesKept == Spec => LiveEntriesKept
<1>1. TypeOK /\ [Next]_vars
        => [boots' = boots =>
              \A j \in Jtis : mem[j] > now' => mem'[j] >= mem[j] \/ Overwritten(j)]_vars
  BY StepKeeps
<1>2. QED
  BY <1>1, TypeCorrect, PTL DEF Spec, LiveEntriesKept
=============================================================================

------------------------------ MODULE Serving ------------------------------
(***************************************************************************)
(* Long-lived answers while the broker changes underneath: watch, X.509,   *)
(* bundle and SDS streams across reloads and rotations, the event bus, the *)
(* readiness cache, the audit writer across a log rotation, and the two    *)
(* judgements every answer rests on, the subject of a caller and the       *)
(* loading of a policy.  A run plays one scene at a time.                  *)
(***************************************************************************)
EXTENDS Catalog

Ext == INSTANCE SequencesExt

CONSTANTS
  Scenes,         \* which scenes may be played
  Generations,    \* name -> [catalog, policy, groups]: what a reload may bring in
  First,          \* the name of the generation served at start-up
  KeyOrder,       \* the catalog's keys, all of them issuers, in name order
  Kinds,          \* the streams that may be opened
  Peer,           \* the caller's credentials
  Wanted,         \* a watcher's event kinds, empty for all
  Capacity,       \* of the event channel
  QueueCapacity,  \* of the audit queue
  Cases,          \* [subjects, full, hidden, key]: callers to resolve
  Files,          \* [catalog, raw, accounts, strictness]: files to load
  Probes,         \* key names no policy mentions
  MaxReloads, MaxEvents, MaxFaults, MaxTicks

(* A reload that changes a key's class or type, or adds or removes a key,  *)
(* needs a restart (reload.rs routing_shape), so the generations that may  *)
(* follow each other agree on them.                                        *)
ASSUME ServingAssumption ==
  /\ First \in DOMAIN Generations /\ Capacity \in Nat
  /\ \A g \in DOMAIN Generations : IsFiniteSet(DOMAIN Generations[g].catalog.keys)
  /\ \A g, h \in DOMAIN Generations :
       /\ DOMAIN Generations[g].catalog.keys = DOMAIN Generations[h].catalog.keys
       /\ \A k \in DOMAIN Generations[g].catalog.keys :
            /\ Generations[g].catalog.keys[k].class = Generations[h].catalog.keys[k].class
            /\ Generations[g].catalog.keys[k].type = Generations[h].catalog.keys[k].type

(* The subjects of a caller's policy are compiled, the evidence of a       *)
(* caller has every field of the snapshot, and a probe is a name whose     *)
(* first segment begins no target of the file at hand.                     *)
ASSUME JudgementAssumption ==
  /\ \A x \in Cases :
       /\ DOMAIN x.full = SnapshotFields
       /\ \A s \in DOMAIN x.subjects : LET e == x.subjects[s].match IN
            /\ Len(e) \in Nat /\ DOMAIN e = 1..Len(e) /\ WellFormed(e)
            /\ \A i \in DOMAIN e : e[i].op = "leaf" => e[i].pred.on \in Predicates
  /\ \A x \in Files :
       /\ \A i \in DOMAIN x.raw.rules : x.raw.rules[i].target \subseteq Seq(STRING)
       /\ \E key \in Probes : key # << >> /\ key \in Seq(STRING) /\ \A i \in DOMAIN x.raw.rules :
            \A g \in x.raw.rules[i].target : g # << >> => g[1] # key[1]

VARIABLES
  scene,
  hist,     \* the generations served so far; the last one serves
  lock,     \* live_reload_lock is held by a reload
  log,      \* events published, each with the generation then serving
  vers,     \* latest version of an issuer key
  busy,     \* keys whose rotation has not published its event
  st,       \* the stream
  rd,       \* readiness: the probe under way, the cache, the replies
  au,       \* audit: queue, flag, writer, file at the path
  who,      \* the subject resolution under examination
  faults    \* budget spent on failures

servingVars == <<scene, hist, lock, log, vers, busy, st, rd, au, who, faults>>

-----------------------------------------------------------------------------
(* Generations and what they allow. *)

(* g is the name of a generation. *)
Catalogue(g) == Generations[g].catalog
Rules(g) == Generations[g].policy
(* Host listeners admit every subject, couriers none; streams run on hosts. *)
EnforceListenerDomain(listener) == listener = "host"
Caller(g) == ResolveLocalActor(Rules(g).subjects, Generations[g].groups, Peer)
CallerActor(g) == ResolveSubjectActor(Rules(g), CHOOSE s \in Caller(g).who : TRUE)
Authorize(g, op, key) ==
  Caller(g).ok /\ EnforceListenerDomain("host") /\ Decide(Catalogue(g), Rules(g), CallerActor(g), op, key)

Entry(g, k) == Catalogue(g).keys[k]
TrustDomain(e) == Label(e, "trust_domain")
IsX509SvidIssuer(e) == e.class = "asym" /\ Label(e, "svid_kind") = "x509" /\ TrustDomain(e) # NoValue
IsJwtSvidIssuer(e) ==
  e.class = "asym" /\ Label(e, "svid_kind") = "jwt" /\ TrustDomain(e) # NoValue /\ e.type \in SvidProfile
IsIssuer(kind, e) == IF kind \in {"jwt", "jwtb"} THEN IsJwtSvidIssuer(e) ELSE IsX509SvidIssuer(e)
Issuers(g, kind) == {k \in DOMAIN Catalogue(g).keys : IsIssuer(kind, Entry(g, k))}
FirstByName(keys) == KeyOrder[CHOOSE i \in DOMAIN KeyOrder :
                        KeyOrder[i] \in keys /\ \A j \in 1..(i - 1) : KeyOrder[j] \notin keys]

(* A plan is the keys it will read; no key at all is a refusal. *)
FirstGranted(keys) == IF keys = {} THEN {} ELSE {FirstByName(keys)}
X509IssuePlan(g) == FirstGranted({k \in Issuers(g, "x509") : Authorize(g, "Mint", k)})
(* FetchJWTSVID knows the caller by its uid alone and names no listener. *)
JwtIssuer(g) ==
  LET r == ResolveUnixActor(Rules(g).subjects, Generations[g].groups, Peer.uid)
  IN FirstGranted({k \in Issuers(g, "jwt") :
       r.ok /\ \E s \in r.who : Decide(Catalogue(g), Rules(g), ResolveSubjectActor(Rules(g), s), "Mint", k)})
(* Bundles are public: any resolved caller gets every publisher's. *)
BundlePlan(g, kind) ==
  IF Caller(g).ok /\ EnforceListenerDomain("host") THEN Issuers(g, kind) ELSE {}
(* Every requested certificate must be mintable, a validation context is   *)
(* public; here the caller asks for everything.                            *)
SdsCertificates(g) == {k \in Issuers(g, "sds") : Label(Entry(g, k), "sds_certificate") # NoValue}
SdsContexts(g) == {k \in Issuers(g, "sds") : Label(Entry(g, k), "sds_validation_context") # NoValue}
SdsResourcePlans(g) ==
  IF Caller(g).ok /\ \A k \in SdsCertificates(g) : Authorize(g, "Mint", k)
  THEN SdsCertificates(g) \cup SdsContexts(g) ELSE {}
WatchPlan(g) ==
  IF Caller(g).ok /\ DecideAdmin(Rules(g), CallerActor(g), "Watch") THEN {AdminTarget["Watch"]} ELSE {}
PlanOf(kind, g) ==
  CASE kind = "watch" -> WatchPlan(g)
    [] kind = "x509" -> X509IssuePlan(g)
    [] kind \in {"sds", "fetch"} -> SdsResourcePlans(g)
    [] kind = "jwt" -> JwtIssuer(g)
    [] OTHER -> BundlePlan(g, kind)
(* A generation as a stream of the kind meets it. *)
View(kind, g) ==
  [name |-> g, plan |-> PlanOf(kind, g),
   domain |-> [k \in DOMAIN Catalogue(g).keys |-> TrustDomain(Entry(g, k))],
   sees |-> {k \in DOMAIN Catalogue(g).keys : Caller(g).ok /\ Visible(Catalogue(g), Rules(g), CallerActor(g), k)}]
Views == [kind \in Kinds |-> [g \in DOMAIN Generations |-> View(kind, g)]]

-----------------------------------------------------------------------------
(* Events: on a key and its new version, or on a trust domain; gen is the  *)
(* generation that served when it was published.                           *)

Gen == Len(hist)
LoadGeneration == Gen
EventKindSelected(e) == Wanted = {} \/ e.kind \in Wanted
EventAllowed(g, e) == EventKindSelected(e) /\ (e.kind = "rotated" => e.on \in hist[g].sees)
Refreshes(plan, e) ==
  \E k \in plan.keys : IF e.kind = "rotated" THEN e.on = k ELSE e.on = hist[plan.gen].domain[k]
Publish(events) == log' = log \o events
Event(kind, on, n) == [kind |-> kind, on |-> on, n |-> n, gen |-> Gen]

SpiffeBundlePublishers(c) ==
  [k \in {k \in DOMAIN c.keys : Label(c.keys[k], "svid_kind") \in {"jwt", "x509"}
                                 /\ TrustDomain(c.keys[k]) # NoValue} |->
     <<Label(c.keys[k], "svid_kind"), TrustDomain(c.keys[k])>>]
BundleChangedTrustDomains(old, new) ==
  LET a == SpiffeBundlePublishers(old)
      b == SpiffeBundlePublishers(new)
  IN IF a = b THEN {} ELSE {a[k][2] : k \in DOMAIN a} \cup {b[k][2] : k \in DOMAIN b}
Changed == [g \in DOMAIN Generations |-> [h \in DOMAIN Generations |->
              Ext!SetToSeq(BundleChangedTrustDomains(Catalogue(g), Catalogue(h)))]]

-----------------------------------------------------------------------------
(* The broker: reloads, rotations, revocations. *)

Plays(x) == scene = x
(* Nothing happens to the broker once the stream has ended: a bound. *)
Live == scene = "stream" /\ st.at # "ended"
Listening == Live /\ st.kind \in {"watch", "x509", "x509b", "jwtb"}
Reloads == Live \/ Plays("ready")
ReloadBegin ==
  /\ Reloads /\ ~lock /\ Gen < MaxReloads + 1
  /\ lock' = TRUE
  /\ UNCHANGED <<scene, hist, log, vers, busy, st, rd, au, who, faults>>
(* The swap and the events it publishes, inside the transition. *)
ReloadCommit ==
  /\ Reloads /\ lock /\ Gen < MaxReloads + 1
  /\ \E next \in DOMAIN Generations :
       LET domains == Changed[hist[Gen].name][next]
       IN /\ hist' = Append(hist, Views[st.kind][next])
          /\ Len(log) + Len(domains) <= MaxEvents
          /\ Publish([i \in DOMAIN domains |-> [Event("bundle", domains[i], 0) EXCEPT !.gen = Gen + 1]])
  /\ lock' = FALSE
  /\ UNCHANGED <<scene, vers, busy, st, rd, au, who, faults>>
ReloadFail ==
  /\ Reloads /\ lock /\ faults < MaxFaults
  /\ lock' = FALSE /\ faults' = faults + 1
  /\ UNCHANGED <<scene, hist, log, vers, busy, st, rd, au, who>>
(* RotateSecret: the backend's new version, then the event. *)
Rotate(k) ==
  /\ Listening /\ k \notin busy /\ vers[k] < 2 /\ Len(log) + Cardinality(busy) < MaxEvents
  /\ vers' = [vers EXCEPT ![k] = @ + 1] /\ busy' = busy \cup {k}
  /\ UNCHANGED <<scene, hist, lock, log, st, rd, au, who, faults>>
Announce(k) ==
  /\ k \in busy /\ busy' = busy \ {k} /\ Publish(<<Event("rotated", k, vers[k])>>)
  /\ UNCHANGED <<scene, hist, lock, vers, st, rd, au, who, faults>>
(* The call is dropped between the two: no event ever says so. *)
RotateDropped(k) ==
  /\ k \in busy /\ faults < MaxFaults /\ faults' = faults + 1 /\ busy' = busy \ {k}
  /\ UNCHANGED <<scene, hist, lock, log, vers, st, rd, au, who>>
Revoked(d) ==
  /\ Listening /\ Len(log) + Cardinality(busy) < MaxEvents /\ Publish(<<Event("revoked", d, 0)>>)
  /\ UNCHANGED <<scene, hist, lock, vers, busy, st, rd, au, who, faults>>

-----------------------------------------------------------------------------
(* A stream.  from is the bus position of its subscription, pos the next   *)
(* event's, got what the response under way holds, out what was sent, told *)
(* the positions a watcher was told.                                       *)

NoOut == [plan |-> [gen |-> 0, keys |-> {}], got |-> << >>]
Fresh(kind) == [kind |-> kind, at |-> "new", plan |-> NoOut.plan, from |-> 0, pos |-> 0,
                got |-> << >>, out |-> NoOut, told |-> {}]
Streaming(kind) == kind \in {"watch", "x509", "x509b", "jwtb", "sds"}
To(at) == st' = [st EXCEPT !.at = at]
Ended == [st EXCEPT !.at = "ended"]
Delivered == [st EXCEPT !.out = [plan |-> st.plan, got |-> st.got], !.got = << >>, !.at = "wait"]
Steady == UNCHANGED <<scene, hist, lock, log, vers, busy, rd, au, who, faults>>
Refused(plan) == plan.keys = {}
(* Make a plan in the serving generation, or end with its refusal. *)
Replanned(s, at) ==
  LET plan == [gen |-> LoadGeneration, keys |-> hist[LoadGeneration].plan]
  IN IF Refused(plan) THEN [s EXCEPT !.at = "ended"] ELSE [s EXCEPT !.plan = plan, !.at = at, !.got = << >>]

(* The handler: authorize, then subscribe; SDS and unary calls do neither  *)
(* again until they answer.                                                *)
Open ==
  /\ Live /\ st.at = "new"
  /\ st' = Replanned(st, IF st.kind \in {"sds", "jwt", "fetch"} THEN "issue" ELSE "subscribe")
  /\ Steady
Subscribe ==
  /\ st.at = "subscribe"
  /\ st' = [st EXCEPT !.from = Len(log), !.pos = Len(log),
                      !.at = IF st.kind = "watch" THEN "wait" ELSE "issue"]
  /\ Steady
(* One backend call per planned key. *)
Issue(k) ==
  /\ st.at = "issue" /\ k \in st.plan.keys \ DOMAIN st.got
  /\ st' = [st EXCEPT !.got = [x \in {k} \cup DOMAIN st.got |-> IF x = k THEN vers[k] ELSE st.got[x]],
                      !.at = IF st.plan.keys \subseteq {k} \cup DOMAIN st.got THEN "answer" ELSE "issue"]
  /\ Steady
IssueFails ==
  /\ st.at = "issue" /\ faults < MaxFaults /\ faults' = faults + 1
  /\ To(IF Streaming(st.kind) /\ st.kind # "sds" THEN "error" ELSE "ended")
  /\ UNCHANGED <<scene, hist, lock, log, vers, busy, rd, au, who>>
(* A response leaves only under the reload lock and in the generation it   *)
(* was planned in; otherwise it is dropped and planned again.              *)
Current_Unchecked == TRUE
Current == st.plan.gen = Gen
Answer ==
  /\ st.at \in {"answer", "error"} /\ Streaming(st.kind) /\ ~lock
  /\ st' = CASE Current /\ st.at = "answer" -> Delivered
             [] Current /\ st.at = "error" -> Ended
             [] OTHER -> Replanned(st, "issue")
  /\ Steady
UnaryAnswer ==
  /\ st.at = "answer" /\ ~Streaming(st.kind)
  /\ st' = [st EXCEPT !.out = [plan |-> st.plan, got |-> st.got], !.at = "ended"]
  /\ Steady
(* The next event of an SVID or bundle stream. *)
Behind == st.pos < Len(log) - Capacity
Receive ==
  /\ st.at = "wait" /\ st.kind \in {"x509", "x509b", "jwtb"} /\ ~Behind /\ st.pos < Len(log)
  /\ LET s == IF st.plan.gen # Gen THEN Replanned(st, "wait") ELSE st
         e == log[st.pos + 1]
     IN st' = [s EXCEPT !.pos = st.pos + 1,
                        !.at = IF s.at = "wait" /\ Refreshes(s.plan, e) THEN "issue" ELSE s.at]
  /\ Steady
OnLag_Ignored(kind) == "wait"
OnLag(kind) == CASE kind = "watch" -> "ended" [] kind = "x509" -> "wait" [] OTHER -> "issue"
Lagged ==
  /\ st.at = "wait" /\ st.kind # "sds" /\ Behind
  /\ st' = [st EXCEPT !.pos = Len(log) - Capacity, !.at = OnLag(st.kind)]
  /\ Steady
(* Half the lifetime of an SVID has passed, or Envoy asks again. *)
Refresh == st.at = "wait" /\ st.kind = "x509" /\ To("issue") /\ Steady
Request == st.at = "wait" /\ st.kind = "sds" /\ st' = Replanned(st, "issue") /\ Steady
(* A watcher takes an event, and judges it under the lock. *)
WatchReceive ==
  /\ st.at = "wait" /\ st.kind = "watch" /\ ~Behind /\ st.pos < Len(log)
  /\ st' = [st EXCEPT !.pos = @ + 1, !.at = "deliver"]
  /\ Steady
WatchDeliver ==
  /\ st.at = "deliver" /\ ~lock
  /\ LET s == IF ~Current THEN Replanned(st, "wait") ELSE [st EXCEPT !.at = "wait"]
     IN st' = IF s.at = "wait" /\ EventAllowed(Gen, log[st.pos])
              THEN [s EXCEPT !.told = @ \cup {st.pos}, !.out = [plan |-> s.plan, got |-> << >>]] ELSE s
  /\ Steady

(* The handlers. *)
IssueSvid == \E k \in DOMAIN vers : Issue(k)
IssueBundles == \E k \in DOMAIN vers : Issue(k)
IssueSecrets == \E k \in DOMAIN vers : Issue(k)
FetchX509Svid ==
  st.kind = "x509" /\ (Open \/ Subscribe \/ IssueSvid \/ IssueFails \/ Answer \/ Receive \/ Lagged \/ Refresh)
FetchX509Bundles ==
  st.kind = "x509b" /\ (Open \/ Subscribe \/ IssueBundles \/ IssueFails \/ Answer \/ Receive \/ Lagged)
FetchJwtBundles ==
  st.kind = "jwtb" /\ (Open \/ Subscribe \/ IssueBundles \/ IssueFails \/ Answer \/ Receive \/ Lagged)
StreamSecrets == st.kind = "sds" /\ (Open \/ IssueSecrets \/ IssueFails \/ Answer \/ Request)
FetchSecrets == st.kind = "fetch" /\ (Open \/ IssueSecrets \/ IssueFails \/ UnaryAnswer)
FetchJwtSvid == st.kind = "jwt" /\ (Open \/ IssueSvid \/ IssueFails \/ UnaryAnswer)
Watch == st.kind = "watch" /\ (Open \/ Subscribe \/ WatchReceive \/ WatchDeliver \/ Lagged)
StreamNext ==
  \/ \E k \in DOMAIN vers : Rotate(k) \/ Announce(k) \/ RotateDropped(k)
  \/ \E k \in DOMAIN vers : Revoked(hist[1].domain[k])
  \/ FetchX509Svid \/ FetchX509Bundles \/ FetchJwtBundles \/ StreamSecrets \/ FetchSecrets \/ FetchJwtSvid
  \/ Watch

-----------------------------------------------------------------------------
(* Readiness.  A verdict is known by the generation whose missing policies *)
(* classified it; the cache holds it with the generation read afterwards.  *)

NoCache == [tag |-> 0, verdict |-> 0]
CachedReadiness == IF rd.cache.tag = Gen THEN rd.cache ELSE NoCache
Probing(p, at, verdict) == rd' = [rd EXCEPT !.probe[p] = [at |-> at, verdict |-> verdict]]
Still == UNCHANGED <<scene, hist, lock, log, vers, busy, st, au, who>>
(* A cached verdict answers at once; otherwise manager.check() is awaited. *)
ReadinessCached(p) ==
  /\ Plays("ready") /\ rd.probe[p].at = "idle" /\ CachedReadiness # NoCache
  /\ rd' = [rd EXCEPT !.served = [verdict |-> rd.cache.verdict, active |-> Gen]]
  /\ Still /\ UNCHANGED faults
ReadinessCheck(p) ==
  /\ Plays("ready") /\ rd.probe[p].at = "idle" /\ CachedReadiness = NoCache /\ rd.asked < MaxTicks
  /\ rd' = [rd EXCEPT !.probe[p].at = "check", !.asked = @ + 1] /\ Still /\ UNCHANGED faults
ReadinessClassify(p) ==
  /\ rd.probe[p].at = "check" /\ Probing(p, "cache", LoadGeneration) /\ Still /\ UNCHANGED faults
CacheReadiness(p) ==
  /\ rd.probe[p].at = "cache"
  /\ rd' = [rd EXCEPT !.cache = [tag |-> Gen, verdict |-> rd.probe[p].verdict],
                      !.probe[p] = [at |-> "idle", verdict |-> 0]]
  /\ Still /\ UNCHANGED faults
CacheExpires == Plays("ready") /\ rd.cache # NoCache /\ rd' = [rd EXCEPT !.cache = NoCache] /\ Still /\ UNCHANGED faults
ReadyNext ==
  (\E p \in DOMAIN rd.probe :
     ReadinessCached(p) \/ ReadinessCheck(p) \/ ReadinessClassify(p) \/ CacheReadiness(p)) \/ CacheExpires

-----------------------------------------------------------------------------
(* The audit writer.  A file is known by a number; at is the file at the   *)
(* configured path, 0 when log rotation has moved it away.  asked: a       *)
(* reopen was requested after the last move.                               *)

Calm == UNCHANGED <<scene, hist, lock, log, vers, busy, st, rd, who>>
Sent(cmd) == IF au.up /\ Len(au.q) < QueueCapacity THEN Append(au.q, cmd) ELSE au.q
AuditAppend ==
  /\ Plays("audit") /\ au.n < MaxTicks
  /\ au' = [au EXCEPT !.q = Sent("line"), !.n = @ + 1] /\ Calm /\ UNCHANGED faults
(* External: logrotate renames the file, then signals; a file comes back   *)
(* when someone opens the path.                                            *)
LogMoved ==
  /\ Plays("audit") /\ au.at # 0 /\ au.files < MaxTicks
  /\ au' = [au EXCEPT !.at = 0, !.asked = FALSE] /\ Calm /\ UNCHANGED faults
RequestReopen ==
  /\ Plays("audit") /\ au.n < MaxTicks
  /\ au' = [au EXCEPT !.flag = TRUE, !.q = Sent("wake"), !.asked = TRUE, !.n = @ + 1] /\ Calm /\ UNCHANGED faults
(* maybe_reopen: take the flag, then open; a failure gives the flag back.  *)
(* The writer does it before it waits and again before it writes.          *)
MaybeReopen(then) ==
  au' = IF au.flag THEN [au EXCEPT !.flag = FALSE, !.pc = "open", !.then = then] ELSE [au EXCEPT !.pc = then]
WriterLoop == Plays("audit") /\ au.pc = "loop" /\ MaybeReopen("recv") /\ Calm /\ UNCHANGED faults
OpenAppend ==
  /\ au.pc = "open"
  /\ LET file == IF au.at = 0 THEN au.files + 1 ELSE au.at
     IN au' = [au EXCEPT !.handle = file, !.at = file, !.files = IF file > @ THEN file ELSE @, !.pc = au.then]
  /\ Calm /\ UNCHANGED faults
Rearm_Forgotten == FALSE
Rearm == TRUE
OpenFails ==
  /\ au.pc = "open" /\ faults < MaxFaults /\ faults' = faults + 1
  /\ au' = [au EXCEPT !.flag = @ \/ Rearm, !.pc = au.then] /\ Calm
WriterReceives ==
  /\ au.pc = "recv" /\ au.q # << >>
  /\ au' = [au EXCEPT !.q = Tail(@), !.pc = IF Head(au.q) = "line" THEN "line" ELSE "loop"]
  /\ Calm /\ UNCHANGED faults
WriterTimeout == au.pc = "recv" /\ au.q = << >> /\ au.up /\ au' = [au EXCEPT !.pc = "loop"] /\ Calm /\ UNCHANGED faults
WriterLine == au.pc = "line" /\ MaybeReopen("write") /\ Calm /\ UNCHANGED faults
WriteLine == au.pc = "write" /\ au' = [au EXCEPT !.pc = "loop"] /\ Calm /\ UNCHANGED faults
(* Shutdown drops the sender; the writer drains the queue and flushes. *)
AuditStop == Plays("audit") /\ au.up /\ au' = [au EXCEPT !.up = FALSE] /\ Calm /\ UNCHANGED faults
WriterEnds ==
  /\ au.pc = "recv" /\ au.q = << >> /\ ~au.up /\ au' = [au EXCEPT !.pc = "ended"] /\ Calm /\ UNCHANGED faults
AuditNext ==
  \/ AuditAppend \/ LogMoved \/ RequestReopen \/ WriterLoop \/ OpenAppend \/ OpenFails \/ WriterReceives
  \/ WriterTimeout \/ WriterLine \/ WriteLine \/ AuditStop \/ WriterEnds

-----------------------------------------------------------------------------
(* Judgements.  A caller is resolved on what the kernel gave of its full   *)
(* evidence; a policy file is loaded.                                      *)

Hide(full, hidden) == [f \in DOMAIN full |-> IF f \in hidden THEN Unknown ELSE full[f]]
Resolve(x) ==
  /\ who' = <<[case |-> x, known |-> ResolveEvidenceActor(x.subjects, Hide(x.full, x.hidden)),
               truth |-> ResolveEvidenceActor(x.subjects, x.full)]>>
  /\ UNCHANGED <<scene, hist, lock, log, vers, busy, st, rd, au, faults>>
LoadFiles(x) ==
  /\ LoadPair(x.catalog, x.raw, x.accounts) /\ EnforceCapabilities(x.catalog, x.strictness)
  /\ who' = <<Resolved(x.raw)>>
  /\ UNCHANGED <<scene, hist, lock, log, vers, busy, st, rd, au, faults>>

-----------------------------------------------------------------------------
ServingInit ==
  /\ scene \in Scenes /\ lock = FALSE /\ log = << >>
  /\ vers = [k \in Ext!ToSet(KeyOrder) |-> 1] /\ busy = {}
  /\ \E kind \in Kinds : st = Fresh(kind) /\ hist = <<Views[kind][First]>> /\ (scene # "stream" => kind = CHOOSE x \in Kinds : TRUE)
  /\ rd = [probe |-> [p \in 1..2 |-> [at |-> "idle", verdict |-> 0]], cache |-> NoCache,
            served |-> [verdict |-> 0, active |-> 0], asked |-> 0]
  /\ au = [q |-> << >>, flag |-> FALSE, pc |-> "loop", then |-> "loop", at |-> 1, handle |-> 1, files |-> 1,
            asked |-> FALSE, up |-> TRUE, n |-> 0]
  /\ who = << >> /\ faults = 0
ServingNext ==
  \/ ReloadBegin \/ ReloadCommit \/ ReloadFail
  \/ StreamNext \/ ReadyNext \/ AuditNext
  \/ (Plays("who") /\ who = << >> /\ \E x \in Cases : Resolve(x))
  \/ (Plays("load") /\ who = << >> /\ \E x \in Files : LoadFiles(x))
ServingSpec == ServingInit /\ [][ServingNext]_servingVars

-----------------------------------------------------------------------------
(* Properties. *)

(* Generation g lets the caller have what the plan names. *)
Grants(g, kind, plan) ==
  /\ hist[g].plan # {}
  /\ IF kind \in {"x509b", "jwtb"} THEN plan.keys = hist[g].plan ELSE plan.keys \subseteq hist[g].plan

(* Whatever a stream sends, its caller is entitled to it in the generation *)
(* that serves at that moment, although it was planned, and its keys read, *)
(* in an earlier one; a unary call answers in the generation it pinned.    *)
StreamAuthorized ==
  [][st'.out # st.out \/ st'.told # st.told =>
       Grants(IF Streaming(st.kind) THEN Gen ELSE st.plan.gen, st.kind, st'.out.plan)]_servingVars

(* A watcher that has not been cut off was told every event published      *)
(* since it subscribed, except what some generation since then hides from  *)
(* it.                                                                     *)
WatchComplete ==
  (st.kind = "watch" /\ st.at = "wait") =>
    \A i \in (st.from + 1)..st.pos :
      i \in st.told \/ \E g \in log[i].gen..Gen : ~EventAllowed(g, log[i])

(* The newest version of a key that an event announced, and the keys with  *)
(* their trust domains that a bundle of generation g is made of.           *)
Announced(k) ==
  LET ns == {log[i].n : i \in {j \in DOMAIN log : log[j].kind = "rotated" /\ log[j].on = k}}
  IN IF ns = {} THEN 1 ELSE CHOOSE n \in ns : \A m \in ns : m <= n
Publishers(g, keys) == {<<k, hist[g].domain[k]>> : k \in keys}

(* A bundle stream that has taken every event and is waiting last sent     *)
(* exactly the publishers of the serving generation, none with a version   *)
(* older than one announced.                                               *)
BundleCurrent ==
  (/\ st.kind \in {"x509b", "jwtb"} /\ st.at = "wait" /\ st.pos = Len(log)
   /\ hist[Gen].plan # {}) =>
    /\ Publishers(st.out.plan.gen, st.out.plan.keys) = Publishers(Gen, hist[Gen].plan)
    /\ \A k \in DOMAIN st.out.got : st.out.got[k] >= Announced(k)

(* A subscriber that is waiting has been told everything, or sees the      *)
(* newest bundle: neither lag nor a reload loses an event for it.          *)
SubscriberCurrent == WatchComplete /\ BundleCurrent

(* No verdict served from the cache was classified by a generation other   *)
(* than the serving one.                                                   *)
ReadinessCurrent == rd.served.verdict = rd.served.active

(* A reopen requested after the file was moved is never lost: the writer   *)
(* has the new file, is about to open it, or still sees the request.       *)
ReopenKept == (au.asked /\ au.pc # "ended") => au.flag \/ au.pc = "open" \/ (au.handle = au.at /\ au.at # 0)

(* A subject that is resolved on partial evidence is the subject the full  *)
(* evidence gives, for callers that bear no signature.                     *)
ResolutionConclusive ==
  (Plays("who") /\ who # << >> /\ who[1].known.ok /\ who[1].case.full.signature = Unknown) =>
    who[1].truth = who[1].known

(* No policy that loads gives a subject every key there could ever be,     *)
(* unless the subject is marked break-glass.                               *)
NoAccidentalRoot ==
  (Plays("load") /\ who # << >>) =>
    \A s \in DOMAIN who[1].subjects : who[1].subjects[s].glass
      \/ \E key \in Probes : \A op \in AllOps :
            ~Granted(who[1], [subject |-> s, domain |-> who[1].subjects[s].domain], op, key)

(* Neither missing evidence nor a wildcard gives a caller more than the    *)
(* policy means (evidence.rs evaluate_all, loader.rs matches_all).         *)
PolicySound == ResolutionConclusive /\ NoAccidentalRoot
=============================================================================

----------------------------- MODULE Federation -----------------------------
(***************************************************************************)
(* CI federation: the provider rules and what makes a catalog of them      *)
(* loadable, verification of a provider token against a rule, the key      *)
(* cache each generation keeps per rule, and the per-run quota table.      *)
(* Everything here is a function of its arguments; Invocation holds the    *)
(* state.                                                                  *)
(*                                                                         *)
(* Strings are members of small sets.  A malformed URL, PEM file, token or *)
(* document is one whose flag says so.                                     *)
(***************************************************************************)
EXTENDS Integers, Sequences, FiniteSets

CONSTANTS
  AgeLimit, SkewLimit, GrantLimit, \* bounds a rule's times must respect, in seconds
  MaxAge, StaleIfError, Cooldown,  \* JwksCachePolicy
  Buckets                          \* run-quota buckets tracked per rule

ASSUME FederationAssumption ==
  /\ {AgeLimit, SkewLimit, GrantLimit, MaxAge, StaleIfError, Cooldown} \subseteq Nat
  /\ Buckets \in Nat \ {0}

Never == -1   \* an absent time, count or quota

-----------------------------------------------------------------------------
(* Provider rules. *)

(* A rule of a ProviderCatalog.  who is the repository and owner of the    *)
(* workload with its workflow; for Forgejo also the ref, commit, run and   *)
(* attempt.  refs, events, runners and env narrow a GitHub rule; from and  *)
(* until are the window of a Forgejo grant.  pAge and pSkew are the times  *)
(* that the provider part repeats.                                         *)
RuleFields == {"id", "kind", "subject", "aud", "profiles", "targets", "quota", "age", "skew",
               "issuer", "urlsOk", "who", "refs", "events", "runners", "env",
               "from", "until", "pAge", "pSkew", "ca"}

UrlsOk(r) == r.urlsOk

TimesOk(age, skew) == age > 0 /\ age <= AgeLimit /\ skew <= SkewLimit

(* GitHub has one issuer; a Forgejo issuer is the Actions API root of an   *)
(* instance, which GitHub's is not.                                        *)
GithubRuleOk(r) ==
  /\ r.issuer = "github" /\ UrlsOk(r)
  /\ r.refs # {} /\ r.events # {} /\ r.runners # {}
  /\ TimesOk(r.pAge, r.pSkew)

ForgejoRuleOk(r) ==
  /\ r.issuer # "github" /\ UrlsOk(r)
  /\ r.from < r.until /\ r.until - r.from <= GrantLimit
  /\ TimesOk(r.pAge, r.pSkew)

ProviderOk(r) == IF r.kind = "github" THEN GithubRuleOk(r) ELSE ForgejoRuleOk(r)

(* validate_common_rule: a loaded rule grants the artifact-sign profile on *)
(* named targets, and has a quota.                                         *)
CommonRuleOk(r) ==
  /\ r.profiles # {} /\ "artifact-sign" \in r.profiles
  /\ r.targets # {}
  /\ TimesOk(r.age, r.skew)
  /\ r.quota \notin {Never, 0}

GithubOverlap(a, b) ==
  /\ a.who = b.who
  /\ a.refs \cap b.refs # {} /\ a.events \cap b.events # {} /\ a.runners \cap b.runners # {}
ForgejoOverlap(a, b) == a.who = b.who

(* Faulty form of RulesOverlap: the second provider is not compared. *)
RulesOverlap_GithubOnly(a, b) == a.kind = "github" /\ b.kind = "github" /\ GithubOverlap(a, b)

RulesOverlap(a, b) ==
  \/ a.kind = "github" /\ b.kind = "github" /\ GithubOverlap(a, b)
  \/ a.kind = "forgejo" /\ b.kind = "forgejo" /\ ForgejoOverlap(a, b)

(* with_experimental_providers: Forgejo is experimental and needs an opt-in. *)
CatalogOk(rules, experimental) ==
  /\ \A i \in DOMAIN rules :
       /\ CommonRuleOk(rules[i]) /\ ProviderOk(rules[i])
       /\ rules[i].kind = "forgejo" => "forgejo" \in experimental
       /\ rules[i].age = rules[i].pAge /\ rules[i].skew = rules[i].pSkew
  /\ \A i, k \in DOMAIN rules :
       i < k => rules[i].id # rules[k].id /\ ~RulesOverlap(rules[i], rules[k])

(* validate_artifact_targets: no target may need provider dispatch; one    *)
(* the catalog does not know is let through.                               *)
TargetsOk(rules, software) == \A i \in DOMAIN rules : rules[i].targets \cap software = {}

(* resolve_provider_trust and open_validated_ca_file: a CA file is pinned  *)
(* by its identity when every directory and the leaf are safe, it holds    *)
(* only certificates, and it did not change while it was read.             *)
Trust(r, files) == IF r.ca = "system" THEN Never ELSE files[r.ca].ident
TrustOk(r, files) == r.ca # "system" => files[r.ca].safe /\ files[r.ca].certsOnly

(* revalidate_trust: the path still names the file that was pinned. *)
TrustHolds(r, pinned, files) ==
  r.ca # "system" => files[r.ca].safe /\ files[r.ca].ident = pinned

-----------------------------------------------------------------------------
(* Tokens.  aud is the proof key that the audience names, sig whether the  *)
(* signature verifies under the key kid, who, ref, event, runner and env   *)
(* the workload it attests, run its run and attempt.                       *)

TokenFields == {"kid", "sig", "aud", "iss", "who", "ref", "event", "runner", "env",
                "iat", "nbf", "exp", "run", "oversized"}

ExactlyOneToken(tokens) == Len(tokens) = 1 /\ ~tokens[1].oversized

TimeValid(t, age, skew, now) ==
  /\ t.exp >= t.iat
  /\ t.iat <= now + skew /\ t.nbf <= now + skew
  /\ t.exp + skew >= now
  /\ now - t.iat <= age

(* The part verify_github and verify_forgejo share: an RS256 signature by  *)
(* a key of this generation's set, for this proof key, by this issuer.     *)
SignedFor(r, t, proof, kids) ==
  t.kid \in kids /\ t.sig /\ t.aud = proof /\ t.iss = r.issuer

VerifyGithub(r, t, proof, kids, now) ==
  /\ GithubRuleOk(r) /\ SignedFor(r, t, proof, kids)
  /\ t.who = r.who /\ t.ref \in r.refs /\ t.event \in r.events
  /\ t.runner \in r.runners /\ t.env = r.env
  /\ TimeValid(t, r.pAge, r.pSkew, now)

(* The grant's window is compared without skew; a token that presents an   *)
(* environment is refused.                                                 *)
VerifyForgejo(r, t, proof, kids, now) ==
  /\ ForgejoRuleOk(r) /\ SignedFor(r, t, proof, kids)
  /\ t.who = r.who /\ t.event = "push" /\ t.env = "none"
  /\ TimeValid(t, r.pAge, r.pSkew, now)
  /\ now >= r.from /\ now <= r.until

Verifies(r, t, proof, kids, now) ==
  IF r.kind = "github" THEN VerifyGithub(r, t, proof, kids, now)
                       ELSE VerifyForgejo(r, t, proof, kids, now)

(* validate_provider_envelope_authority: the request is for this broker,   *)
(* asks for a signature, and names one of the rule's targets outside its   *)
(* encrypted body.                                                         *)
EnvelopeOk(r, msg, audiences) ==
  /\ msg.aud = r.aud /\ r.aud \in audiences
  /\ msg.ctype = "sign" /\ "artifact-sign" \in r.profiles
  /\ msg.target \in r.targets

-----------------------------------------------------------------------------
(* The key cache of one rule in one generation. *)

EmptyCache == [kids |-> {}, full |-> FALSE, fetched |-> Never, attempt |-> Never]

(* GenerationJwks::parse: RSA signing keys only, and no key ID twice. *)
JwksOk(doc) ==
  /\ \A i \in DOMAIN doc : doc[i].rs256
  /\ \A i, j \in DOMAIN doc : doc[i].kid = doc[j].kid => i = j
Kids(doc) == {doc[i].kid : i \in DOMAIN doc}

MayRefresh(c, now) == c.attempt = Never \/ (now >= c.attempt /\ now - c.attempt >= Cooldown)
KeysFresh(c, now) == c.full /\ now >= c.fetched /\ now - c.fetched <= MaxAge
(* JwksCachePolicy: how long a fetched set may serve at all. *)
ServesFor == MaxAge + StaleIfError
(* Faulty form of WithinStale: a stale set is served without a bound. *)
WithinStale_Always(c, now) == c.full
WithinStale(c, now) == c.full /\ now >= c.fetched /\ now - c.fetched <= ServesFor

(* serve_or_revalidate, under the lock of the caches.  serve is the set to *)
(* verify with if no fetch succeeds; an admitted attempt is recorded       *)
(* before the fetch.                                                       *)
Serve(c, kid, now) ==
  IF c.full /\ kid \in c.kids /\ KeysFresh(c, now)
    THEN [fetch |-> FALSE, some |-> TRUE, serve |-> c.kids]
    ELSE [fetch |-> MayRefresh(c, now),
          some |-> c.full /\ kid \in c.kids /\ WithinStale(c, now),
          serve |-> c.kids]
Attempted(c, kid, now) ==
  IF Serve(c, kid, now).fetch THEN [c EXCEPT !.attempt = now] ELSE c

(* install: the set fetched by a request that began at time t. *)
InstallKeys(c, kids, t) ==
  IF c.fetched # Never /\ t < c.fetched THEN c
  ELSE [c EXCEPT !.kids = kids, !.full = TRUE, !.fetched = t]

-----------------------------------------------------------------------------
(* The per-run quota table. *)

(* A bucket counts one attempt of one run under one rule. *)
QuotaKey(rule, run) == [rule |-> rule, run |-> run]
QuotaDenied == {"exhausted", "unavailable", "untracked"}
EmptyQuota == [gen |-> Never, counters |-> << >>]

RuleBuckets(counters, rule) == Cardinality({k \in DOMAIN counters : k.rule = rule})
Keep(counters, keys) == [k \in keys |-> counters[k]]
Unexpired(counters, now) == {k \in DOMAIN counters : counters[k].expires > now}

(* A charge under a newer generation resets the counters; one from an      *)
(* older pinned generation counts against the current ones.                *)
Scoped(table, gen) ==
  IF table.gen # Never /\ gen > table.gen THEN [gen |-> gen, counters |-> << >>]
  ELSE [table EXCEPT !.gen = IF @ = Never THEN gen ELSE @]

HasRoom(b, limit) == b.count < limit

(* charge_with_receipt: the table after the charge and its result.         *)
Charge(table, gen, key, limit, retention, now) ==
  IF limit = Never THEN [table |-> table, result |-> "unavailable"]
  ELSE IF limit = 0 THEN [table |-> table, result |-> "exhausted"]
  ELSE
  LET tb == Scoped(table, gen)
      cs == tb.counters
      until == now + retention
      pressed == RuleBuckets(cs, key.rule) >= Buckets
      room == IF pressed THEN Keep(cs, Unexpired(cs, now)) ELSE cs
      fits == RuleBuckets(room, key.rule) < Buckets
      Later(b) == IF b.expires > until THEN b.expires ELSE until
  IN  IF key \in DOMAIN cs
        THEN LET b == [cs[key] EXCEPT !.expires = Later(cs[key])]
                 ok == HasRoom(b, limit)
             IN  [table |-> [tb EXCEPT !.counters =
                               [cs EXCEPT ![key] = IF ok THEN [b EXCEPT !.count = @ + 1] ELSE b]],
                  result |-> IF ok THEN "charged" ELSE "exhausted"]
        ELSE [table |-> [tb EXCEPT !.counters =
                IF fits THEN [k \in DOMAIN room \cup {key} |->
                                IF k = key THEN [count |-> 1, expires |-> until] ELSE room[k]]
                        ELSE room],
              result |-> IF fits THEN "charged" ELSE "untracked"]
=============================================================================

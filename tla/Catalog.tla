------------------------------ MODULE Catalog ------------------------------
(***************************************************************************)
(* The key catalog and the access policy as the loader accepts them, and   *)
(* the decision point over them.  A key name and a target are sequences of *)
(* segments.  An entry and a raw policy are records of what the loader     *)
(* tells apart; an optional field that is absent is NoValue.               *)
(***************************************************************************)
EXTENDS Evidence

CONSTANT NoValue    \* an absent optional field, a model value

-----------------------------------------------------------------------------
(* Schema. *)

Class == {"asym", "sym", "value", "public", "sealing"}
Engine == {"transit", "kv2", "pki"}
MissingPolicy == {"error", "warn", "generate"}
BackendKind == {"vault", "keystore", "aws", "gcp"}
Capability == {"byok-import", "prehash-sign", "pqc-transit", "pki-crl", "jwt-auth", "approle-auth", "other"}
Schnorr == {"ed25519", "ed25519-nkey"}
SvidProfile == {"rsa-2048", "ecdsa-p256", "ecdsa-p384"}
SealingTypes == {"x25519", "ml-kem-512", "ml-kem-768", "ml-kem-1024"}
AeadAlgorithms == {"aes-256-gcm", "chacha20-poly1305"}
KeyAlgorithm ==
  Schnorr \cup SvidProfile \cup SealingTypes \cup AeadAlgorithms
    \cup {"ecdsa-p521", "ml-dsa-44", "ml-dsa-65", "ml-dsa-87"}
NixCacheState == {"pending", "enrolled"}
GenerateSpec == {"ascii", "base64", "hex", "age", "tls", "tls-pair"}

(* Labels are a sequence of [name, value], a bare label has the value      *)
(* NoValue; the first of a name that has a value counts.                   *)
Label(e, name) ==
  LET hits == {i \in DOMAIN e.labels : e.labels[i].name = name /\ e.labels[i].value # NoValue}
  IN IF hits = {} THEN NoValue ELSE e.labels[CHOOSE i \in hits : \A j \in hits : i <= j].value
NatsType(e) == IF Label(e, "nats_type") \in {"O", "A", "U", "N", "C", "X"} THEN Label(e, "nats_type") ELSE NoValue

EffectiveEngine(e) ==
  IF e.engine # NoValue THEN e.engine
  ELSE IF e.class \in {"asym", "sym"} THEN "transit" ELSE "kv2"
IsMaterializeToUse(e) == e.class = "sealing" \/ (e.class = "asym" /\ EffectiveEngine(e) = "kv2")
IsCredentialIssuer(e) == NatsType(e) \in {"O", "A"} \/ Label(e, "svid_kind") \in {"jwt", "x509"}
RequiredCapability(type) == NoValue   \* no algorithm requires one today

-----------------------------------------------------------------------------
(* Validation of one key.  A LoadError is its name; the first one ends the *)
(* load, and "ok" is success.                                              *)

KeyErrors ==
  {"UnknownBackend", "BlankDescription", "MissingKeyType", "UnexpectedKeyType", "SealingKeyTypeNotX25519",
   "GenerateWithoutRecipe", "UnexpectedGenerate", "InvalidPkiPath", "Kv2SigningKeyTypeNotEd25519",
   "NonSpiffeJwtSvidAlg", "MissingPublicPath", "UnexpectedPublicPath", "UnexpectedSealingPin",
   "EmptySealingPin", "EmptyPinnedPartyIdentity", "InvalidNixCacheIdentity", "DuplicateReservedLabel",
   "InvalidReservedLabel", "BadKeyName"}
ValidateKeyName(e) == IF e.nameOk THEN "ok" ELSE "BadKeyName"
ValidateBackendRef(c, e) == IF e.backend \in DOMAIN c.backends THEN "ok" ELSE "UnknownBackend"
ValidateDescription(e) == IF e.described THEN "ok" ELSE "BlankDescription"
RequireKeyType(e) == IF e.type # NoValue THEN "ok" ELSE "MissingKeyType"
RequireSealingKeyType(e) ==
  IF e.type = NoValue THEN "MissingKeyType"
  ELSE IF e.type \in SealingTypes THEN "ok" ELSE "SealingKeyTypeNotX25519"
RejectKeyType(e) == IF e.type = NoValue THEN "ok" ELSE "UnexpectedKeyType"
ValidateKeyType(e) ==
  CASE e.class \in {"asym", "sym"} -> RequireKeyType(e)
    [] e.class = "sealing" -> RequireSealingKeyType(e)
    [] e.class = "value" -> RejectKeyType(e)
    [] OTHER -> "ok"
ValidateGenerate(e) ==
  IF e.class \in {"value", "public"}
  THEN IF e.missing = "generate" /\ e.gen = NoValue THEN "GenerateWithoutRecipe" ELSE "ok"
  ELSE IF e.gen = NoValue THEN "ok" ELSE "UnexpectedGenerate"
(* A kv2 signing key must be ed25519; a PKI path is pki.../issue/role. *)
ValidateEngine(e) ==
  IF e.class = "asym" /\ e.engine = "kv2"
  THEN IF e.type \in {"ed25519", NoValue} THEN "ok" ELSE "Kv2SigningKeyTypeNotEd25519"
  ELSE IF e.engine = "pki" => (e.class = "asym" /\ e.path = "issue") THEN "ok" ELSE "InvalidPkiPath"
ValidateJwtSvidIssuerAlg(e) ==
  IF Label(e, "svid_kind") = "jwt" => e.type \in SvidProfile \cup {NoValue}
  THEN "ok" ELSE "NonSpiffeJwtSvidAlg"
ValidatePublicPath(e) ==
  IF IsMaterializeToUse(e)
  THEN IF e.public \notin {NoValue, "blank"} THEN "ok" ELSE "MissingPublicPath"
  ELSE IF e.public = NoValue THEN "ok" ELSE "UnexpectedPublicPath"
(* A pin is absent, the set of its configured parts, and perhaps a blank party. *)
ValidateSealingPin(e) ==
  IF e.pin = NoValue THEN "ok"
  ELSE IF e.class # "sealing" THEN "UnexpectedSealingPin"
  ELSE IF e.pin = {} THEN "EmptySealingPin"
  ELSE IF "blank" \in e.pin THEN "EmptyPinnedPartyIdentity" ELSE "ok"
ValidNixCacheKeyName(n) == n # "bad"
ValidateNixCacheIdentity(c, e) ==
  IF \/ e.nix = NoValue
     \/ /\ e.class = "asym" /\ e.type = "ed25519" /\ EffectiveEngine(e) = "transit"
        /\ e.path # "blank" /\ e.missing # "generate"
        /\ c.backends[e.backend].kind = "vault"
        /\ e.nix.version = 1 /\ ValidNixCacheKeyName(e.nix.name)
        /\ (e.nix.state = "enrolled") = e.nix.pinned
  THEN "ok" ELSE "InvalidNixCacheIdentity"

ReservedLabels ==
  [crypto_provider |-> {"vault-transit", "local-software"},
   pqc_algorithm |-> {"ml-dsa-44", "ml-dsa-65", "ml-dsa-87", "ml-kem-512", "ml-kem-768", "ml-kem-1024"},
   pqc_custody |-> {"backend-native", "software-encrypted"},
   crypto_provider_policy |-> {"backend-preferred", "backend-required", "local-software"},
   broker_key_use |-> {"response-signing", "request-encryption", "response-encryption"}]
FreeReserved == {"crypto_provider_version", "migration_target", "pqc_storage_key"}
IsReservedLabel(n) == n \in DOMAIN ReservedLabels \cup FreeReserved
RecordReservedLabel(e, i) ==
  IF \A j \in 1..(i - 1) : e.labels[j].name # e.labels[i].name THEN "ok" ELSE "DuplicateReservedLabel"
ValidateReservedLabelValue(l) ==
  IF IF l.name \in FreeReserved THEN l.value # "blank" ELSE l.value \in ReservedLabels[l.name]
  THEN "ok" ELSE "InvalidReservedLabel"
ValidateReservedLabel(e, i) ==
  IF ~IsReservedLabel(e.labels[i].name) THEN "ok"
  ELSE IF e.labels[i].value = NoValue THEN "InvalidReservedLabel"
  ELSE IF RecordReservedLabel(e, i) # "ok" THEN RecordReservedLabel(e, i)
  ELSE ValidateReservedLabelValue(e.labels[i])

FirstError(results) ==
  LET bad == {i \in DOMAIN results : results[i] # "ok"}
  IN IF bad = {} THEN "ok" ELSE results[CHOOSE i \in bad : \A j \in bad : i <= j]
ValidateReservedLabels(e) == FirstError([i \in DOMAIN e.labels |-> ValidateReservedLabel(e, i)])
WarnMissingNatsType(e) == e.type = "ed25519-nkey" /\ NatsType(e) = NoValue

ValidateKey(c, e) ==
  IF ValidateKeyName(e) # "ok" THEN "BadKeyName"
  ELSE IF ValidateBackendRef(c, e) # "ok" THEN "UnknownBackend"
  ELSE FirstError(<<ValidateDescription(e), ValidateKeyType(e), ValidateGenerate(e),
                    ValidateEngine(e), ValidateJwtSvidIssuerAlg(e), ValidatePublicPath(e),
                    ValidateSealingPin(e), ValidateNixCacheIdentity(c, e), ValidateReservedLabels(e)>>)

(* No two keys publish under one Nix key name. *)
NixNamesUnique(c) ==
  \A k, l \in DOMAIN c.keys :
    (k # l /\ c.keys[k].nix # NoValue /\ c.keys[l].nix # NoValue) => c.keys[k].nix.name # c.keys[l].nix.name
ValidateCatalog(c) == (\A k \in DOMAIN c.keys : ValidateKey(c, c.keys[k]) = "ok") /\ NixNamesUnique(c)

-----------------------------------------------------------------------------
(* Capability enforcement: what a backend declares against its keys.       *)

RequiredMintKeyType(e) ==
  IF e.class = "asym" /\ EffectiveEngine(e) = "transit" /\ e.missing = "generate" THEN e.type ELSE NoValue
Declares(b) == b.engines # {} \/ b.capabilities # {} \/ b.mints # {}
KeyCapabilityGap(e, b) ==
  \/ EffectiveEngine(e) \notin b.engines
  \/ e.type # NoValue /\ RequiredCapability(e.type) \notin b.capabilities \cup {NoValue}
  \/ RequiredMintKeyType(e) \notin b.mints \cup {NoValue}
KeyCapabilityGaps(c, name) ==
  {k \in DOMAIN c.keys : c.keys[k].backend = name /\ KeyCapabilityGap(c.keys[k], c.backends[name])}
EnforceCapabilities(c, policy) ==
  policy # "off" =>
    \A b \in DOMAIN c.backends : Declares(c.backends[b]) =>
      /\ policy = "strict" => c.backends[b].requires \subseteq c.backends[b].capabilities
      /\ \A k \in KeyCapabilityGaps(c, b) : policy = "degraded" /\ c.keys[k].missing # "error"

-----------------------------------------------------------------------------
(* Operations, targets and rules. *)

AllOps == {"Get", "List", "GetPublicKey", "Verify", "Sign", "Encrypt", "Decrypt", "Mint",
           "SignNatsJwt", "ValidateNatsJwt", "EncryptNatsCurve", "DecryptNatsCurve", "Validate",
           "Set", "Rotate", "Import", "NewKey"}
NixOps == {"EnrollNixCacheKey", "SignNixCacheFingerprint"}
AdminTarget ==
  [Reload |-> <<"broker", "reload">>, Explain |-> <<"broker", "explain">>,
   Revoke |-> <<"broker", "revoke">>, Watch |-> <<"broker", "watch">>,
   ConnectionStatus |-> <<"broker", "connections">>,
   ConnectionDrop |-> <<"broker", "connections", "drop">>]
Op == AllOps \cup NixOps \cup DOMAIN AdminTarget \cup {"UseSoftwareCustody"}
IsWrite(op) == op \in {"Set", "Rotate", "Import", "NewKey", "EnrollNixCacheKey"}

Wildcards == {"*", "**"}
IntraSegment == {"a*", "*b"}        \* segments that mix a star with text
IsAnyKey(g) == g = <<"*">>
ParseGlob(g) ==
  \/ IsAnyKey(g)
  \/ g # << >> /\ \A i \in DOMAIN g :
       g[i] # "" /\ g[i] \notin IntraSegment /\ (g[i] \in Wildcards => i = Len(g))
PatternMatches(g, key) ==
  LET lead == Len(g) - 1
      tail == Len(key) - lead
  IN /\ tail >= 0 /\ \A i \in 1..lead : g[i] = key[i]
     /\ CASE g[Len(g)] = "*" -> tail = 1
          [] g[Len(g)] = "**" -> tail >= 1
          [] OTHER -> tail = 1 /\ key[Len(g)] = g[Len(g)]
GlobMatches(g, key) == IsAnyKey(g) \/ PatternMatches(g, key)
MatchesAll(g) == IsAnyKey(g) \/ g = <<"**">>

(* An action term is [kind, arg]: an op, a role of the policy, or any op. *)
ParseAction(t) == t.kind \in {"op", "role", "any"} /\ (t.kind = "op" => t.arg \in Op)
ExpandOps(action, roles) ==
  UNION {CASE t.kind = "op" -> {t.arg}
           [] t.kind = "role" -> roles[t.arg]
           [] OTHER -> AllOps : t \in action}

(* The policy's subjects in the order of the map that holds them.  A name  *)
(* is trimmed, and of two names that trim to one the later stays.          *)
SubjectNameOk(n) == n \notin {"", "long", "control"}
ParseSubject(raw, accounts) == SubjectNameOk(raw.name) /\ CompileExpression(raw.match, raw.domain, accounts)
ParseSubjects(raw) ==
  [n \in {raw[i].name : i \in DOMAIN raw} |->
     LET hits == {i \in DOMAIN raw : raw[i].name = n}
         r == raw[CHOOSE i \in hits : \A j \in hits : j <= i]
     IN [domain |-> r.domain, glass |-> r.glass, match |-> r.match]]
ParseRule(r, subjects) ==
  /\ r.subjects # {} /\ r.subjects \subseteq DOMAIN subjects
  /\ \A t \in r.action : ParseAction(t)
  /\ \A g \in r.target : ParseGlob(g)
  /\ (\E g \in r.target : MatchesAll(g)) => \A s \in r.subjects : subjects[s].glass
ParseRules(rules, subjects) ==
  /\ \A i, j \in DOMAIN rules : rules[i].id = rules[j].id => i = j
  /\ \A i \in DOMAIN rules : ParseRule(rules[i], subjects)
ValidateRuleRoles(rules, roles) ==
  \A i \in DOMAIN rules : \A t \in rules[i].action : t.kind = "role" => t.arg \in DOMAIN roles
BuildResolved(subjects, rules, roles) ==
  [subjects |-> subjects,
   rules |-> [i \in DOMAIN rules |->
     [subjects |-> rules[i].subjects,
      grants |-> [op : ExpandOps(rules[i].action, roles), target : rules[i].target]]]]
LoadPolicy(raw, accounts) ==
  /\ \A i \in DOMAIN raw.subjects : ParseSubject(raw.subjects[i], accounts)
  /\ ParseRules(raw.rules, ParseSubjects(raw.subjects)) /\ ValidateRuleRoles(raw.rules, raw.roles)
Resolved(raw) == BuildResolved(ParseSubjects(raw.subjects), raw.rules, raw.roles)
LoadPair(catalog, raw, accounts) == ValidateCatalog(catalog) /\ LoadPolicy(raw, accounts)

-----------------------------------------------------------------------------
(* The decision point, over a catalog and a resolved policy.               *)

Deny(why) == [allow |-> FALSE, via |-> why]
Allow(via) == [allow |-> TRUE, via |-> via]
IsPublicRead(op) == op \in {"Get", "GetPublicKey"}
NixCacheOpAllowed(state, op) ==
  IF state = "pending" THEN op = "EnrollNixCacheKey" ELSE op \in NixOps
MatchingRuleSubject(rule, actor) == actor.subject \in rule.subjects
ActorIsRegistered(p, actor) ==
  actor.subject \in DOMAIN p.subjects /\ p.subjects[actor.subject].domain = actor.domain
Granted(p, actor, op, key) ==
  \E i \in DOMAIN p.rules :
    MatchingRuleSubject(p.rules[i], actor) /\ \E g \in p.rules[i].grants : g.op = op /\ GlobMatches(g.target, key)

EvaluateWithoutActor(c, op, key) ==
  IF key \notin DOMAIN c.keys THEN Deny("UnknownKey")
  ELSE IF c.keys[key].nix # NoValue /\ ~NixCacheOpAllowed(c.keys[key].nix.state, op)
       THEN Deny("NixCachePurposeBound")
  ELSE IF IsWrite(op) /\ ~c.keys[key].writable THEN Deny("NotWritable")
  ELSE IF op = "Sign" /\ IsCredentialIssuer(c.keys[key]) THEN Deny("IssuerRawSign")
  ELSE Deny("NotPermitted")
Evaluate(c, p, actor, op, key) ==
  LET base == EvaluateWithoutActor(c, op, key)
  IN IF base.via # "NotPermitted" \/ ~ActorIsRegistered(p, actor) THEN base
     ELSE IF Granted(p, actor, op, key) THEN Allow("Subject")
     ELSE IF c.keys[key].class = "public" /\ IsPublicRead(op) THEN Allow("PublicClass")
     ELSE base
Decide(c, p, actor, op, key) == Evaluate(c, p, actor, op, key).allow
DecideAdmin(p, actor, op) ==
  op \in DOMAIN AdminTarget /\ ActorIsRegistered(p, actor) /\ Granted(p, actor, op, AdminTarget[op])
ResolveSubjectActor(p, s) == [subject |-> s, domain |-> p.subjects[s].domain]
ExplainSubject(c, p, s, op, key) ==
  IF s \in DOMAIN p.subjects THEN Evaluate(c, p, ResolveSubjectActor(p, s), op, key)
  ELSE EvaluateWithoutActor(c, op, key)
Effective(c, p, s) ==
  IF s \notin DOMAIN p.subjects THEN {}
  ELSE {x \in (DOMAIN c.keys) \X AllOps : ExplainSubject(c, p, s, x[2], x[1]).allow}
Visible(c, p, actor, key) == \E op \in {"List", "GetPublicKey", "Get"} : Decide(c, p, actor, op, key)
=============================================================================

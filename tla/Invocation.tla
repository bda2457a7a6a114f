----------------------------- MODULE Invocation -----------------------------
(***************************************************************************)
(* The sealed-invocation service: challenges handed out and taken, CI      *)
(* provider proofs verified against the pinned generation, the per-run     *)
(* quota, policy decisions, the signature itself, the sealed answer, and   *)
(* the one audit event that ends every request with a provider proof.      *)
(*                                                                         *)
(* A request is a process.  A step runs from one place where the handler   *)
(* can be suspended or releases a lock to the next.  A dropped connection  *)
(* drops the handler at an await (Cancel).  The challenge table is used    *)
(* through what it promises (ChallengeStore).                              *)
(***************************************************************************)
EXTENDS ChallengeStore, Federation

CONSTANTS
  None,        \* an absent value
  Reqs,        \* request slots
  Messages,    \* what a client may send (see MCInvocation)
  Tokens,      \* tokens a provider may issue
  Catalogs,    \* what the operator may try to load
  Audiences, Software, Experimental, RequireChallenge, RequestKey,
  Published,   \* documents the provider publishes, one after the other
  FileStates,  \* states of the CA file on disk
  Bounds,      \* pairs of bounds on reloads and on time, one pair per behaviour
  MaxFaults    \* failures of a backend or of the network, and dropped requests

ASSUME InputsAssumption ==
  /\ \A c \in Catalogs : /\ Len(c.rules) \in Nat /\ DOMAIN c.rules = 1 .. Len(c.rules)
                         /\ \A i \in DOMAIN c.rules :
                              /\ DOMAIN c.rules[i] = RuleFields
                              /\ c.rules[i].kind \in {"github", "forgejo"}
                              /\ {c.rules[i].age, c.rules[i].skew} \subseteq Nat
                              /\ c.rules[i].quota \in Nat \cup {Never}
  /\ \A t \in Tokens : DOMAIN t = TokenFields
  /\ Len(Published) \in Nat \ {0} /\ DOMAIN Published = 1 .. Len(Published)

VARIABLES
  gens,    \* the generations installed so far; the last one serves
  caches,  \* caches[g][i]: keys cached by generation g for rule i
  quota,   \* the run-quota table
  step,    \* how often the provider has changed its keys
  seenAt,  \* kid -> last time the provider published it
  req,     \* the requests
  effects, \* signatures the backend has made
  charges, \* successful quota charges
  events,  \* terminal audit events, per request
  faults,  \* faults so far
  bound    \* the pair of bounds of this behaviour

reqVars == <<req, effects, charges, events, faults, bound>>
invVars == <<storeVars, gens, caches, quota, step, seenAt, reqVars>>

Serving == Len(gens)
Keys == Kids(Published[step])

(* What an audit event may say. *)
Stages == {"identity", "envelope", "freshness", "subject", "quota", "recipient", "decrypt",
           "decryption", "operation", "sign", "backend", "response", "complete"}
AuditEvents ==
  [id : {"presented", "verified"}, fresh : {"not_reached", "accepted", "denied", "unavailable"},
   quota : {"not_reached", "charged"} \cup QuotaDenied,
   dec : {"not_reached", "allowed", "denied"}, sign : {"not_reached", "allowed", "denied"},
   exec : {"not_reached", "started", "succeeded", "failed", "indeterminate"},
   resp : {"not_reached", "started", "succeeded", "failed", "indeterminate"},
   at : Stages, outcome : {"success", "denied", "failure", "aborted"},
   why : Stages \cup QuotaDenied \cup {"completed", "aborted"}]

ASSUME NoneAssumption == None \notin AuditEvents

(* CiInvocationAudit::presented: every later state is not reached. *)
Presented == [id |-> "presented", fresh |-> "not_reached", quota |-> "not_reached",
              dec |-> "not_reached", sign |-> "not_reached", exec |-> "not_reached",
              resp |-> "not_reached", at |-> "identity", outcome |-> "aborted", why |-> "aborted"]

Idle == [stage |-> "idle", msg |-> None, ch |-> None, gen |-> 0, t |-> 0, i |-> 0,
         keys |-> {}, some |-> FALSE, subject |-> None, target |-> None,
         audit |-> None, fin |-> None]

-----------------------------------------------------------------------------
(* The environment: time, the provider, the operator. *)

World == <<gens, caches, quota, step>>
Tick ==
  /\ now < bound.time /\ now' = now + 1
  /\ seenAt' = [k \in DOMAIN seenAt |-> IF k \in Keys THEN now + 1 ELSE seenAt[k]]
  /\ UNCHANGED <<instance, live, used, issued, World, reqVars>>
Republish ==
  /\ step < Len(Published) /\ step' = step + 1
  /\ seenAt' = [k \in DOMAIN seenAt |-> IF k \in Kids(Published[step + 1]) THEN now ELSE seenAt[k]]
  /\ UNCHANGED <<storeVars, gens, caches, quota, reqVars>>

(* A reload validates the provider catalog and pins its CA files (before), *)
(* and installs it with empty key caches if the paths still name the       *)
(* pinned files (after).                                                   *)
Loadable(c, before, after) ==
  /\ CatalogOk(c.rules, Experimental) /\ TargetsOk(c.rules, Software)
  /\ \A i \in DOMAIN c.rules :
       TrustOk(c.rules[i], before) /\ TrustHolds(c.rules[i], Trust(c.rules[i], before), after)
Disk == [{"file"} -> FileStates]
InvInit ==
  /\ StoreInit
  /\ \E c \in {c \in Catalogs : \E f, h \in Disk : Loadable(c, f, h)} :
       gens = <<c>> /\ caches = <<[i \in DOMAIN c.rules |-> EmptyCache]>>
  /\ quota = EmptyQuota
  /\ step = 1 /\ seenAt = [k \in UNION {Kids(Published[n]) : n \in DOMAIN Published} |->
                             IF k \in Kids(Published[1]) THEN 0 ELSE Never]
  /\ req = [r \in Reqs |-> Idle] /\ effects = {} /\ charges = {}
  /\ events = [r \in Reqs |-> << >>] /\ faults = 0
  /\ bound \in Bounds

Reload ==
  /\ Len(gens) < bound.gens
  /\ \E c \in Catalogs :
       /\ \E f, h \in Disk : Loadable(c, f, h)
       /\ gens' = Append(gens, c)
       /\ caches' = Append(caches, [i \in DOMAIN c.rules |-> EmptyCache])
  /\ UNCHANGED <<storeVars, quota, step, seenAt, reqVars>>

(* get_invocation_challenge; a source that cannot be named, a busy table   *)
(* and a declined issue change nothing.                                    *)
GetChallenge(j) ==
  /\ Hand(j, Serving)
  /\ UNCHANGED <<World, seenAt, reqVars>>

-----------------------------------------------------------------------------
(* Requests.  The steps between two suspensions are functions from the    *)
(* record of a request to its next record and the audit event it leaves.   *)

Gen(q) == gens[q.gen]
Token(q) == q.msg.tokens[1]
ByProvider(q) == q.i > 0
Rule(q) == Gen(q).rules[q.i]
(* VerifiedProviderEvidence: what the rule and the token's claims establish. *)
Evidence(q) ==
  [rule |-> Rule(q).id, subject |-> Rule(q).subject, run |-> Token(q).run,
   limit |-> Rule(q).quota, keep |-> Rule(q).age + Rule(q).skew]
Marked(q, f) == IF q.audit = None THEN None ELSE f

Goes(q) == [rec |-> q, ev |-> None]
(* finish: the event is taken and recorded once. *)
Ends(q, ev) == [rec |-> [Idle EXCEPT !.stage = "done", !.msg = q.msg, !.gen = q.gen], ev |-> ev]
(* CiInvocationAuditEvent: the states reached, and the final stage, reason *)
(* and outcome.                                                            *)
Terminal(a, at, why, outcome) == [a EXCEPT !.at = at, !.why = why, !.outcome = outcome]
Refused(q, at, outcome) == Ends(q, Marked(q, Terminal(q.audit, at, at, outcome)))

Becomes(r, o) ==
  /\ req' = [req EXCEPT ![r] = o.rec]
  /\ events' = IF o.ev = None THEN events ELSE [events EXCEPT ![r] = Append(@, o.ev)]

Still == UNCHANGED <<storeVars, World, seenAt, effects, charges, bound>>
Fault == faults < MaxFaults /\ faults' = faults + 1

(* expression_signature_verifies over the policy's subjects: the key that  *)
(* signed a request without a provider proof must be one the policy names. *)
Verified(g, msg) ==
  msg.sigOk /\ msg.claimsOk /\ (msg.proof = None => msg.signer \in DOMAIN g.signers)

(* The audience is checked with the claims unless the generation has       *)
(* provider rules; then it is checked after the provider proof.            *)
AudienceOk(msg) == Audiences = {} \/ msg.aud \in Audiences
EarlyAudience(g, msg) == g.rules # << >> \/ AudienceOk(msg)

ProofPresented(msg) == msg.proof # None \/ msg.tokens # << >>
ProofShapeOk(msg) == msg.proof # None /\ ExactlyOneToken(msg.tokens)

(* resolve_response_recipient: a provider's request brings the key that    *)
(* its answer is sealed to, any other names one of the catalog.            *)
ResponseOk(q) ==
  IF ByProvider(q) THEN q.msg.resp = "ephemeral" ELSE q.msg.resp \in Gen(q).respKeys

(* From a known or absent provider identity to the challenge. *)
Admitted(q) ==
  LET ok == IF ByProvider(q) THEN EnvelopeOk(Rule(q), q.msg, Audiences)
            ELSE q.msg.target = None /\ AudienceOk(q.msg)
  IN  IF ~ok \/ ~ResponseOk(q) THEN Refused(q, "envelope", "denied")
      ELSE IF ~q.msg.uid THEN Refused(q, "subject", "denied")
      ELSE Goes([q EXCEPT !.stage = "fresh",
                          !.target = IF ByProvider(q) THEN q.msg.target ELSE None,
                          !.audit = Marked(q, [q.audit EXCEPT !.at = "freshness"])])

(* invoke, to the first lookup of keys or to the challenge.  A request     *)
(* that is refused before its audit starts leaves no event.                *)
Invoked(msg, ch) ==
  LET g == gens[Serving]
      q == [Idle EXCEPT !.msg = msg, !.ch = ch, !.gen = Serving, !.t = now]
  IN  IF ~Verified(g, msg) \/ ~EarlyAudience(g, msg) THEN Ends(q, None)
      ELSE IF ~ProofPresented(msg) THEN Admitted(q)
      ELSE IF ~ProofShapeOk(msg) \/ g.rules = << >>
        THEN Refused([q EXCEPT !.audit = Presented], "identity", "denied")
      ELSE Goes([q EXCEPT !.stage = "lookup", !.i = 1, !.audit = Presented])

Arrive(r) ==
  /\ req[r].stage = "idle"
  /\ \E msg \in Messages :
       \E ch \in IF msg.challenge THEN issued ELSE {None} : Becomes(r, Invoked(msg, ch))
  /\ Still /\ UNCHANGED faults

(* One turn of the loop over the rules, with keys for rule i or with none. *)
Tried(q, some, keys) ==
  IF some /\ Verifies(Rule(q), Token(q), q.msg.proof, keys, q.t)
    THEN Admitted([q EXCEPT !.keys = {}, !.some = FALSE, !.subject = Evidence(q).subject,
                            !.audit.id = "verified", !.audit.at = "envelope"])
  ELSE IF q.i < Len(Gen(q).rules)
    THEN Goes([q EXCEPT !.stage = "lookup", !.i = @ + 1, !.keys = {}, !.some = FALSE])
  ELSE Refused(q, "identity", "denied")

Cache(q) == caches[q.gen][q.i]
SetCache(q, c) == caches' = [caches EXCEPT ![q.gen][q.i] = c]

(* resolve_rule_jwks: under the lock of the caches, serve or go and fetch. *)
Lookup(r) ==
  /\ req[r].stage = "lookup"
  /\ LET q == req[r]
         d == Serve(Cache(q), Token(q).kid, q.t)
     IN  /\ SetCache(q, Attempted(Cache(q), Token(q).kid, q.t))
         /\ Becomes(r, IF d.fetch
                         THEN Goes([q EXCEPT !.stage = "fetch", !.keys = d.serve, !.some = d.some])
                         ELSE Tried(q, d.some, d.serve))
  /\ UNCHANGED <<storeVars, gens, quota, step, seenAt, effects, charges, faults, bound>>

(* The provider answers with what it publishes now; the answer arrives     *)
(* later.  A document that repeats a key or has another kind of key is     *)
(* refused.                                                                *)
Answer(r) ==
  /\ req[r].stage = "fetch"
  /\ JwksOk(Published[step])
  /\ Becomes(r, Goes([req[r] EXCEPT !.stage = "fetched", !.keys = Keys]))
  /\ Still /\ UNCHANGED faults
BadAnswer(r) ==
  /\ req[r].stage = "fetch"
  /\ ~JwksOk(Published[step])
  /\ Becomes(r, Tried(req[r], req[r].some, req[r].keys))
  /\ Still /\ UNCHANGED faults
Fetched(r) ==
  /\ req[r].stage = "fetched"
  /\ SetCache(req[r], InstallKeys(Cache(req[r]), req[r].keys, req[r].t))
  /\ Becomes(r, Tried(req[r], TRUE, req[r].keys))
  /\ UNCHANGED <<storeVars, gens, quota, step, seenAt, effects, charges, faults, bound>>

(* No answer, or one that is refused: the stale set serves, if there is    *)
(* one.                                                                    *)
FetchFails(r) ==
  /\ req[r].stage = "fetch"
  /\ Becomes(r, Tried(req[r], req[r].some, req[r].keys)) /\ Fault
  /\ Still

Holder(q) == IF q.msg.proof # None THEN q.msg.proof ELSE q.msg.signer

(* A sealed answer is started; fin is the end to record once it is out.    *)
Replies(q, audit, at, why, outcome) ==
  Goes([q EXCEPT !.stage = "protect", !.fin = [at |-> at, why |-> why, outcome |-> outcome],
                 !.audit = Marked(q, [audit EXCEPT !.resp = "started", !.at = "response"])])

(* A challenge is bound to an Ed25519 key: with a subject key of another   *)
(* kind it is an envelope error, and the challenge is not presented.       *)
Unbound(q) == q.ch # None /\ q.msg.proof = None /\ q.msg.signer \notin Gen(q).ed25519
FreshError(r) ==
  /\ req[r].stage = "fresh" /\ Unbound(req[r])
  /\ Becomes(r, Refused([req[r] EXCEPT !.audit = Marked(req[r], [@ EXCEPT !.fresh = "unavailable"])],
                        "freshness", "failure"))
  /\ Still /\ UNCHANGED faults

(* consume_freshness_challenge, under the lock of the table.  A denial is  *)
(* sealed like an answer.                                                  *)
Fresh(r) ==
  /\ req[r].stage = "fresh" /\ ~Unbound(req[r])
  /\ LET q == req[r]
         need == q.msg.proof # None \/ RequireChallenge
         ok == IF q.ch = None THEN ~need ELSE Verdict(q.ch, Holder(q), q.gen) = "ok"
     IN  /\ IF q.ch = None THEN UNCHANGED storeVars ELSE Present(q.ch, Holder(q), q.gen)
         /\ Becomes(r, IF ok THEN Goes([q EXCEPT !.stage = "resolve",
                                          !.audit = Marked(q, [q.audit EXCEPT !.fresh = "accepted",
                                                                              !.at = "subject"])])
                       ELSE Replies(q, Marked(q, [q.audit EXCEPT !.fresh = "denied"]),
                                    "freshness", "freshness", "denied"))
  /\ UNCHANGED <<World, seenAt, effects, charges, faults, bound>>

(* The actor: the rule's subject, which the policy must know, or the       *)
(* subject whose key signed.                                               *)
Actor(q) ==
  IF ByProvider(q) THEN IF q.subject \in Gen(q).subjects THEN q.subject ELSE None
  ELSE Gen(q).signers[q.msg.signer]

(* Faulty form of Allowed: the policy that serves now decides. *)
Allowed_Serving(q, op, key) == <<q.subject, op, key>> \in gens[Serving].grants

Allowed(q, op, key) == <<q.subject, op, key>> \in Gen(q).grants

(* After the quota: the recipient and the decision to decrypt. *)
RecipientOk(q) == q.msg.recipient = RequestKey
Decided(q) ==
  IF ~RecipientOk(q) THEN Refused(q, "recipient", "denied")
  ELSE IF ~Allowed(q, "decrypt", RequestKey)
    THEN Refused([q EXCEPT !.audit = Marked(q, [@ EXCEPT !.dec = "denied"])], "decrypt", "denied")
  ELSE Goes([q EXCEPT !.stage = IF ByProvider(q) THEN "open" ELSE "material",
                      !.audit = Marked(q, [@ EXCEPT !.dec = "allowed", !.at = "decryption"])])

RunKey(q) == QuotaKey(Evidence(q).rule, Evidence(q).run)
Retention(q) == Evidence(q).keep

Resolve(r) ==
  /\ req[r].stage = "resolve"
  /\ LET q == req[r]
         a == [q EXCEPT !.subject = Actor(q)]
     IN  IF a.subject = None \/ (q.msg.issuer # None /\ q.msg.issuer # a.subject)
           THEN Becomes(r, Refused(q, "subject", "denied")) /\ UNCHANGED <<quota, charges>>
         ELSE IF ~ByProvider(q) THEN Becomes(r, Decided(a)) /\ UNCHANGED <<quota, charges>>
         ELSE LET c == Charge(quota, q.gen, RunKey(q), Evidence(q).limit, Retention(q), now) IN
              /\ quota' = c.table
              /\ IF c.result = "charged"
                   THEN /\ charges' = charges \cup {[req |-> r, key |-> RunKey(q), at |-> now,
                                                     table |-> c.table.gen, limit |-> Evidence(q).limit,
                                                     keep |-> Retention(q)]}
                        /\ Becomes(r, Decided([a EXCEPT !.audit.quota = "charged",
                                                        !.audit.at = "decrypt"]))
                   ELSE /\ Becomes(r, Replies(a, [a.audit EXCEPT !.quota = c.result],
                                              "quota", c.result, "denied"))
                        /\ UNCHANGED charges
  /\ UNCHANGED <<storeVars, gens, caches, step, seenAt, effects, faults, bound>>

(* The key that a catalog answer is sealed to must exist in its backend. *)
Material(r) ==
  /\ req[r].stage = "material"
  /\ \/ Becomes(r, Goes([req[r] EXCEPT !.stage = "open"])) /\ UNCHANGED faults
     \/ Becomes(r, Refused(req[r], "response", "failure")) /\ Fault
  /\ Still

Target(q) == IF ByProvider(q) THEN q.target ELSE q.msg.body.key

(* execute_sign_invocation, to the call of the backend. *)
Executed(q) ==
  IF q.msg.ctype # "sign" \/ ~q.msg.body.ok
    THEN Replies(q, q.audit, "operation", "operation", "denied")
  ELSE IF ~Allowed(q, "sign", Target(q))
    THEN Replies(q, Marked(q, [q.audit EXCEPT !.sign = "denied"]), "sign", "sign", "denied")
  ELSE Goes([q EXCEPT !.stage = "backend",
                      !.audit = Marked(q, [@ EXCEPT !.sign = "allowed", !.exec = "started",
                                                    !.at = "backend"])])

Open(r) ==
  /\ req[r].stage = "open"
  /\ \/ /\ Becomes(r, Executed([req[r] EXCEPT !.audit = Marked(req[r], [@ EXCEPT !.at = "operation"])]))
        /\ UNCHANGED faults
     \/ Becomes(r, Refused(req[r], "decryption", "failure")) /\ Fault
  /\ Still

(* The backend makes the signature; the handler learns of it later.        *)
Signed(r) ==
  /\ req[r].stage = "backend"
  /\ LET q == req[r] IN
     effects' = effects \cup {[req |-> r, gen |-> q.gen, ch |-> q.ch, t |-> q.t, rule |-> q.i,
                               subject |-> q.subject, key |-> Target(q),
                               kid |-> IF ByProvider(q) THEN Token(q).kid ELSE None]}
  /\ Becomes(r, Goes([req[r] EXCEPT !.stage = "signed"]))
  /\ UNCHANGED <<storeVars, World, seenAt, charges, faults, bound>>
(* manager.sign returns.  An error is audited as a failed execution,       *)
(* whether the backend refused or its answer was lost, empty or malformed  *)
(* after it had signed.                                                    *)
Return(r) ==
  /\ LET q == req[r] IN
     \/ /\ q.stage = "signed"
        /\ Becomes(r, Replies(q, Marked(q, [q.audit EXCEPT !.exec = "succeeded"]),
                              "complete", "completed", "success"))
        /\ UNCHANGED faults
     \/ /\ q.stage \in {"backend", "signed"}
        /\ Becomes(r, Replies(q, Marked(q, [q.audit EXCEPT !.exec = "failed"]),
                              "backend", "backend", "failure")) /\ Fault
  /\ Still

(* protect_response and finalize_response_audit. *)
Protect(r) ==
  /\ req[r].stage = "protect"
  /\ LET q == req[r]
         f == q.fin
     IN  \/ /\ Becomes(r, Ends(q, Marked(q, Terminal([q.audit EXCEPT !.resp = "succeeded"],
                                                     f.at, f.why, f.outcome))))
            /\ UNCHANGED faults
         \/ /\ Fault
            /\ Becomes(r, Refused([q EXCEPT !.audit = Marked(q, [@ EXCEPT !.resp = "failed"])],
                                  "response", "failure"))
  /\ Still

(* What Drop records: a step that had started is indeterminate. *)
Dropped(a) ==
  [a EXCEPT !.exec = IF @ = "started" THEN "indeterminate" ELSE @,
            !.resp = IF @ = "started" THEN "indeterminate" ELSE @,
            !.outcome = "aborted", !.why = "aborted"]

(* Faulty form of Cancel: a dropped handler records nothing. *)
Cancel_Silent(r) ==
  /\ req[r].stage \in {"fetch", "fetched", "fresh", "material", "open", "backend", "signed", "protect"}
  /\ Becomes(r, Ends(req[r], None)) /\ Fault
  /\ Still

Cancel(r) ==
  /\ req[r].stage \in {"fetch", "fetched", "fresh", "material", "open", "backend", "signed", "protect"}
  /\ Becomes(r, Ends(req[r], Marked(req[r], Dropped(req[r].audit)))) /\ Fault
  /\ Still

InvNext ==
  \/ Tick \/ Republish \/ Reload
  \/ \E j \in Jkts : GetChallenge(j)
  \/ \E r \in Reqs :
       \/ Arrive(r) \/ Lookup(r) \/ Answer(r) \/ BadAnswer(r) \/ Fetched(r) \/ FetchFails(r)
       \/ Fresh(r) \/ FreshError(r) \/ Resolve(r) \/ Material(r) \/ Open(r)
       \/ Signed(r) \/ Return(r) \/ Protect(r) \/ Cancel(r)

InvSpec == InvInit /\ [][InvNext]_invVars
-----------------------------------------------------------------------------
(* Properties. *)

(* A request whose handler has ended, in whatever way, and that passed the *)
(* signature check with a provider proof has left exactly one audit event, *)
(* and a running one none.                                                 *)
AuditOnce ==
  \A r \in Reqs :
    /\ Len(events[r]) <= 1
    /\ events[r] # << >> => req[r].stage = "done"
    /\ req[r].stage = "done" /\ ProofPresented(req[r].msg) /\ Verified(gens[req[r].gen], req[r].msg)
         /\ EarlyAudience(gens[req[r].gen], req[r].msg)
         => events[r] # << >>

(* The event tells what happened, also when the request was dropped while  *)
(* the backend was signing: it reports a signature only if there is one,   *)
(* it never says of one that was made that the backend was not reached,    *)
(* it is a success only with a signature and a protected answer, and it    *)
(* reports a charge exactly when the run was charged.  A failed execution  *)
(* does not exclude a signature: manager.sign may err after the backend    *)
(* signed.                                                                 *)
AuditTruthful ==
  \A r \in Reqs : events[r] # << >> =>
    LET e == events[r][1]
        signed == \E x \in effects : x.req = r
    IN  /\ e \in AuditEvents
        /\ e.exec = "succeeded" => signed
        /\ signed => e.exec \in {"succeeded", "failed", "indeterminate"}
        /\ (e.quota = "charged") <=> (\E x \in charges : x.req = r)
        /\ e.outcome = "success" => e.exec = "succeeded" /\ e.resp = "succeeded"

(* Every authenticated request is audited once, and truthfully, however its *)
(* handler ends (ci_federation_audit.rs, the guard in invocation.rs).      *)
AuditHonest == AuditOnce /\ AuditTruthful

(* A signature was allowed by the generation its request was pinned to,    *)
(* whatever serves now: the policy grants it, and for a provider proof one *)
(* rule names the key and the subject, and the run was charged.            *)
EffectAuthorized ==
  \A e \in effects :
    LET g == gens[e.gen] IN
    /\ <<e.subject, "sign", e.key>> \in g.grants
    /\ <<e.subject, "decrypt", RequestKey>> \in g.grants
    /\ e.rule > 0 => /\ e.key \in g.rules[e.rule].targets
                     /\ e.subject = g.rules[e.rule].subject
                     /\ \E c \in charges : c.req = e.req
                     /\ e.ch # None
    /\ RequireChallenge => e.ch # None

(* No challenge lets two signatures be made. *)
SingleEffect ==
  \A e, f \in effects : e.ch # None /\ e.ch = f.ch => e = f

(* Every signature was authorized as a whole, and by a challenge of its own. *)
EffectsLegitimate == EffectAuthorized /\ SingleEffect

(* However runs and reloads interleave, the charges of one run within the  *)
(* time its bucket must be kept stay within the largest limit that one of  *)
(* them was pinned to.                                                     *)
QuotaHeld ==
  \A c \in charges :
    LET window == {d \in charges : /\ d.key = c.key /\ d.table = c.table
                                  /\ d.at >= c.at /\ d.at < c.at + c.keep}
    IN  \E d \in window : Cardinality(window) <= d.limit

(* A key that the provider withdrew is honoured for at most MaxAge +       *)
(* StaleIfError, whichever answer arrived last.                            *)
WithdrawnBounded ==
  \A e \in effects : e.rule > 0 =>
    seenAt[e.kid] # Never /\ seenAt[e.kid] >= e.t - ServesFor

(* What a provider's token is worth is bounded, in number and in time      *)
(* (RunQuota::charge, the JWKS cache).                                     *)
TrustHeld == QuotaHeld /\ WithdrawnBounded

(* At most one rule accepts a token. *)
Exclusive(rules) ==
  \A m \in Tokens, t \in 0 .. MaxTime :
    Cardinality({i \in DOMAIN rules : Verifies(rules[i], m, m.aud, {m.kid}, t)}) <= 1

(* A catalog that a reload installs gives no token to two rules, whichever *)
(* claims the rules of its providers bind (rules_overlap in                *)
(* ci_federation.rs).                                                      *)
OneRulePerToken == [][gens' # gens => Exclusive(gens'[Len(gens')].rules)]_invVars
=============================================================================

-------------------------- MODULE InvocationProofs --------------------------
(***************************************************************************)
(* The sealed-invocation service, for any number of requests, any catalogs *)
(* an operator may load, any messages and tokens, and any provider.        *)
(***************************************************************************)
EXTENDS Invocation, FiniteSetTheorems, SequenceTheorems, TLAPS

-----------------------------------------------------------------------------
(* Where a request may stand.                                              *)

Early == {"lookup", "fetch", "fetched"}
Unsigned == {"idle", "fresh", "resolve", "material", "open", "backend"} \cup Early
Taken == {"resolve", "material", "open", "backend"}
StageNames == Unsigned \cup {"signed", "protect", "done"}
Active == StageNames \ {"idle", "done"}

ReqFields == {"stage", "msg", "ch", "gen", "t", "i", "keys", "some", "subject", "target", "audit", "fin"}
IsReq(q) ==
  /\ DOMAIN q = ReqFields
  /\ q.stage \in StageNames /\ q.gen \in Nat /\ q.i \in Nat /\ q.t \in Nat
  /\ q.audit \in AuditEvents \cup {None}

(* A request that runs has an audit exactly when it presented a provider   *)
(* proof; its rule is one of the generation it is pinned to.               *)
PinnedOK(gs, q) ==
  /\ q.stage # "idle" => q.gen \in 1 .. Len(gs)
  /\ q.stage = "idle" => q.audit = None
  /\ q.stage \in Active =>
       /\ (q.audit # None) <=> ProofPresented(q.msg)
       /\ (q.i > 0) <=> (q.audit # None)
       /\ q.i > 0 => q.msg.proof # None /\ q.i <= Len(gs[q.gen].rules)
  /\ q.stage \in Early => q.i > 0

(* What has been established by the stage the request is in. *)
GrantedOK(gs, q) ==
  /\ q.stage \in Active \ Early /\ q.i > 0 =>
       q.subject = gs[q.gen].rules[q.i].subject /\ q.target \in gs[q.gen].rules[q.i].targets
  /\ q.stage \in Taken => (q.i > 0 \/ RequireChallenge => q.ch # None)
  /\ q.stage \in {"material", "open", "backend"} => <<q.subject, "decrypt", RequestKey>> \in gs[q.gen].grants
  /\ q.stage = "backend" => <<q.subject, "sign", Target(q)>> \in gs[q.gen].grants

(* What the audit that is being kept says of the signature and the charge. *)
AuditOK(q, signed, charged) ==
  /\ q.stage \in Unsigned => ~signed
  /\ q.stage = "signed" => signed
  /\ q.audit = None /\ q.stage # "done" => ~charged
  /\ q.stage \in Early \cup {"idle", "fresh", "resolve"} => ~charged
  /\ q.stage \in {"material", "open", "backend"} /\ q.i > 0 => charged
  /\ q.audit # None =>
       /\ (q.audit.quota = "charged") <=> charged
       /\ q.stage \in Unsigned \ {"backend"} => q.audit.exec = "not_reached" /\ q.audit.resp = "not_reached"
       /\ q.stage \in {"backend", "signed"} => q.audit.exec = "started" /\ q.audit.resp = "not_reached"
       /\ q.stage = "protect" =>
            /\ q.audit.resp = "started" /\ q.audit.exec \in {"not_reached", "succeeded", "failed"}
            /\ (q.audit.exec = "succeeded" => signed) /\ (signed => q.audit.exec \in {"succeeded", "failed"})
            /\ DOMAIN q.fin = {"at", "why", "outcome"}
            /\ q.fin.at \in Stages /\ q.fin.why \in Stages \cup QuotaDenied \cup {"completed"}
            /\ q.fin.outcome \in {"success", "denied", "failure"}
            /\ q.fin.outcome = "success" => q.audit.exec = "succeeded"

ReqOK(gs, q, signed, charged) ==
  IsReq(q) /\ PinnedOK(gs, q) /\ GrantedOK(gs, q) /\ AuditOK(q, signed, charged)

(* A terminal event that tells what happened. *)
EventOK(e, signed, charged) ==
  /\ e \in AuditEvents
  /\ e.exec = "succeeded" => signed
  /\ signed => e.exec \in {"succeeded", "failed", "indeterminate"}
  /\ (e.quota = "charged") <=> charged
  /\ e.outcome = "success" => e.exec = "succeeded" /\ e.resp = "succeeded"

(* A request that must leave an event when it ends. *)
Audited(gs, q) ==
  ProofPresented(q.msg) /\ Verified(gs[q.gen], q.msg) /\ EarlyAudience(gs[q.gen], q.msg)

EventsOK(gs, q, evs, signed, charged) ==
  /\ evs # << >> => Len(evs) = 1 /\ EventOK(evs[1], signed, charged) /\ q.stage = "done"
  /\ q.stage = "done" /\ Audited(gs, q) => evs # << >>

Made(r) == \E x \in effects : x.req = r
Charged(r) == \E x \in charges : x.req = r

RequestsOK ==
  /\ DOMAIN req = Reqs /\ DOMAIN events = Reqs
  /\ \A r \in Reqs : /\ ReqOK(gens, req[r], Made(r), Charged(r))
                     /\ EventsOK(gens, req[r], events[r], Made(r), Charged(r))

-----------------------------------------------------------------------------
(* Challenges: one that was taken is not live, and no two holders have the *)
(* same.                                                                   *)

StoreOK ==
  /\ now \in Nat /\ IsFiniteSet(issued)
  /\ \A tk \in issued : tk.suffix \in Nat /\ tk.suffix < Cardinality(issued)
  /\ \A s \in used : s \in Nat /\ s < Cardinality(issued) /\ s \notin DOMAIN live

Holds(r) == req[r].stage \in Taken /\ req[r].ch # None
HoldersOK ==
  /\ \A r \in Reqs : req[r].ch \in issued \cup {None}
  /\ \A r \in Reqs : Holds(r) => req[r].ch.suffix \in used
  /\ \A r, s \in Reqs : Holds(r) /\ Holds(s) /\ req[r].ch.suffix = req[s].ch.suffix => r = s
  /\ \A e \in effects : e.ch # None => e.ch.suffix \in used
  /\ \A e \in effects, r \in Reqs : Holds(r) /\ e.ch # None => e.ch.suffix # req[r].ch.suffix

EffectOK(gs, e, paid) ==
  /\ e.gen \in 1 .. Len(gs)
  /\ <<e.subject, "sign", e.key>> \in gs[e.gen].grants
  /\ <<e.subject, "decrypt", RequestKey>> \in gs[e.gen].grants
  /\ e.rule > 0 => /\ e.key \in gs[e.gen].rules[e.rule].targets
                   /\ e.subject = gs[e.gen].rules[e.rule].subject
                   /\ paid /\ e.ch # None
  /\ RequireChallenge => e.ch # None

GensOK == gens \in Seq(Catalogs) /\ Len(gens) > 0

InvocationInv ==
  /\ GensOK /\ RequestsOK /\ StoreOK /\ HoldersOK
  /\ \A e \in effects : EffectOK(gens, e, Charged(e.req))
  /\ SingleEffect

-----------------------------------------------------------------------------
(* Audit records.                                                          *)

IdStates == {"presented", "verified"}
FreshStates == {"not_reached", "accepted", "denied", "unavailable"}
QuotaStates == {"not_reached", "charged"} \cup QuotaDenied
Decisions == {"not_reached", "allowed", "denied"}
StepStates == {"not_reached", "started", "succeeded", "failed", "indeterminate"}
Outcomes == {"success", "denied", "failure", "aborted"}
Reasons == Stages \cup QuotaDenied \cup {"completed", "aborted"}

LEMMA AuditShape ==
  AuditEvents = [id : IdStates, fresh : FreshStates, quota : QuotaStates, dec : Decisions, sign : Decisions,
                 exec : StepStates, resp : StepStates, at : Stages, outcome : Outcomes, why : Reasons]
  BY DEF AuditEvents, IdStates, FreshStates, QuotaStates, Decisions, StepStates, Outcomes, Reasons

(* A record closed at a stage keeps the states that were reached. *)
LEMMA TerminalEvent ==
  ASSUME NEW a \in AuditEvents, NEW at \in Stages, NEW why \in Reasons, NEW outcome \in Outcomes
  PROVE  /\ Terminal(a, at, why, outcome) \in AuditEvents
         /\ Terminal(a, at, why, outcome).exec = a.exec /\ Terminal(a, at, why, outcome).resp = a.resp
         /\ Terminal(a, at, why, outcome).quota = a.quota /\ Terminal(a, at, why, outcome).outcome = outcome
  BY AuditShape DEF Terminal

LEMMA MarkAt ==
  ASSUME NEW a \in AuditEvents, NEW at \in Stages, NEW b, b = [a EXCEPT !.at = at]
  PROVE  b \in AuditEvents /\ b.exec = a.exec /\ b.resp = a.resp /\ b.quota = a.quota
  BY AuditShape

LEMMA DroppedEvent ==
  ASSUME NEW a \in AuditEvents
  PROVE  /\ Dropped(a) \in AuditEvents /\ Dropped(a).quota = a.quota /\ Dropped(a).outcome = "aborted"
         /\ Dropped(a).exec = IF a.exec = "started" THEN "indeterminate" ELSE a.exec
<1>1. "indeterminate" \in StepStates /\ "aborted" \in Outcomes /\ "aborted" \in Reasons
  BY DEF StepStates, Outcomes, Reasons
<1> QED
  BY <1>1, AuditShape DEF Dropped

(* What an audit that is being kept must say before it is closed. *)
Says(a, signed, charged) ==
  /\ a \in AuditEvents
  /\ a.exec = "succeeded" => signed
  /\ signed => a.exec \in {"succeeded", "failed", "indeterminate"}
  /\ (a.quota = "charged") <=> charged

LEMMA ClosedEvent ==
  ASSUME NEW a, NEW signed, NEW charged, Says(a, signed, charged), NEW at \in Stages,
         NEW why \in Reasons, NEW outcome \in Outcomes,
         outcome = "success" => a.exec = "succeeded" /\ a.resp = "succeeded"
  PROVE  EventOK(Terminal(a, at, why, outcome), signed, charged) /\ Terminal(a, at, why, outcome) # None
<1>1. a \in AuditEvents
  BY DEF Says
<1>2. /\ Terminal(a, at, why, outcome) \in AuditEvents
      /\ Terminal(a, at, why, outcome).exec = a.exec /\ Terminal(a, at, why, outcome).resp = a.resp
      /\ Terminal(a, at, why, outcome).quota = a.quota /\ Terminal(a, at, why, outcome).outcome = outcome
  BY <1>1, TerminalEvent
<1> QED
  BY <1>2, NoneAssumption DEF Says, EventOK

-----------------------------------------------------------------------------
(* What the steps of a request leave.                                      *)

OutcomeOK(gs, o, signed, charged) ==
  /\ ReqOK(gs, o.rec, signed, charged)
  /\ o.ev # None => o.rec.stage = "done" /\ EventOK(o.ev, signed, charged)
  /\ o.rec.stage = "done" /\ Audited(gs, o.rec) => o.ev # None

LEMMA EndsGood ==
  ASSUME NEW gs, NEW q, NEW ev, NEW signed, NEW charged, q.gen \in Nat, q.gen \in 1 .. Len(gs),
         ev # None => EventOK(ev, signed, charged),
         Audited(gs, q) => ev # None
  PROVE  OutcomeOK(gs, Ends(q, ev), signed, charged) /\ Ends(q, ev).rec.stage = "done" /\ Ends(q, ev).rec.ch = None
<1> DEFINE p == [Idle EXCEPT !.stage = "done", !.msg = q.msg, !.gen = q.gen]
<1>1. /\ DOMAIN p = ReqFields /\ p.stage = "done" /\ p.msg = q.msg /\ p.gen = q.gen /\ p.t = 0 /\ p.i = 0
      /\ p.audit = None /\ p.ch = None
  BY DEF Idle, ReqFields
<1>2. Ends(q, ev).rec = p /\ Ends(q, ev).ev = ev
  BY DEF Ends
<1> HIDE DEF p
<1>3. IsReq(p) /\ PinnedOK(gs, p) /\ GrantedOK(gs, p)
  BY <1>1 DEF IsReq, PinnedOK, GrantedOK, StageNames, Active, Early, Taken, Unsigned
<1>4. AuditOK(p, signed, charged)
  BY <1>1 DEF AuditOK, Unsigned, Early
<1>5. Audited(gs, p) => Audited(gs, q)
  BY <1>1 DEF Audited
<1> QED
  BY <1>1, <1>2, <1>3, <1>4, <1>5 DEF OutcomeOK, ReqOK

LEMMA RefusedGood ==
  ASSUME NEW gs, NEW q, NEW signed, NEW charged, NEW at \in Stages, NEW outcome \in {"denied", "failure"},
         q.gen \in Nat, q.gen \in 1 .. Len(gs), (q.audit # None) <=> ProofPresented(q.msg),
         q.audit # None => Says(q.audit, signed, charged)
  PROVE  /\ OutcomeOK(gs, Refused(q, at, outcome), signed, charged)
         /\ Refused(q, at, outcome).rec.stage = "done" /\ Refused(q, at, outcome).rec.ch = None
<1> DEFINE ev == Marked(q, Terminal(q.audit, at, at, outcome))
<1>1. CASE q.audit = None
  <2>1. ev = None
    BY <1>1 DEF Marked
  <2>2. ~Audited(gs, q)
    BY <1>1 DEF Audited
  <2> QED
    BY <2>1, <2>2, EndsGood DEF Refused
<1>2. CASE q.audit # None
  <2>1. ev = Terminal(q.audit, at, at, outcome)
    BY <1>2 DEF Marked
  <2>2. EventOK(ev, signed, charged) /\ ev # None
    <3>1. at \in Reasons /\ outcome \in Outcomes /\ outcome # "success"
      BY DEF Reasons, Outcomes
    <3> QED
      BY <1>2, <2>1, <3>1, ClosedEvent
  <2> HIDE DEF ev
  <2>3. Refused(q, at, outcome) = Ends(q, ev)
    BY DEF Refused, ev
  <2> QED
    BY <2>2, <2>3, EndsGood
<1> QED
  BY <1>1, <1>2

(* A request that nothing has been charged to and that has made nothing.   *)
Clean(q, signed, charged) ==
  /\ ~signed /\ ~charged
  /\ q.audit # None => q.audit.exec = "not_reached" /\ q.audit.resp = "not_reached" /\ q.audit.quota # "charged"

(* A step ends a request, or leaves what it is about. *)
Follows(o, q) ==
  \/ o.rec.stage = "done" /\ o.rec.ch = None
  \/ /\ o.rec.msg = q.msg /\ o.rec.ch = q.ch /\ o.rec.gen = q.gen /\ o.rec.t = q.t
     /\ o.rec.stage = "lookup" \/ o.rec.i = q.i

(* A running request that is bound to its generation and rule. *)
Running(q) ==
  /\ IsReq(q) /\ q.gen \in 1 .. Len(gens)
  /\ (q.audit # None) <=> ProofPresented(q.msg)
  /\ (q.i > 0) <=> (q.audit # None)
  /\ q.i > 0 => q.msg.proof # None /\ q.i <= Len(gens[q.gen].rules)

LEMMA AdmittedGood ==
  ASSUME NEW q, NEW signed, NEW charged, Running(q), Clean(q, signed, charged),
         q.i > 0 => q.subject = Rule(q).subject
  PROVE  /\ OutcomeOK(gens, Admitted(q), signed, charged)
         /\ Admitted(q).rec.stage \in {"fresh", "done"} /\ Follows(Admitted(q), q)
<1> DEFINE a == Marked(q, [q.audit EXCEPT !.at = "freshness"])
           tg == IF ByProvider(q) THEN q.msg.target ELSE None
           p == [q EXCEPT !.stage = "fresh", !.target = tg, !.audit = a]
           ok == IF ByProvider(q) THEN EnvelopeOk(Rule(q), q.msg, Audiences)
                 ELSE q.msg.target = None /\ AudienceOk(q.msg)
<1>1. q.audit # None => Says(q.audit, signed, charged)
  BY DEF Running, IsReq, Clean, Says
<1>2. q.gen \in Nat /\ q.gen \in 1 .. Len(gens) /\ ((q.audit # None) <=> ProofPresented(q.msg))
  BY DEF Running, IsReq
<1>3. CASE ~ok \/ ~ResponseOk(q)
  <2>1. Admitted(q) = Refused(q, "envelope", "denied")
    BY <1>3 DEF Admitted
  <2>2. "envelope" \in Stages
    BY DEF Stages
  <2> QED
    BY <1>1, <1>2, <2>1, <2>2, RefusedGood DEF Follows
<1>4. CASE ok /\ ResponseOk(q) /\ ~q.msg.uid
  <2>1. Admitted(q) = Refused(q, "subject", "denied")
    BY <1>4 DEF Admitted
  <2>2. "subject" \in Stages
    BY DEF Stages
  <2> QED
    BY <1>1, <1>2, <2>1, <2>2, RefusedGood, ZenonT(40) DEF Follows
<1>5. CASE ok /\ ResponseOk(q) /\ q.msg.uid
  <2>1. Admitted(q) = [rec |-> p, ev |-> None]
    BY <1>5 DEF Admitted, Goes
  <2>2. /\ DOMAIN p = ReqFields /\ p.stage = "fresh" /\ p.msg = q.msg /\ p.ch = q.ch /\ p.gen = q.gen
        /\ p.t = q.t /\ p.i = q.i /\ p.subject = q.subject /\ p.target = tg /\ p.audit = a
    BY DEF Running, IsReq, ReqFields
  <2>3. IF q.audit = None THEN a = None
        ELSE a \in AuditEvents /\ a.exec = q.audit.exec /\ a.resp = q.audit.resp /\ a.quota = q.audit.quota
    <3>1. CASE q.audit = None
      BY <3>1 DEF Marked
    <3>2. CASE q.audit # None
      <4>1. q.audit \in AuditEvents /\ a = [q.audit EXCEPT !.at = "freshness"] /\ "freshness" \in Stages
        BY <3>2 DEF Marked, Running, IsReq, Stages
      <4> QED
        BY <3>2, <4>1, MarkAt
    <3> QED
      BY <3>1, <3>2
  <2>4. (a = None) <=> (q.audit = None)
    BY <2>3, NoneAssumption
  <2>5. q.i > 0 => tg \in gens[q.gen].rules[q.i].targets
    BY <1>5 DEF ByProvider, EnvelopeOk, Rule, Gen
  <2> HIDE DEF p, a, tg, ok
  <2>6. IsReq(p)
    BY <2>2, <2>3 DEF IsReq, Running, StageNames, Unsigned
  <2>7. PinnedOK(gens, p)
    BY <2>2, <2>4 DEF PinnedOK, Running, IsReq, Early
  <2>8. GrantedOK(gens, p)
    BY <2>2, <2>5 DEF GrantedOK, Rule, Gen, Taken
  <2>9. AuditOK(p, signed, charged)
    BY <2>2, <2>3, <2>4 DEF AuditOK, Clean
  <2> QED
    BY <2>1, <2>2, <2>6, <2>7, <2>8, <2>9 DEF OutcomeOK, ReqOK, Follows
<1> QED
  BY <1>3, <1>4, <1>5

LEMMA TriedGood ==
  ASSUME NEW q, NEW some, NEW keys, NEW signed, NEW charged, GensOK, Running(q),
         Clean(q, signed, charged), q.i > 0
  PROVE  /\ OutcomeOK(gens, Tried(q, some, keys), signed, charged)
         /\ Tried(q, some, keys).rec.stage \in {"lookup", "fresh", "done"} /\ Follows(Tried(q, some, keys), q)
         /\ Tried(q, some, keys).rec.stage = "fresh" => some /\ Token(q).kid \in keys
<1> DEFINE hit == some /\ Verifies(Rule(q), Token(q), q.msg.proof, keys, q.t)
           a == [q.audit EXCEPT !.id = "verified", !.at = "envelope"]
           p == [q EXCEPT !.keys = {}, !.some = FALSE, !.subject = Evidence(q).subject,
                          !.audit.id = "verified", !.audit.at = "envelope"]
           n == [q EXCEPT !.stage = "lookup", !.i = @ + 1, !.keys = {}, !.some = FALSE]
<1>1. /\ q.audit \in AuditEvents /\ q.audit # None /\ q.gen \in Nat /\ q.gen \in 1 .. Len(gens) /\ q.i \in Nat
      /\ DOMAIN q = ReqFields /\ ProofPresented(q.msg)
  BY DEF Running, IsReq
<1>2. CASE hit
  <2>1. /\ DOMAIN p = ReqFields /\ p.stage = q.stage /\ p.msg = q.msg /\ p.ch = q.ch /\ p.gen = q.gen
        /\ p.t = q.t /\ p.i = q.i /\ p.subject = Evidence(q).subject
    BY <1>1 DEF ReqFields
  <2>2. p.audit = a
    BY <1>1 DEF ReqFields
  <2>3. a \in AuditEvents /\ a.exec = q.audit.exec /\ a.resp = q.audit.resp /\ a.quota = q.audit.quota
    <3>1. "verified" \in IdStates /\ "envelope" \in Stages
      BY DEF IdStates, Stages
    <3>2. a = [q.audit EXCEPT !.id = "verified", !.at = "envelope"]
      OBVIOUS
    <3> HIDE DEF a
    <3> QED
      BY <1>1, <3>1, <3>2, AuditShape
  <2>4. Evidence(q).subject = Rule(q).subject
    BY DEF Evidence
  <2>5. Tried(q, some, keys) = Admitted(p)
    BY <1>2 DEF Tried
  <2>6. Token(q).kid \in keys
    BY <1>2 DEF Verifies, VerifyGithub, VerifyForgejo, SignedFor
  <2> HIDE DEF p, a
  <2>7. Running(p) /\ Rule(p) = Rule(q)
    BY <1>1, <2>1, <2>2, <2>3, NoneAssumption DEF Running, IsReq, Rule, Gen
  <2>8. Clean(p, signed, charged)
    BY <1>1, <2>2, <2>3 DEF Clean
  <2>9. /\ OutcomeOK(gens, Admitted(p), signed, charged)
        /\ Admitted(p).rec.stage \in {"fresh", "done"} /\ Follows(Admitted(p), p)
    BY <2>1, <2>4, <2>7, <2>8, AdmittedGood
  <2> QED
    BY <1>2, <2>1, <2>5, <2>6, <2>9 DEF Follows
<1>3. CASE ~hit /\ q.i < Len(Gen(q).rules)
  <2>1. Tried(q, some, keys) = [rec |-> n, ev |-> None]
    BY <1>3 DEF Tried, Goes
  <2>2. /\ DOMAIN n = ReqFields /\ n.stage = "lookup" /\ n.msg = q.msg /\ n.ch = q.ch /\ n.gen = q.gen
        /\ n.t = q.t /\ n.i = q.i + 1 /\ n.audit = q.audit
    BY <1>1 DEF ReqFields
  <2> HIDE DEF n, hit
  <2>3. IsReq(n) /\ GrantedOK(gens, n)
    BY <1>1, <2>2 DEF Running, IsReq, GrantedOK, StageNames, Unsigned, Early, Taken
  <2>4. q.i + 1 <= Len(gens[q.gen].rules)
    BY <1>1, <1>3, InputsAssumption DEF Gen, GensOK
  <2>5. PinnedOK(gens, n)
    BY <1>1, <2>2, <2>4 DEF PinnedOK, Running
  <2>6. AuditOK(n, signed, charged)
    BY <1>1, <2>2 DEF AuditOK, Clean, Unsigned, Early
  <2> QED
    BY <2>1, <2>2, <2>3, <2>5, <2>6 DEF OutcomeOK, ReqOK, Follows
<1>4. CASE ~hit /\ ~(q.i < Len(Gen(q).rules))
  <2>1. Tried(q, some, keys) = Refused(q, "identity", "denied")
    BY <1>4 DEF Tried
  <2>2. "identity" \in Stages /\ Says(q.audit, signed, charged)
    BY <1>1 DEF Stages, Says, Clean
  <2> QED
    BY <1>1, <2>1, <2>2, RefusedGood, ZenonT(40) DEF Follows
<1> QED
  BY <1>2, <1>3, <1>4

LEMMA InvokedGood ==
  ASSUME GensOK, now \in Nat, NEW msg, NEW ch, NEW signed, NEW charged, ~signed, ~charged
  PROVE  /\ OutcomeOK(gens, Invoked(msg, ch), signed, charged)
         /\ Invoked(msg, ch).rec.stage \in {"lookup", "fresh", "done"} /\ Invoked(msg, ch).rec.ch \in {ch, None}
         /\ Invoked(msg, ch).rec.t \in {0, now}
         /\ Invoked(msg, ch).rec.stage = "fresh" => Invoked(msg, ch).rec.i = 0
<1> DEFINE g == gens[Serving]
           q == [Idle EXCEPT !.msg = msg, !.ch = ch, !.gen = Serving, !.t = now]
           qa == [q EXCEPT !.audit = Presented]
           qn == [q EXCEPT !.stage = "lookup", !.i = 1, !.audit = Presented]
<1>1. /\ DOMAIN q = ReqFields /\ q.stage = "idle" /\ q.msg = msg /\ q.ch = ch /\ q.gen = Serving /\ q.t = now
      /\ q.i = 0 /\ q.audit = None
  BY DEF Idle, ReqFields
<1>2. /\ DOMAIN qa = ReqFields /\ qa.msg = msg /\ qa.gen = Serving /\ qa.audit = Presented
  BY <1>1 DEF ReqFields
<1>3. /\ DOMAIN qn = ReqFields /\ qn.stage = "lookup" /\ qn.msg = msg /\ qn.ch = ch /\ qn.gen = Serving
      /\ qn.t = now /\ qn.i = 1 /\ qn.audit = Presented
  BY <1>1 DEF ReqFields
<1>4. Serving \in Nat /\ Serving \in 1 .. Len(gens) /\ Len(g.rules) \in Nat
  BY InputsAssumption DEF GensOK, Serving
<1>5. /\ Presented \in AuditEvents /\ Presented # None /\ Presented.exec = "not_reached"
      /\ Presented.resp = "not_reached" /\ Presented.quota = "not_reached"
  BY NoneAssumption DEF Presented, AuditEvents, Stages
<1> USE DEF Follows
<1>6. CASE ~Verified(g, msg) \/ ~EarlyAudience(g, msg)
  <2>1. Invoked(msg, ch) = Ends(q, None)
    BY <1>6 DEF Invoked
  <2>2. ~Audited(gens, q)
    BY <1>1, <1>6 DEF Audited
  <2>3. Ends(q, None).rec.t = 0
    BY DEF Ends, Idle
  <2> HIDE DEF q, g
  <2>4. q.gen \in Nat /\ q.gen \in 1 .. Len(gens)
    BY <1>1, <1>4
  <2>5. /\ OutcomeOK(gens, Ends(q, None), signed, charged)
        /\ Ends(q, None).rec.stage = "done" /\ Ends(q, None).rec.ch = None
    BY <2>2, <2>4, EndsGood
  <2> QED
    BY <2>1, <2>3, <2>5
<1>7. CASE Verified(g, msg) /\ EarlyAudience(g, msg) /\ ~ProofPresented(msg)
  <2>1. Invoked(msg, ch) = Admitted(q)
    BY <1>7 DEF Invoked
  <2> HIDE DEF q
  <2>2. Running(q) /\ Clean(q, signed, charged)
    BY <1>1, <1>4, <1>7 DEF Running, IsReq, Clean, StageNames, Unsigned
  <2>3. /\ OutcomeOK(gens, Admitted(q), signed, charged)
        /\ Admitted(q).rec.stage \in {"fresh", "done"} /\ Follows(Admitted(q), q)
    BY <1>1, <2>2, AdmittedGood
  <2>4. Admitted(q).rec.stage = "done" => Admitted(q).rec.t = 0
    BY DEF Admitted, Refused, Ends, Idle, Goes
  <2> QED
    BY <1>1, <2>1, <2>3, <2>4
<1>8. CASE /\ Verified(g, msg) /\ EarlyAudience(g, msg) /\ ProofPresented(msg)
           /\ ~ProofShapeOk(msg) \/ g.rules = << >>
  <2>1. Invoked(msg, ch) = Refused(qa, "identity", "denied")
    BY <1>8 DEF Invoked
  <2>2. "identity" \in Stages /\ Says(qa.audit, signed, charged)
    BY <1>2, <1>5 DEF Stages, Says
  <2>3. Refused(qa, "identity", "denied").rec.t = 0
    BY DEF Refused, Ends, Idle
  <2> HIDE DEF qa
  <2> QED
    BY <1>2, <1>4, <1>5, <1>8, <2>1, <2>2, <2>3, RefusedGood, ZenonT(40)
<1>9. CASE /\ Verified(g, msg) /\ EarlyAudience(g, msg) /\ ProofPresented(msg)
           /\ ProofShapeOk(msg) /\ g.rules # << >>
  <2>1. Invoked(msg, ch) = [rec |-> qn, ev |-> None]
    BY <1>9 DEF Invoked, Goes
  <2>2. msg.proof # None
    BY <1>9 DEF ProofShapeOk
  <2>3. 1 <= Len(gens[Serving].rules)
    BY <1>4, <1>9
  <2> HIDE DEF qn, q
  <2>4. IsReq(qn) /\ PinnedOK(gens, qn) /\ GrantedOK(gens, qn)
    BY <1>3, <1>4, <1>5, <1>9, <2>2, <2>3
       DEF IsReq, PinnedOK, GrantedOK, StageNames, Unsigned, Early, Taken, Active
  <2>5. AuditOK(qn, signed, charged)
    BY <1>3, <1>5 DEF AuditOK, Unsigned, Early
  <2> QED
    BY <1>3, <2>1, <2>4, <2>5 DEF OutcomeOK, ReqOK
<1> QED
  BY <1>6, <1>7, <1>8, <1>9

(* A request past its provider proof, on the terms of its rule. *)
Bound(q) ==
  q.i > 0 => q.subject = gens[q.gen].rules[q.i].subject /\ q.target \in gens[q.gen].rules[q.i].targets

LEMMA RepliesGood ==
  ASSUME NEW q, NEW audit, NEW signed, NEW charged, Running(q), Bound(q),
         NEW at \in Stages, NEW why \in Stages \cup QuotaDenied \cup {"completed"},
         NEW outcome \in {"success", "denied", "failure"},
         q.audit = None => ~charged,
         q.audit # None => /\ audit \in AuditEvents /\ audit.exec \in {"not_reached", "succeeded", "failed"}
                           /\ (audit.exec = "succeeded" => signed) /\ (signed => audit.exec \in {"succeeded", "failed"})
                           /\ (audit.quota = "charged") <=> charged
                           /\ outcome = "success" => audit.exec = "succeeded"
  PROVE  /\ OutcomeOK(gens, Replies(q, audit, at, why, outcome), signed, charged)
         /\ Replies(q, audit, at, why, outcome).rec.stage = "protect"
         /\ Follows(Replies(q, audit, at, why, outcome), q)
<1> DEFINE fin == [at |-> at, why |-> why, outcome |-> outcome]
           m == [audit EXCEPT !.resp = "started", !.at = "response"]
           a == Marked(q, m)
           p == [q EXCEPT !.stage = "protect", !.fin = fin, !.audit = a]
<1>1. /\ DOMAIN p = ReqFields /\ p.stage = "protect" /\ p.msg = q.msg /\ p.ch = q.ch /\ p.gen = q.gen
      /\ p.t = q.t /\ p.i = q.i /\ p.subject = q.subject /\ p.target = q.target /\ p.audit = a /\ p.fin = fin
  BY DEF Running, IsReq, ReqFields
<1>2. Replies(q, audit, at, why, outcome) = [rec |-> p, ev |-> None]
  BY DEF Replies, Goes
<1>3. IF q.audit = None THEN a = None
      ELSE a \in AuditEvents /\ a # None /\ a.exec = audit.exec /\ a.resp = "started" /\ a.quota = audit.quota
  <2>1. CASE q.audit = None
    BY <2>1 DEF Marked
  <2>2. CASE q.audit # None
    <3>1. a = m /\ audit \in AuditEvents /\ "started" \in StepStates /\ "response" \in Stages
      BY <2>2 DEF Marked, StepStates, Stages
    <3>2. m \in AuditEvents /\ m.exec = audit.exec /\ m.resp = "started" /\ m.quota = audit.quota
      BY <3>1, AuditShape
    <3> QED
      BY <2>2, <3>1, <3>2, NoneAssumption
  <2> QED
    BY <2>1, <2>2
<1>4. DOMAIN fin = {"at", "why", "outcome"} /\ fin.at = at /\ fin.why = why /\ fin.outcome = outcome
  OBVIOUS
<1> HIDE DEF p, a, m, fin
<1>5. IsReq(p)
  BY <1>1, <1>3 DEF IsReq, Running, StageNames
<1>6. PinnedOK(gens, p)
  BY <1>1, <1>3 DEF PinnedOK, Running, IsReq, Early
<1>7. GrantedOK(gens, p)
  BY <1>1 DEF GrantedOK, Bound, Taken
<1>8. AuditOK(p, signed, charged)
  BY <1>1, <1>3, <1>4 DEF AuditOK, Unsigned, Early
<1> QED
  BY <1>1, <1>2, <1>5, <1>6, <1>7, <1>8 DEF OutcomeOK, ReqOK, Follows

-----------------------------------------------------------------------------
(* What the invariant says of a running request.                           *)

LEMMA RunningReq ==
  ASSUME RequestsOK, NEW r \in Reqs, req[r].stage \in Active
  PROVE  /\ Running(req[r]) /\ req[r].gen \in Nat /\ ReqOK(gens, req[r], Made(r), Charged(r))
         /\ req[r].stage \notin Early => Bound(req[r])
         /\ req[r].audit # None => req[r].audit \in AuditEvents
<1>1. ReqOK(gens, req[r], Made(r), Charged(r))
  BY DEF RequestsOK
<1>2. IsReq(req[r]) /\ PinnedOK(gens, req[r]) /\ GrantedOK(gens, req[r])
  BY <1>1 DEF ReqOK
<1> QED
  BY <1>1, <1>2 DEF Running, PinnedOK, GrantedOK, Bound, Active, IsReq

LEMMA CleanReq ==
  ASSUME RequestsOK, NEW r \in Reqs, req[r].stage \in Early \cup {"fresh", "resolve"}
  PROVE  /\ Running(req[r]) /\ Clean(req[r], Made(r), Charged(r)) /\ req[r].gen \in Nat
         /\ req[r].stage \notin Early => Bound(req[r])
         /\ req[r].stage \in Early => req[r].i > 0
<1>1. req[r].stage \in Active /\ req[r].stage \in Unsigned \ {"backend"}
  BY DEF Active, StageNames, Unsigned, Early
<1>2. ReqOK(gens, req[r], Made(r), Charged(r))
  BY DEF RequestsOK
<1>3. Clean(req[r], Made(r), Charged(r))
  BY <1>1, <1>2 DEF ReqOK, AuditOK, Clean
<1>4. req[r].stage \in Early => req[r].i > 0
  BY <1>2 DEF ReqOK, PinnedOK
<1> QED
  BY <1>1, <1>3, <1>4, RunningReq

-----------------------------------------------------------------------------
(* The steps, one lemma for each: what a step leaves is consistent.        *)

(* A request past its proof does not go back to the rules. *)
Onward(o, q) ==
  q.stage \notin Early \cup {"idle"} =>
    \/ o.rec.stage = "done"
    \/ o.rec.stage \notin Early /\ o.rec.msg = q.msg /\ o.rec.t = q.t /\ o.rec.i = q.i

(* One step of request r.  Only a request that took its challenge in this  *)
(* step may newly be among the holders.                                    *)
Leaves(r, o) ==
  /\ Becomes(r, o) /\ OutcomeOK(gens, o, Made(r)', Charged(r)') /\ Onward(o, req[r])
  /\ o.rec.ch \in issued \cup {None}
  /\ o.rec.stage \in Taken => req[r].stage \in Taken /\ o.rec.ch = req[r].ch

Steady == UNCHANGED <<storeVars, gens, effects, charges>>

LEMMA MadeSame ==
  ASSUME effects' = effects, charges' = charges, NEW r
  PROVE  (Made(r)' <=> Made(r)) /\ (Charged(r)' <=> Charged(r))
  BY DEF Made, Charged

LEMMA ArriveStep ==
  ASSUME InvocationInv, NEW r \in Reqs, Arrive(r)
  PROVE  Steady /\ req[r].stage # "done" /\ \E o : Leaves(r, o)
<1>1. Steady /\ req[r].stage = "idle"
  BY DEF Arrive, Still, World, Steady
<1>2. PICK msg \in Messages : \E ch \in IF msg.challenge THEN issued ELSE {None} : Becomes(r, Invoked(msg, ch))
  BY DEF Arrive
<1>3. PICK ch \in IF msg.challenge THEN issued ELSE {None} : Becomes(r, Invoked(msg, ch))
  BY <1>2
<1>4. ~Made(r)' /\ ~Charged(r)'
  <2>1. ReqOK(gens, req[r], Made(r), Charged(r))
    BY DEF InvocationInv, RequestsOK
  <2>2. ~Made(r) /\ ~Charged(r)
    BY <1>1, <2>1 DEF ReqOK, AuditOK, Unsigned
  <2> QED
    BY <1>1, <2>2, MadeSame DEF Steady
<1>5. /\ OutcomeOK(gens, Invoked(msg, ch), Made(r)', Charged(r)')
      /\ Invoked(msg, ch).rec.stage \in {"lookup", "fresh", "done"} /\ Invoked(msg, ch).rec.ch \in {ch, None}
  BY <1>4, InvokedGood DEF InvocationInv, StoreOK
<1>6. Leaves(r, Invoked(msg, ch))
  BY <1>1, <1>3, <1>5 DEF Leaves, Onward, Taken
<1> QED
  BY <1>1, <1>6

(* A turn of the loop over the rules, after whichever lookup. *)
LEMMA TriedLeaves ==
  ASSUME InvocationInv, NEW r \in Reqs, NEW some, NEW keys, req[r].stage \in Early,
         Becomes(r, Tried(req[r], some, keys)), effects' = effects, charges' = charges
  PROVE  Leaves(r, Tried(req[r], some, keys))
<1>1. Running(req[r]) /\ Clean(req[r], Made(r), Charged(r)) /\ req[r].i > 0 /\ GensOK
  BY CleanReq DEF InvocationInv
<1>2. Clean(req[r], Made(r)', Charged(r)')
  BY <1>1, MadeSame DEF Clean
<1>3. /\ OutcomeOK(gens, Tried(req[r], some, keys), Made(r)', Charged(r)')
      /\ Tried(req[r], some, keys).rec.stage \in {"lookup", "fresh", "done"}
      /\ Follows(Tried(req[r], some, keys), req[r])
  BY <1>1, <1>2, TriedGood
<1>4. req[r].ch \in issued \cup {None}
  BY DEF InvocationInv, HoldersOK
<1> QED
  BY <1>3, <1>4 DEF Leaves, Follows, Onward, Early, Taken

(* A lookup that waits for an answer. *)
LEMMA WaitsLeaves ==
  ASSUME InvocationInv, NEW r \in Reqs, NEW stage \in {"fetch", "fetched"}, NEW o, req[r].stage \in Early,
         Becomes(r, o), effects' = effects, charges' = charges, NEW p, o = Goes(p),
         DOMAIN p = ReqFields, p.stage = stage, p.msg = req[r].msg, p.ch = req[r].ch, p.gen = req[r].gen,
         p.t = req[r].t, p.i = req[r].i, p.audit = req[r].audit
  PROVE  Leaves(r, o)
<1>1. Running(req[r]) /\ Clean(req[r], Made(r), Charged(r)) /\ req[r].i > 0
  BY CleanReq DEF InvocationInv
<1>2. Clean(req[r], Made(r)', Charged(r)')
  BY <1>1, MadeSame DEF Clean
<1>3. o.rec = p /\ o.ev = None
  BY DEF Goes
<1>4. IsReq(p) /\ PinnedOK(gens, p) /\ GrantedOK(gens, p)
  BY <1>1 DEF Running, IsReq, PinnedOK, GrantedOK, StageNames, Unsigned, Early, Taken, Active
<1>5. AuditOK(p, Made(r)', Charged(r)')
  BY <1>2 DEF Clean, AuditOK, Unsigned, Early
<1>6. p.ch \in issued \cup {None}
  BY DEF InvocationInv, HoldersOK
<1> QED
  BY <1>3, <1>4, <1>5, <1>6 DEF Leaves, Onward, OutcomeOK, ReqOK, Taken

LEMMA LookupStep ==
  ASSUME InvocationInv, NEW r \in Reqs, Lookup(r)
  PROVE  Steady /\ req[r].stage # "done" /\ \E o : Leaves(r, o)
<1> DEFINE q == req[r]
           d == Serve(Cache(q), Token(q).kid, q.t)
           p == [q EXCEPT !.stage = "fetch", !.keys = d.serve, !.some = d.some]
<1>1. Steady /\ q.stage = "lookup" /\ q.stage \in Early
  BY DEF Lookup, Steady, Early
<1>2. CASE d.fetch
  <2>1. Becomes(r, Goes(p))
    BY <1>2 DEF Lookup
  <2>2. DOMAIN q = ReqFields
    BY <1>1, CleanReq DEF InvocationInv, Running, IsReq
  <2>3. /\ DOMAIN p = ReqFields /\ p.stage = "fetch" /\ p.msg = q.msg /\ p.ch = q.ch /\ p.gen = q.gen
        /\ p.t = q.t /\ p.i = q.i /\ p.audit = q.audit
    BY <2>2 DEF ReqFields
  <2> HIDE DEF p, d
  <2>4. Leaves(r, Goes(p))
    BY <1>1, <2>1, <2>3, WaitsLeaves DEF Steady
  <2> QED
    BY <1>1, <2>4
<1>3. CASE ~d.fetch
  <2>1. Becomes(r, Tried(q, d.some, d.serve))
    BY <1>3 DEF Lookup
  <2> HIDE DEF d
  <2>2. Leaves(r, Tried(q, d.some, d.serve))
    BY <1>1, <2>1, TriedLeaves DEF Steady
  <2> QED
    BY <1>1, <2>2
<1> QED
  BY <1>2, <1>3

LEMMA AnswerStep ==
  ASSUME InvocationInv, NEW r \in Reqs, Answer(r)
  PROVE  Steady /\ req[r].stage # "done" /\ \E o : Leaves(r, o)
<1> DEFINE q == req[r]
           p == [q EXCEPT !.stage = "fetched", !.keys = Keys]
<1>1. Steady /\ q.stage = "fetch" /\ q.stage \in Early /\ Becomes(r, Goes(p))
  BY DEF Answer, Still, World, Steady, Early
<1>2. DOMAIN q = ReqFields
  BY <1>1, CleanReq DEF InvocationInv, Running, IsReq
<1>3. /\ DOMAIN p = ReqFields /\ p.stage = "fetched" /\ p.msg = q.msg /\ p.ch = q.ch /\ p.gen = q.gen
      /\ p.t = q.t /\ p.i = q.i /\ p.audit = q.audit
  BY <1>2 DEF ReqFields
<1> HIDE DEF p
<1>4. Leaves(r, Goes(p))
  BY <1>1, <1>3, WaitsLeaves DEF Steady
<1> QED
  BY <1>1, <1>4

LEMMA TriedSteps ==
  ASSUME InvocationInv, NEW r \in Reqs, BadAnswer(r) \/ Fetched(r) \/ FetchFails(r)
  PROVE  Steady /\ req[r].stage # "done" /\ \E o : Leaves(r, o)
<1>1. /\ Steady /\ req[r].stage \in {"fetch", "fetched"}
      /\ \E some, keys : Becomes(r, Tried(req[r], some, keys))
  BY DEF BadAnswer, Fetched, FetchFails, Still, World, Steady
<1>2. PICK some, keys : Becomes(r, Tried(req[r], some, keys))
  BY <1>1
<1>3. Leaves(r, Tried(req[r], some, keys))
  BY <1>1, <1>2, TriedLeaves DEF Early, Steady
<1> QED
  BY <1>1, <1>3

(* A step that does not make a holder of its request. *)
LEMMA OutLeaves ==
  ASSUME InvocationInv, NEW r \in Reqs, NEW o, Becomes(r, o), OutcomeOK(gens, o, Made(r)', Charged(r)'),
         o.rec.stage \in {"protect", "done"}, Follows(o, req[r])
  PROVE  Leaves(r, o)
<1>1. req[r].ch \in issued \cup {None}
  BY DEF InvocationInv, HoldersOK
<1> QED
  BY <1>1 DEF Leaves, Follows, Onward, Early, Taken

(* consume_freshness_challenge: a request goes on only with a challenge    *)
(* that this step takes, or without one if none is needed.                 *)
LEMMA FreshStep ==
  ASSUME InvocationInv, NEW r \in Reqs, Fresh(r)
  PROVE  \E o : /\ Becomes(r, o) /\ OutcomeOK(gens, o, Made(r)', Charged(r)') /\ Onward(o, req[r])
                /\ o.rec.ch = req[r].ch /\ o.rec.stage \in {"resolve", "protect"}
                /\ o.rec.stage = "resolve" /\ req[r].ch # None =>
                     Verdict(req[r].ch, Holder(req[r]), req[r].gen) = "ok"
<1> DEFINE q == req[r]
           need == q.msg.proof # None \/ RequireChallenge
           ok == IF q.ch = None THEN ~need ELSE Verdict(q.ch, Holder(q), q.gen) = "ok"
           m == [q.audit EXCEPT !.fresh = "accepted", !.at = "subject"]
           a == Marked(q, m)
           p == [q EXCEPT !.stage = "resolve", !.audit = a]
           n == [q.audit EXCEPT !.fresh = "denied"]
<1>1. q.stage = "fresh" /\ effects' = effects /\ charges' = charges
  BY DEF Fresh
<1>2. Becomes(r, IF ok THEN Goes(p) ELSE Replies(q, Marked(q, n), "freshness", "freshness", "denied"))
  BY DEF Fresh
<1>3. Running(q) /\ Clean(q, Made(r), Charged(r)) /\ Bound(q)
  BY <1>1, CleanReq DEF InvocationInv, Early
<1>4. Clean(q, Made(r)', Charged(r)')
  BY <1>1, <1>3, MadeSame DEF Clean
<1>5. q.audit # None => q.audit \in AuditEvents
  BY <1>3 DEF Running, IsReq
<1>6. CASE ok
  <2>1. /\ DOMAIN p = ReqFields /\ p.stage = "resolve" /\ p.msg = q.msg /\ p.ch = q.ch /\ p.gen = q.gen
        /\ p.t = q.t /\ p.i = q.i /\ p.subject = q.subject /\ p.target = q.target /\ p.audit = a
    BY <1>3 DEF Running, IsReq, ReqFields
  <2>2. IF q.audit = None THEN a = None
        ELSE a \in AuditEvents /\ a.exec = q.audit.exec /\ a.resp = q.audit.resp /\ a.quota = q.audit.quota
    <3>1. CASE q.audit = None
      BY <3>1 DEF Marked
    <3>2. CASE q.audit # None
      <4>1. a = m /\ "accepted" \in FreshStates /\ "subject" \in Stages
        BY <3>2 DEF Marked, FreshStates, Stages
      <4> QED
        BY <1>5, <3>2, <4>1, AuditShape
    <3> QED
      BY <3>1, <3>2
  <2>3. q.i > 0 \/ RequireChallenge => q.ch # None
    BY <1>3, <1>6 DEF Running
  <2>4. Goes(p).rec = p /\ Goes(p).ev = None
    BY DEF Goes
  <2> HIDE DEF p, a, m
  <2>5. IsReq(p) /\ PinnedOK(gens, p)
    BY <1>3, <2>1, <2>2, NoneAssumption DEF Running, IsReq, PinnedOK, StageNames, Unsigned, Early
  <2>6. GrantedOK(gens, p)
    BY <1>3, <2>1, <2>3 DEF Bound, GrantedOK
  <2>7. AuditOK(p, Made(r)', Charged(r)')
    BY <1>4, <2>1, <2>2, NoneAssumption DEF Clean, AuditOK
  <2>8. OutcomeOK(gens, Goes(p), Made(r)', Charged(r)')
    BY <2>1, <2>4, <2>5, <2>6, <2>7 DEF OutcomeOK, ReqOK
  <2> QED
    BY <1>2, <1>6, <2>1, <2>4, <2>8 DEF Onward, Early
<1>7. CASE ~ok
  <2> DEFINE o == Replies(q, Marked(q, n), "freshness", "freshness", "denied")
  <2>1. q.audit # None => /\ Marked(q, n) \in AuditEvents /\ Marked(q, n).exec = q.audit.exec
                          /\ Marked(q, n).quota = q.audit.quota
    <3>1. "denied" \in FreshStates
      BY DEF FreshStates
    <3> QED
      BY <1>5, <3>1, AuditShape DEF Marked
  <2>2. "freshness" \in Stages
    BY DEF Stages
  <2>3. OutcomeOK(gens, o, Made(r)', Charged(r)') /\ o.rec.stage = "protect" /\ Follows(o, q)
    <3> DEFINE b == Marked(q, n)
    <3>1. q.audit # None => /\ b \in AuditEvents /\ b.exec \in {"not_reached", "succeeded", "failed"}
                            /\ (b.exec = "succeeded" => Made(r)') /\ (Made(r)' => b.exec \in {"succeeded", "failed"})
                            /\ (b.quota = "charged") <=> Charged(r)'
      BY <1>4, <2>1 DEF Clean
    <3>2. (q.audit = None => ~Charged(r)') /\ "freshness" \in Stages \cup QuotaDenied \cup {"completed"}
      BY <1>4, <2>2 DEF Clean
    <3> HIDE DEF b, n
    <3> QED
      BY <1>3, <2>2, <3>1, <3>2, RepliesGood, ZenonT(40) DEF b
  <2> HIDE DEF o
  <2>4. Becomes(r, o)
    BY <1>2, <1>7 DEF o
  <2> QED
    BY <2>3, <2>4 DEF Follows, Onward, Early
<1> QED
  BY <1>6, <1>7

(* Past the charge: the recipient and the decision to decrypt. *)
LEMMA DecidedGood ==
  ASSUME NEW q, NEW signed, NEW charged, Running(q), Bound(q), ~signed, q.stage = "resolve",
         q.i > 0 \/ RequireChallenge => q.ch # None,
         charged <=> (q.i > 0),
         q.audit # None => /\ q.audit.exec = "not_reached" /\ q.audit.resp = "not_reached"
                           /\ q.audit.quota = "charged"
  PROVE  /\ OutcomeOK(gens, Decided(q), signed, charged) /\ Follows(Decided(q), q)
         /\ Decided(q).rec.stage \in {"open", "material", "done"}
<1> DEFINE m == [q.audit EXCEPT !.dec = "allowed", !.at = "decryption"]
           a == Marked(q, m)
           p == [q EXCEPT !.stage = IF ByProvider(q) THEN "open" ELSE "material", !.audit = a]
           n == Marked(q, [q.audit EXCEPT !.dec = "denied"])
           f == [q EXCEPT !.audit = n]
<1>1. /\ DOMAIN q = ReqFields /\ q.gen \in Nat /\ q.gen \in 1 .. Len(gens) /\ q.i \in Nat
      /\ ((q.audit # None) <=> ProofPresented(q.msg)) /\ ((q.i > 0) <=> (q.audit # None))
      /\ q.audit # None => q.audit \in AuditEvents
  BY DEF Running, IsReq
<1>2. q.audit # None => Says(q.audit, signed, charged)
  BY <1>1 DEF Says
<1>3. "recipient" \in Stages /\ "decrypt" \in Stages /\ "decryption" \in Stages /\ {"denied", "allowed"} \subseteq Decisions
  BY DEF Stages, Decisions
<1>4. CASE ~RecipientOk(q)
  <2>1. Decided(q) = Refused(q, "recipient", "denied")
    BY <1>4 DEF Decided
  <2> QED
    BY <1>1, <1>2, <1>3, <2>1, RefusedGood DEF Follows
<1>5. CASE RecipientOk(q) /\ ~Allowed(q, "decrypt", RequestKey)
  <2>1. Decided(q) = Refused(f, "decrypt", "denied")
    BY <1>1, <1>5 DEF Decided, ReqFields, Marked
  <2>2. f.gen = q.gen /\ f.msg = q.msg /\ f.audit = n
    BY <1>1 DEF ReqFields
  <2>3. IF q.audit = None THEN n = None
        ELSE n \in AuditEvents /\ n # None /\ n.exec = q.audit.exec /\ n.quota = q.audit.quota
    <3>1. CASE q.audit = None
      BY <3>1 DEF Marked
    <3>2. CASE q.audit # None
      <4>1. n = [q.audit EXCEPT !.dec = "denied"]
        BY <3>2 DEF Marked
      <4> QED
        BY <1>1, <1>3, <3>2, <4>1, AuditShape, NoneAssumption
    <3> QED
      BY <3>1, <3>2
  <2> HIDE DEF f, n
  <2>4. f.audit # None => Says(f.audit, signed, charged)
    BY <1>2, <2>2, <2>3 DEF Says
  <2>5. f.gen \in Nat /\ f.gen \in 1 .. Len(gens) /\ ((f.audit # None) <=> ProofPresented(f.msg))
    BY <1>1, <2>2, <2>3
  <2>6. /\ OutcomeOK(gens, Refused(f, "decrypt", "denied"), signed, charged)
        /\ Refused(f, "decrypt", "denied").rec.stage = "done" /\ Refused(f, "decrypt", "denied").rec.ch = None
    BY <1>3, <2>4, <2>5, RefusedGood
  <2> QED
    BY <2>1, <2>6 DEF Follows
<1>6. CASE RecipientOk(q) /\ Allowed(q, "decrypt", RequestKey)
  <2>1. Decided(q) = Goes(p)
    BY <1>1, <1>6 DEF Decided, ReqFields, Marked
  <2>2. /\ DOMAIN p = ReqFields /\ p.stage \in {"open", "material"} /\ p.msg = q.msg /\ p.ch = q.ch /\ p.gen = q.gen
        /\ p.t = q.t /\ p.i = q.i /\ p.subject = q.subject /\ p.target = q.target /\ p.audit = a
    BY <1>1 DEF ReqFields
  <2>3. IF q.audit = None THEN a = None
        ELSE /\ a \in AuditEvents /\ a # None /\ a.exec = q.audit.exec /\ a.resp = q.audit.resp
             /\ a.quota = q.audit.quota
    <3>1. CASE q.audit = None
      BY <3>1 DEF Marked
    <3>2. CASE q.audit # None
      <4>1. a = m /\ "allowed" \in Decisions /\ q.audit \in AuditEvents
        BY <1>1, <1>3, <3>2 DEF Marked
      <4>2. m \in AuditEvents /\ m.exec = q.audit.exec /\ m.resp = q.audit.resp /\ m.quota = q.audit.quota
        BY <1>3, <4>1, AuditShape
      <4> QED
        BY <3>2, <4>1, <4>2, NoneAssumption
    <3> QED
      BY <3>1, <3>2
  <2>4. <<p.subject, "decrypt", RequestKey>> \in gens[p.gen].grants
    BY <1>6, <2>2 DEF Allowed, Gen
  <2>5. Goes(p).rec = p /\ Goes(p).ev = None
    BY DEF Goes
  <2> HIDE DEF p, a, m
  <2>6. IsReq(p) /\ PinnedOK(gens, p)
    BY <2>2, <2>3 DEF Running, IsReq, PinnedOK, StageNames, Unsigned, Early
  <2>7. GrantedOK(gens, p)
    BY <2>2, <2>4 DEF Bound, GrantedOK
  <2>8. AuditOK(p, signed, charged)
    BY <1>1, <2>2, <2>3 DEF AuditOK, Early
  <2> QED
    BY <2>1, <2>2, <2>5, <2>6, <2>7, <2>8 DEF OutcomeOK, ReqOK, Follows
<1> QED
  BY <1>4, <1>5, <1>6

LEMMA ChargeResult ==
  ASSUME NEW table, NEW gen, NEW key, NEW limit, NEW keep, NEW t
  PROVE  Charge(table, gen, key, limit, keep, t).result \in {"charged"} \cup QuotaDenied
  BY DEF Charge, QuotaDenied

(* Resolve, by its four ends: refused, decided without a provider, charged *)
(* and decided, and denied by the quota.                                   *)
LEMMA ResolveStep ==
  ASSUME InvocationInv, NEW r \in Reqs, Resolve(r)
  PROVE  /\ UNCHANGED <<storeVars, gens, effects>> /\ req[r].stage # "done"
         /\ charges \subseteq charges' /\ \A x \in charges' : x \in charges \/ x.req = r
         /\ \E o : Leaves(r, o)
<1> DEFINE q == req[r]
           a == [q EXCEPT !.subject = Actor(q)]
           c == Charge(quota, q.gen, RunKey(q), Evidence(q).limit, Retention(q), now)
           paid == [req |-> r, key |-> RunKey(q), at |-> now, table |-> c.table.gen, limit |-> Evidence(q).limit,
                    keep |-> Retention(q)]
           b == [a EXCEPT !.audit.quota = "charged", !.audit.at = "decrypt"]
           bad == a.subject = None \/ (q.msg.issuer # None /\ q.msg.issuer # a.subject)
<1>1. q.stage = "resolve" /\ UNCHANGED <<storeVars, gens, effects>>
  BY DEF Resolve
<1>2. Running(q) /\ Clean(q, Made(r), Charged(r)) /\ Bound(q)
  BY <1>1, CleanReq DEF InvocationInv, Early
<1>3. /\ DOMAIN q = ReqFields /\ q.gen \in Nat /\ q.gen \in 1 .. Len(gens) /\ q.i \in Nat
      /\ ((q.audit # None) <=> ProofPresented(q.msg)) /\ ((q.i > 0) <=> (q.audit # None))
      /\ q.audit # None => q.audit \in AuditEvents
  BY <1>2 DEF Running, IsReq
<1>4. q.i > 0 \/ RequireChallenge => q.ch # None
  <2>1. ReqOK(gens, q, Made(r), Charged(r))
    BY DEF InvocationInv, RequestsOK
  <2> QED
    BY <1>1, <2>1 DEF ReqOK, GrantedOK, Taken
<1>5. /\ DOMAIN a = ReqFields /\ a.stage = "resolve" /\ a.msg = q.msg /\ a.ch = q.ch /\ a.gen = q.gen
      /\ a.t = q.t /\ a.i = q.i /\ a.subject = Actor(q) /\ a.target = q.target /\ a.audit = q.audit
  BY <1>1, <1>3 DEF ReqFields
<1>6. ~Made(r)' /\ ~Made(r)
  BY <1>1, <1>2 DEF Clean, Made
<1>7. CASE bad
  <2> DEFINE o == Refused(q, "subject", "denied")
  <2>1. Becomes(r, o) /\ charges' = charges
    BY <1>7 DEF Resolve
  <2>2. Clean(q, Made(r)', Charged(r)')
    BY <1>1, <1>2, <2>1, MadeSame DEF Clean
  <2>3. "subject" \in Stages /\ (q.audit # None => Says(q.audit, Made(r)', Charged(r)'))
    BY <1>3, <2>2 DEF Stages, Says, Clean
  <2>4. OutcomeOK(gens, o, Made(r)', Charged(r)') /\ o.rec.stage = "done" /\ o.rec.ch = None
    BY <1>3, <2>3, RefusedGood
  <2> HIDE DEF o
  <2>5. Leaves(r, o)
    BY <2>1, <2>4, OutLeaves DEF Follows
  <2> QED
    BY <1>1, <2>1, <2>5
<1>8. ASSUME ~bad PROVE Running(a) /\ Bound(a)
  <2>1. q.i > 0 => Actor(q) = q.subject
    BY <1>5, <1>8 DEF Actor, ByProvider
  <2> HIDE DEF a
  <2> QED
    BY <1>2, <1>3, <1>5, <2>1 DEF Running, IsReq, Bound, StageNames, Unsigned
<1>9. CASE ~bad /\ ~ByProvider(q)
  <2>1. Becomes(r, Decided(a)) /\ charges' = charges
    BY <1>9 DEF Resolve
  <2>2. ~Charged(r)' /\ q.i = 0 /\ q.audit = None
    BY <1>1, <1>2, <1>3, <1>9, <2>1, MadeSame DEF Clean, ByProvider
  <2> HIDE DEF a
  <2>3. /\ OutcomeOK(gens, Decided(a), Made(r)', Charged(r)') /\ Follows(Decided(a), a)
        /\ Decided(a).rec.stage \in {"open", "material", "done"}
    BY <1>4, <1>5, <1>6, <1>8, <1>9, <2>2, DecidedGood
  <2>4. q.ch \in issued \cup {None}
    BY DEF InvocationInv, HoldersOK
  <2>5. Leaves(r, Decided(a))
    BY <1>1, <1>5, <2>1, <2>3, <2>4 DEF Leaves, Follows, Onward, Early, Taken
  <2> QED
    BY <1>1, <2>1, <2>5
<1>10. CASE ~bad /\ ByProvider(q) /\ c.result = "charged"
  <2>1. Becomes(r, Decided(b)) /\ charges' = charges \cup {paid}
    BY <1>10 DEF Resolve
  <2>2. Charged(r)' /\ q.i > 0 /\ q.audit # None /\ q.audit \in AuditEvents
    <3>1. paid \in charges' /\ paid.req = r
      BY <2>1
    <3> QED
      BY <1>3, <1>10, <3>1 DEF Charged, ByProvider
  <2>3. /\ DOMAIN b = ReqFields /\ b.stage = "resolve" /\ b.msg = q.msg /\ b.ch = q.ch /\ b.gen = q.gen
        /\ b.t = q.t /\ b.i = q.i /\ b.subject = a.subject /\ b.target = q.target
        /\ b.audit = [q.audit EXCEPT !.quota = "charged", !.at = "decrypt"]
    <3> HIDE DEF a
    <3> QED
      BY <1>5 DEF ReqFields
  <2>4. "charged" \in QuotaStates /\ "decrypt" \in Stages
    BY DEF QuotaStates, Stages
  <2>5. /\ b.audit \in AuditEvents /\ b.audit.exec = q.audit.exec /\ b.audit.resp = q.audit.resp
        /\ b.audit.quota = "charged"
    <3> HIDE DEF b
    <3> QED
      BY <2>2, <2>3, <2>4, AuditShape
  <2> HIDE DEF a, b, paid
  <2>6. Running(b) /\ Bound(b)
    BY <1>3, <1>5, <1>8, <1>10, <2>2, <2>3, <2>5, NoneAssumption DEF Running, IsReq, Bound
  <2>7. b.audit.exec = "not_reached" /\ b.audit.resp = "not_reached"
    BY <1>2, <2>2, <2>5 DEF Clean
  <2>8. /\ OutcomeOK(gens, Decided(b), Made(r)', Charged(r)') /\ Follows(Decided(b), b)
        /\ Decided(b).rec.stage \in {"open", "material", "done"}
    BY <1>4, <1>6, <2>2, <2>3, <2>5, <2>6, <2>7, DecidedGood
  <2>9. q.ch \in issued \cup {None}
    BY DEF InvocationInv, HoldersOK
  <2>10. Leaves(r, Decided(b))
    BY <1>1, <2>1, <2>3, <2>8, <2>9 DEF Leaves, Follows, Onward, Early, Taken
  <2>11. paid.req = r
    BY DEF paid
  <2> QED
    BY <1>1, <2>1, <2>10, <2>11
<1>11. CASE ~bad /\ ByProvider(q) /\ c.result # "charged"
  <2> DEFINE n == [a.audit EXCEPT !.quota = c.result]
             o == Replies(a, n, "quota", c.result, "denied")
  <2>1. Becomes(r, o) /\ charges' = charges
    BY <1>11 DEF Resolve
  <2>2. c.result \in QuotaDenied
    BY <1>11, ChargeResult
  <2> HIDE DEF c
  <2>3. Clean(q, Made(r)', Charged(r)') /\ q.audit # None /\ q.audit \in AuditEvents
    BY <1>1, <1>2, <1>3, <1>11, <2>1, MadeSame DEF Clean, ByProvider
  <2>4. n \in AuditEvents /\ n.exec = q.audit.exec /\ n.quota = c.result
    <3>1. c.result \in QuotaStates
      BY <2>2 DEF QuotaStates
    <3> HIDE DEF a
    <3> QED
      BY <1>5, <2>3, <3>1, AuditShape
  <2>5. /\ n.exec \in {"not_reached", "succeeded", "failed"} /\ (n.exec = "succeeded" => Made(r)') /\ (Made(r)' => n.exec \in {"succeeded", "failed"})
        /\ ((n.quota = "charged") <=> Charged(r)')
    BY <1>11, <2>3, <2>4 DEF Clean
  <2>6. "quota" \in Stages /\ c.result \in Stages \cup QuotaDenied \cup {"completed"}
    BY <2>2 DEF Stages
  <2> HIDE DEF a, n
  <2>7. OutcomeOK(gens, o, Made(r)', Charged(r)') /\ o.rec.stage = "protect" /\ Follows(o, a)
    BY <1>5, <1>8, <1>11, <2>3, <2>4, <2>5, <2>6, RepliesGood, ZenonT(40)
  <2> HIDE DEF o
  <2>8. Leaves(r, o)
    BY <1>5, <2>1, <2>7, OutLeaves DEF Follows
  <2> QED
    BY <1>1, <2>1, <2>8
<1> QED
  BY <1>7, <1>9, <1>10, <1>11

(* A request that moves on with its record but for its stage, and its      *)
(* audit, if it has one, marked.                                           *)
LEMMA MovesLeaves ==
  ASSUME InvocationInv, NEW r \in Reqs, req[r].stage \in Taken, effects' = effects, charges' = charges, NEW p,
         Becomes(r, Goes(p)), DOMAIN p = ReqFields, p.stage \in {"open", "backend"},
         p.msg = req[r].msg, p.ch = req[r].ch, p.gen = req[r].gen, p.t = req[r].t, p.i = req[r].i,
         p.subject = req[r].subject, p.target = req[r].target,
         IF req[r].audit = None THEN p.audit = None
         ELSE /\ p.audit \in AuditEvents /\ p.audit.quota = req[r].audit.quota /\ p.audit.resp = "not_reached"
              /\ p.audit.exec = IF p.stage = "backend" THEN "started" ELSE "not_reached",
         req[r].stage \in {"material", "open"},
         p.stage = "backend" => <<p.subject, "sign", Target(p)>> \in gens[p.gen].grants
  PROVE  Leaves(r, Goes(p))
<1> DEFINE q == req[r]
<1>1. ReqOK(gens, q, Made(r), Charged(r)) /\ Running(q) /\ Bound(q)
  BY RunningReq DEF InvocationInv, Active, StageNames, Unsigned, Early
<1>2. ReqOK(gens, q, Made(r)', Charged(r)')
  BY <1>1, MadeSame DEF ReqOK, AuditOK
<1>3. /\ ~Made(r)' /\ (q.i > 0 => Charged(r)') /\ (q.audit = None => ~Charged(r)')
      /\ (q.audit # None => ((q.audit.quota = "charged") <=> Charged(r)'))
      /\ (q.i > 0 \/ RequireChallenge => q.ch # None)
      /\ <<q.subject, "decrypt", RequestKey>> \in gens[q.gen].grants
  BY <1>2 DEF ReqOK, AuditOK, GrantedOK, Unsigned, Taken
<1>4. (p.audit = None) <=> (q.audit = None)
  BY NoneAssumption
<1> HIDE DEF q
<1>5. IsReq(p) /\ PinnedOK(gens, p)
  BY <1>1, <1>4 DEF q, Running, IsReq, PinnedOK, StageNames, Unsigned, Early
<1>6. GrantedOK(gens, p)
  BY <1>1, <1>3 DEF q, Bound, GrantedOK
<1>7. AuditOK(p, Made(r)', Charged(r)')
  BY <1>3, <1>4 DEF q, AuditOK, Early, Unsigned
<1>8. q.ch \in issued \cup {None}
  BY DEF InvocationInv, HoldersOK, q
<1>9. Goes(p).rec = p /\ Goes(p).ev = None
  BY DEF Goes
<1> QED
  BY <1>5, <1>6, <1>7, <1>8, <1>9 DEF Leaves, Onward, Early, OutcomeOK, ReqOK, q

(* What the audit of an open request says. *)
LEMMA OpenFacts ==
  ASSUME InvocationInv, NEW r \in Reqs, req[r].stage \in {"material", "open", "backend"}, effects' = effects, charges' = charges
  PROVE  /\ Running(req[r]) /\ Bound(req[r]) /\ DOMAIN req[r] = ReqFields
         /\ req[r].gen \in Nat /\ req[r].gen \in 1 .. Len(gens)
         /\ ((req[r].audit # None) <=> ProofPresented(req[r].msg))
         /\ ~Made(r)' /\ (req[r].audit = None => ~Charged(r)')
         /\ req[r].audit # None =>
              /\ req[r].audit \in AuditEvents /\ ((req[r].audit.quota = "charged") <=> Charged(r)')
              /\ req[r].audit.resp = "not_reached"
              /\ req[r].audit.exec = (IF req[r].stage = "backend" THEN "started" ELSE "not_reached")
<1> DEFINE q == req[r]
<1>1. ReqOK(gens, q, Made(r), Charged(r)) /\ Running(q) /\ Bound(q)
  BY RunningReq DEF InvocationInv, Active, StageNames, Unsigned, Early
<1>2. ReqOK(gens, q, Made(r)', Charged(r)')
  BY <1>1, MadeSame DEF ReqOK, AuditOK
<1> HIDE DEF q
<1> QED
  BY <1>1, <1>2 DEF q, Running, IsReq, ReqOK, AuditOK, Unsigned

LEMMA MaterialStep ==
  ASSUME InvocationInv, NEW r \in Reqs, Material(r)
  PROVE  Steady /\ req[r].stage # "done" /\ \E o : Leaves(r, o)
<1> DEFINE q == req[r]
           p == [q EXCEPT !.stage = "open"]
           o == Refused(q, "response", "failure")
<1>1. /\ Steady /\ q.stage = "material" /\ effects' = effects /\ charges' = charges
      /\ Becomes(r, Goes(p)) \/ Becomes(r, o)
  BY DEF Material, Still, World, Steady
<1>2. /\ DOMAIN q = ReqFields /\ q.gen \in Nat /\ q.gen \in 1 .. Len(gens)
      /\ ((q.audit # None) <=> ProofPresented(q.msg))
      /\ ~Made(r)'
      /\ q.audit # None =>
           /\ q.audit \in AuditEvents /\ ((q.audit.quota = "charged") <=> Charged(r)')
           /\ q.audit.resp = "not_reached" /\ q.audit.exec = "not_reached"
  BY <1>1, OpenFacts
<1>3. CASE Becomes(r, Goes(p))
  <2>1. /\ DOMAIN p = ReqFields /\ p.stage = "open" /\ p.msg = q.msg /\ p.ch = q.ch /\ p.gen = q.gen
        /\ p.t = q.t /\ p.i = q.i /\ p.subject = q.subject /\ p.target = q.target /\ p.audit = q.audit
    BY <1>2 DEF ReqFields
  <2> HIDE DEF p
  <2>2. Leaves(r, Goes(p))
    BY <1>1, <1>2, <1>3, <2>1, MovesLeaves DEF Taken
  <2> QED
    BY <1>1, <2>2
<1>4. CASE Becomes(r, o)
  <2>1. "response" \in Stages /\ (q.audit # None => Says(q.audit, Made(r)', Charged(r)'))
    BY <1>2 DEF Stages, Says
  <2>2. OutcomeOK(gens, o, Made(r)', Charged(r)') /\ o.rec.stage = "done" /\ o.rec.ch = None
    BY <1>2, <2>1, RefusedGood
  <2> HIDE DEF o
  <2>3. Leaves(r, o)
    BY <1>4, <2>2, OutLeaves DEF Follows
  <2> QED
    BY <1>1, <2>3
<1> QED
  BY <1>1, <1>3, <1>4

LEMMA OpenStep ==
  ASSUME InvocationInv, NEW r \in Reqs, Open(r)
  PROVE  Steady /\ req[r].stage # "done" /\ \E o : Leaves(r, o)
<1> DEFINE q == req[r]
           x == [q EXCEPT !.audit = Marked(q, [q.audit EXCEPT !.at = "operation"])]
           o == Refused(q, "decryption", "failure")
<1>1. /\ Steady /\ q.stage = "open" /\ effects' = effects /\ charges' = charges
  BY DEF Open, Still, World, Steady
<1>2. /\ Running(q) /\ Bound(q) /\ DOMAIN q = ReqFields /\ q.gen \in Nat /\ q.gen \in 1 .. Len(gens)
      /\ ((q.audit # None) <=> ProofPresented(q.msg))
      /\ ~Made(r)' /\ (q.audit = None => ~Charged(r)')
      /\ q.audit # None =>
           /\ q.audit \in AuditEvents /\ ((q.audit.quota = "charged") <=> Charged(r)')
           /\ q.audit.resp = "not_reached" /\ q.audit.exec = "not_reached"
  BY <1>1, OpenFacts
<1>3. Becomes(r, Executed(x)) \/ Becomes(r, o)
  BY <1>2 DEF Open, ReqFields
<1>4. CASE Becomes(r, o)
  <2>1. "decryption" \in Stages /\ (q.audit # None => Says(q.audit, Made(r)', Charged(r)'))
    BY <1>2 DEF Stages, Says
  <2>2. OutcomeOK(gens, o, Made(r)', Charged(r)') /\ o.rec.stage = "done" /\ o.rec.ch = None
    BY <1>2, <2>1, RefusedGood
  <2> HIDE DEF o
  <2>3. Leaves(r, o)
    BY <1>4, <2>2, OutLeaves DEF Follows
  <2> QED
    BY <1>1, <2>3
<1>5. CASE Becomes(r, Executed(x))
  <2>1. /\ DOMAIN x = ReqFields /\ x.stage = "open" /\ x.msg = q.msg /\ x.ch = q.ch /\ x.gen = q.gen
        /\ x.t = q.t /\ x.i = q.i /\ x.subject = q.subject /\ x.target = q.target
        /\ x.audit = Marked(q, [q.audit EXCEPT !.at = "operation"])
    BY <1>1, <1>2 DEF ReqFields
  <2>2. IF q.audit = None THEN x.audit = None
        ELSE /\ x.audit \in AuditEvents /\ x.audit # None /\ x.audit.exec = "not_reached"
             /\ x.audit.resp = "not_reached" /\ x.audit.quota = q.audit.quota
    <3> HIDE DEF x
    <3>1. CASE q.audit = None
      BY <2>1, <3>1 DEF Marked
    <3>2. CASE q.audit # None
      <4>1. x.audit = [q.audit EXCEPT !.at = "operation"] /\ "operation" \in Stages
        BY <2>1, <3>2 DEF Marked, Stages
      <4>2. /\ x.audit \in AuditEvents /\ x.audit.exec = q.audit.exec /\ x.audit.resp = q.audit.resp
            /\ x.audit.quota = q.audit.quota
        BY <1>2, <3>2, <4>1, AuditShape
      <4> QED
        BY <1>2, <3>2, <4>2, NoneAssumption
    <3> QED
      BY <3>1, <3>2
  <2> HIDE DEF x
  <2>3. Running(x) /\ Bound(x)
    BY <1>2, <2>1, <2>2 DEF Running, IsReq, Bound, StageNames, Unsigned
  <2>4. "operation" \in Stages /\ "sign" \in Stages /\ "backend" \in Stages
    BY DEF Stages
  <2>5. ASSUME NEW b, NEW at \in {"operation", "sign"}, Becomes(r, Replies(x, b, at, at, "denied")),
               x.audit # None => b \in AuditEvents /\ b.exec = x.audit.exec /\ b.quota = x.audit.quota
        PROVE  Leaves(r, Replies(x, b, at, at, "denied"))
    <3>1. x.audit # None => /\ b \in AuditEvents /\ b.exec \in {"not_reached", "succeeded", "failed"}
                            /\ (b.exec = "succeeded" => Made(r)') /\ (Made(r)' => b.exec \in {"succeeded", "failed"})
                            /\ (b.quota = "charged") <=> Charged(r)'
      BY <1>2, <2>2, <2>5
    <3>2. /\ (x.audit = None => ~Charged(r)') /\ at \in Stages /\ at \in Stages \cup QuotaDenied \cup {"completed"}
      BY <1>2, <2>2, <2>4
    <3> DEFINE w == Replies(x, b, at, at, "denied")
    <3>3. OutcomeOK(gens, w, Made(r)', Charged(r)') /\ w.rec.stage = "protect" /\ Follows(w, x)
      BY <2>3, <3>1, <3>2, RepliesGood
    <3> HIDE DEF w
    <3>4. Becomes(r, w)
      BY <2>5 DEF w
    <3>5. Leaves(r, w)
      BY <2>1, <3>3, <3>4, OutLeaves DEF Follows
    <3> QED
      BY <3>5 DEF w
  <2>6. CASE x.msg.ctype # "sign" \/ ~x.msg.body.ok
    <3>1. Executed(x) = Replies(x, x.audit, "operation", "operation", "denied")
      BY <2>6 DEF Executed
    <3>2. Leaves(r, Replies(x, x.audit, "operation", "operation", "denied"))
      BY <1>5, <2>2, <2>5, <3>1
    <3> QED
      BY <1>1, <3>2
  <2>7. CASE ~(x.msg.ctype # "sign" \/ ~x.msg.body.ok) /\ ~Allowed(x, "sign", Target(x))
    <3> DEFINE b == Marked(x, [x.audit EXCEPT !.sign = "denied"])
    <3>1. Executed(x) = Replies(x, b, "sign", "sign", "denied")
      BY <2>7 DEF Executed
    <3>2. x.audit # None => b \in AuditEvents /\ b.exec = x.audit.exec /\ b.quota = x.audit.quota
      <4>1. "denied" \in Decisions
        BY DEF Decisions
      <4> QED
        BY <2>2, <4>1, AuditShape DEF Marked
    <3> HIDE DEF b
    <3>3. Leaves(r, Replies(x, b, "sign", "sign", "denied"))
      BY <1>5, <2>5, <3>1, <3>2
    <3> QED
      BY <1>1, <3>3
  <2>8. CASE ~(x.msg.ctype # "sign" \/ ~x.msg.body.ok) /\ Allowed(x, "sign", Target(x))
    <3> DEFINE m == [x.audit EXCEPT !.sign = "allowed", !.exec = "started", !.at = "backend"]
               p == [x EXCEPT !.stage = "backend", !.audit = Marked(x, m)]
    <3>1. Executed(x) = Goes(p)
      BY <2>1, <2>8 DEF Executed, ReqFields
    <3>2. /\ DOMAIN p = ReqFields /\ p.stage = "backend" /\ p.msg = q.msg /\ p.ch = q.ch /\ p.gen = q.gen
          /\ p.t = q.t /\ p.i = q.i /\ p.subject = q.subject /\ p.target = q.target /\ p.audit = Marked(x, m)
      BY <2>1 DEF ReqFields
    <3>3. IF q.audit = None THEN p.audit = None
          ELSE /\ p.audit \in AuditEvents /\ p.audit.quota = q.audit.quota /\ p.audit.resp = "not_reached"
               /\ p.audit.exec = "started"
      <4>1. CASE q.audit = None
        BY <2>2, <3>2, <4>1 DEF Marked
      <4>2. CASE q.audit # None
        <5>1. p.audit = m /\ "allowed" \in Decisions /\ "started" \in StepStates
          BY <2>2, <3>2, <4>2 DEF Marked, Decisions, StepStates
        <5>2. m \in AuditEvents /\ m.quota = x.audit.quota /\ m.resp = x.audit.resp /\ m.exec = "started"
          BY <2>2, <2>4, <4>2, <5>1, AuditShape
        <5> QED
          BY <2>2, <4>2, <5>1, <5>2
      <4> QED
        BY <4>1, <4>2
    <3>4. <<p.subject, "sign", Target(p)>> \in gens[p.gen].grants
      BY <2>1, <2>8, <3>2 DEF Allowed, Gen, Target, ByProvider
    <3> HIDE DEF p
    <3>5. Leaves(r, Goes(p))
      BY <1>1, <1>5, <3>1, <3>2, <3>3, <3>4, MovesLeaves DEF Taken
    <3> QED
      BY <1>1, <3>5
  <2> QED
    BY <2>6, <2>7, <2>8
<1> QED
  BY <1>3, <1>4, <1>5

(* The backend signs: what the request was granted is what the effect      *)
(* needs.                                                                  *)
LEMMA SignedStep ==
  ASSUME InvocationInv, NEW r \in Reqs, Signed(r)
  PROVE  /\ UNCHANGED <<storeVars, gens, charges>> /\ req[r].stage = "backend"
         /\ \E o : Becomes(r, o) /\ OutcomeOK(gens, o, Made(r)', Charged(r)') /\ Onward(o, req[r])
                   /\ o.rec.stage = "signed" /\ o.rec.ch = req[r].ch
         /\ \E e : /\ effects' = effects \cup {e} /\ e.req = r /\ e.ch = req[r].ch
                   /\ e.rule = req[r].i /\ e.t = req[r].t /\ (req[r].i > 0 => e.kid = Token(req[r]).kid)
                   /\ EffectOK(gens, e, Charged(r))
<1> DEFINE q == req[r]
           p == [q EXCEPT !.stage = "signed"]
           e == [req |-> r, gen |-> q.gen, ch |-> q.ch, t |-> q.t, rule |-> q.i, subject |-> q.subject,
                 key |-> Target(q), kid |-> IF ByProvider(q) THEN Token(q).kid ELSE None]
<1>1. /\ UNCHANGED <<storeVars, gens, charges>> /\ q.stage = "backend" /\ Becomes(r, Goes(p))
      /\ effects' = effects \cup {e}
  BY DEF Signed, World
<1>2. /\ ReqOK(gens, q, Made(r), Charged(r)) /\ Running(q) /\ Bound(q)
  BY <1>1, RunningReq DEF InvocationInv, Active, StageNames, Unsigned, Early
<1>3. /\ DOMAIN p = ReqFields /\ p.stage = "signed" /\ p.msg = q.msg /\ p.ch = q.ch /\ p.gen = q.gen
      /\ p.t = q.t /\ p.i = q.i /\ p.subject = q.subject /\ p.target = q.target /\ p.audit = q.audit
  BY <1>2 DEF Running, IsReq, ReqFields
<1>4. /\ e.req = r /\ e.gen = q.gen /\ e.ch = q.ch /\ e.rule = q.i /\ e.subject = q.subject /\ e.key = Target(q)
      /\ e.t = q.t /\ (q.i > 0 => e.kid = Token(q).kid)
  BY DEF ByProvider
<1>5. Goes(p).rec = p /\ Goes(p).ev = None
  BY DEF Goes
<1> HIDE DEF p, e
<1>6. Made(r)' /\ (Charged(r)' <=> Charged(r))
  BY <1>1, <1>4 DEF Made, Charged
<1>7. /\ (q.audit = None => ~Charged(r)) /\ (q.i > 0 => Charged(r)) /\ (q.i > 0 \/ RequireChallenge => q.ch # None)
      /\ <<q.subject, "decrypt", RequestKey>> \in gens[q.gen].grants
      /\ <<q.subject, "sign", Target(q)>> \in gens[q.gen].grants
      /\ q.audit # None => /\ ((q.audit.quota = "charged") <=> Charged(r))
                           /\ q.audit.exec = "started" /\ q.audit.resp = "not_reached"
  BY <1>1, <1>2 DEF ReqOK, AuditOK, GrantedOK, Taken
<1>8. IsReq(p) /\ PinnedOK(gens, p)
  BY <1>2, <1>3 DEF Running, IsReq, PinnedOK, StageNames, Early
<1>9. GrantedOK(gens, p)
  BY <1>2, <1>3 DEF Bound, GrantedOK, Taken
<1>10. AuditOK(p, Made(r)', Charged(r)')
  BY <1>3, <1>6, <1>7 DEF AuditOK, Unsigned, Early
<1>11. OutcomeOK(gens, Goes(p), Made(r)', Charged(r)')
  BY <1>3, <1>5, <1>8, <1>9, <1>10 DEF OutcomeOK, ReqOK
<1>12. EffectOK(gens, e, Charged(r))
  <2>1. q.gen \in 1 .. Len(gens) /\ q.i \in Nat
    BY <1>2 DEF Running, IsReq
  <2>2. q.i > 0 => Target(q) \in gens[q.gen].rules[q.i].targets /\ q.subject = gens[q.gen].rules[q.i].subject
    BY <1>2 DEF Bound, Target, ByProvider
  <2> HIDE DEF q
  <2> QED
    BY <1>4, <1>7, <2>1, <2>2 DEF EffectOK
<1> QED
  BY <1>1, <1>3, <1>4, <1>5, <1>11, <1>12 DEF Onward, Early

LEMMA ReturnStep ==
  ASSUME InvocationInv, NEW r \in Reqs, Return(r)
  PROVE  Steady /\ req[r].stage # "done" /\ \E o : Leaves(r, o)
<1> DEFINE q == req[r]
           A(x) == Marked(q, [q.audit EXCEPT !.exec = x])
           good == Replies(q, A("succeeded"), "complete", "completed", "success")
           bad == Replies(q, A("failed"), "backend", "backend", "failure")
<1>1. /\ Steady /\ effects' = effects /\ charges' = charges
      /\ \/ q.stage = "signed" /\ Becomes(r, good)
         \/ q.stage \in {"backend", "signed"} /\ Becomes(r, bad)
  BY DEF Return, Still, World, Steady
<1>2. /\ ReqOK(gens, q, Made(r), Charged(r)) /\ Running(q) /\ Bound(q)
      /\ q.audit # None => q.audit \in AuditEvents
  BY <1>1, RunningReq DEF InvocationInv, Active, StageNames, Unsigned, Early
<1>3. ReqOK(gens, q, Made(r)', Charged(r)')
  BY <1>1, <1>2, MadeSame DEF ReqOK, AuditOK
<1>4. /\ (q.audit = None => ~Charged(r)') /\ (q.audit # None => ((q.audit.quota = "charged") <=> Charged(r)'))
      /\ (q.stage = "signed" => Made(r)') /\ (q.stage = "backend" => ~Made(r)')
  BY <1>1, <1>3 DEF ReqOK, AuditOK, Unsigned
<1>5. ASSUME NEW x \in {"succeeded", "failed"}, q.audit # None
      PROVE  A(x) \in AuditEvents /\ A(x).exec = x /\ A(x).quota = q.audit.quota
  <2>1. x \in StepStates /\ A(x) = [q.audit EXCEPT !.exec = x]
    BY <1>5 DEF StepStates, Marked
  <2> HIDE DEF A
  <2> QED
    BY <1>2, <1>5, <2>1, AuditShape
<1> HIDE DEF A
<1>6. /\ "complete" \in Stages /\ "backend" \in Stages
      /\ "completed" \in Stages \cup QuotaDenied \cup {"completed"}
      /\ "backend" \in Stages \cup QuotaDenied \cup {"completed"}
  BY DEF Stages
<1>7. CASE q.stage = "signed" /\ Becomes(r, good)
  <2>1. q.audit # None => /\ A("succeeded") \in AuditEvents
                          /\ A("succeeded").exec \in {"not_reached", "succeeded", "failed"}
                          /\ (A("succeeded").exec = "succeeded" => Made(r)') /\ (Made(r)' => A("succeeded").exec \in {"succeeded", "failed"})
                          /\ (A("succeeded").quota = "charged") <=> Charged(r)'
                          /\ A("succeeded").exec = "succeeded"
    BY <1>4, <1>5, <1>7
  <2>2. OutcomeOK(gens, good, Made(r)', Charged(r)') /\ good.rec.stage = "protect" /\ Follows(good, q)
    <3> DEFINE b == A("succeeded")
    <3>1. (q.audit = None => ~Charged(r)')
      BY <1>4, <1>7
    <3> HIDE DEF b, q
    <3> QED
      BY <1>2, <1>6, <2>1, <3>1, RepliesGood DEF b
  <2> HIDE DEF good
  <2>3. Leaves(r, good)
    BY <1>7, <2>2, OutLeaves DEF Follows
  <2> QED
    BY <1>1, <1>7, <2>3
<1>8. CASE q.stage \in {"backend", "signed"} /\ Becomes(r, bad)
  <2>1. q.audit # None => /\ A("failed") \in AuditEvents
                          /\ A("failed").exec \in {"not_reached", "succeeded", "failed"}
                          /\ (A("failed").exec = "succeeded" => Made(r)') /\ (Made(r)' => A("failed").exec \in {"succeeded", "failed"})
                          /\ (A("failed").quota = "charged") <=> Charged(r)'
    BY <1>4, <1>5, <1>8
  <2>2. OutcomeOK(gens, bad, Made(r)', Charged(r)') /\ bad.rec.stage = "protect" /\ Follows(bad, q)
    <3> DEFINE b == A("failed")
    <3>1. (q.audit = None => ~Charged(r)') 
      BY <1>4, <1>8
    <3> HIDE DEF b, q
    <3> QED
      BY <1>2, <1>6, <2>1, <3>1, RepliesGood, ZenonT(40) DEF b
  <2> HIDE DEF bad
  <2>3. Leaves(r, bad)
    BY <1>8, <2>2, OutLeaves DEF Follows
  <2> QED
    BY <1>1, <1>8, <2>3
<1> QED
  BY <1>1, <1>7, <1>8

LEMMA ProtectStep ==
  ASSUME InvocationInv, NEW r \in Reqs, Protect(r)
  PROVE  Steady /\ req[r].stage # "done" /\ \E o : Leaves(r, o)
<1> DEFINE q == req[r]
           f == q.fin
           m == [q.audit EXCEPT !.resp = "succeeded"]
           ev == Marked(q, Terminal(m, f.at, f.why, f.outcome))
           n == Marked(q, [q.audit EXCEPT !.resp = "failed"])
           x == [q EXCEPT !.audit = n]
<1>1. Steady /\ q.stage = "protect" /\ effects' = effects /\ charges' = charges
  BY DEF Protect, Still, World, Steady
<1>2. /\ ReqOK(gens, q, Made(r), Charged(r)) /\ Running(q)
      /\ q.audit # None => q.audit \in AuditEvents
  BY <1>1, RunningReq DEF InvocationInv, Active, StageNames
<1>3. /\ DOMAIN q = ReqFields /\ q.gen \in Nat /\ q.gen \in 1 .. Len(gens)
      /\ ((q.audit # None) <=> ProofPresented(q.msg))
  BY <1>2 DEF Running, IsReq
<1>4. ReqOK(gens, q, Made(r)', Charged(r)')
  BY <1>1, <1>2, MadeSame DEF ReqOK, AuditOK
<1>5. q.audit # None =>
        /\ ((q.audit.quota = "charged") <=> Charged(r)')
        /\ (q.audit.exec = "succeeded" => Made(r)') /\ (Made(r)' => q.audit.exec \in {"succeeded", "failed"})
        /\ f.at \in Stages /\ f.why \in Stages \cup QuotaDenied \cup {"completed"}
        /\ f.outcome \in {"success", "denied", "failure"} /\ (f.outcome = "success" => q.audit.exec = "succeeded")
  BY <1>1, <1>4 DEF ReqOK, AuditOK
<1>6. Becomes(r, Ends(q, ev)) \/ Becomes(r, Refused(x, "response", "failure"))
  BY <1>3 DEF Protect, ReqFields
<1>7. CASE Becomes(r, Ends(q, ev))
  <2>1. IF q.audit = None THEN ev = None ELSE EventOK(ev, Made(r)', Charged(r)') /\ ev # None
    <3>1. CASE q.audit = None
      BY <3>1 DEF Marked
    <3>2. CASE q.audit # None
      <4>1. ev = Terminal(m, f.at, f.why, f.outcome) /\ "succeeded" \in StepStates
        BY <3>2 DEF Marked, StepStates
      <4>2. m \in AuditEvents /\ m.exec = q.audit.exec /\ m.resp = "succeeded" /\ m.quota = q.audit.quota
        BY <1>2, <3>2, <4>1, AuditShape
      <4> HIDE DEF m, f
      <4>3. Says(m, Made(r)', Charged(r)')
        BY <1>5, <3>2, <4>2 DEF Says
      <4>4. f.at \in Stages /\ f.why \in Reasons /\ f.outcome \in Outcomes
        BY <1>5, <3>2 DEF Reasons, Outcomes
      <4>5. /\ EventOK(Terminal(m, f.at, f.why, f.outcome), Made(r)', Charged(r)')
            /\ Terminal(m, f.at, f.why, f.outcome) # None
        BY <1>5, <3>2, <4>2, <4>3, <4>4, ClosedEvent
      <4> QED
        BY <3>2, <4>1, <4>5
    <3> QED
      BY <3>1, <3>2
  <2>2. Audited(gens, q) => q.audit # None
    BY <1>3 DEF Audited
  <2> HIDE DEF ev, q, f, m
  <2> DEFINE o == Ends(q, ev)
  <2>2a. (ev # None => EventOK(ev, Made(r)', Charged(r)')) /\ (Audited(gens, q) => ev # None)
    BY <2>1, <2>2
  <2>3. OutcomeOK(gens, o, Made(r)', Charged(r)') /\ o.rec.stage = "done" /\ o.rec.ch = None
    BY <1>3, <2>2a, EndsGood
  <2> HIDE DEF o
  <2>4. Leaves(r, o)
    BY <1>7, <2>3, OutLeaves DEF Follows, o
  <2> QED
    BY <1>1, <2>4 DEF q
<1>8. CASE Becomes(r, Refused(x, "response", "failure"))
  <2>1. x.gen = q.gen /\ x.msg = q.msg /\ x.audit = n
    BY <1>3 DEF ReqFields
  <2>2. IF q.audit = None THEN n = None
        ELSE n \in AuditEvents /\ n # None /\ n.exec = q.audit.exec /\ n.quota = q.audit.quota
    <3>1. CASE q.audit = None
      BY <3>1 DEF Marked
    <3>2. CASE q.audit # None
      <4>1. n = [q.audit EXCEPT !.resp = "failed"] /\ "failed" \in StepStates
        BY <3>2 DEF Marked, StepStates
      <4> QED
        BY <1>2, <3>2, <4>1, AuditShape, NoneAssumption
    <3> QED
      BY <3>1, <3>2
  <2> HIDE DEF x, n
  <2>3. "response" \in Stages /\ (x.audit # None => Says(x.audit, Made(r)', Charged(r)'))
    BY <1>5, <2>1, <2>2 DEF Stages, Says
  <2>4. x.gen \in Nat /\ x.gen \in 1 .. Len(gens) /\ ((x.audit # None) <=> ProofPresented(x.msg))
    BY <1>3, <2>1, <2>2
  <2> DEFINE o == Refused(x, "response", "failure")
  <2>5. OutcomeOK(gens, o, Made(r)', Charged(r)') /\ o.rec.stage = "done" /\ o.rec.ch = None
    BY <2>3, <2>4, RefusedGood
  <2> HIDE DEF o
  <2>6. Leaves(r, o)
    BY <1>8, <2>5, OutLeaves DEF Follows, o
  <2> QED
    BY <1>1, <2>6
<1> QED
  BY <1>6, <1>7, <1>8

(* A challenge with a subject key that is not Ed25519 ends the request.     *)
LEMMA FreshErrorStep ==
  ASSUME InvocationInv, NEW r \in Reqs, FreshError(r)
  PROVE  Steady /\ req[r].stage # "done" /\ \E o : Leaves(r, o)
<1> DEFINE q == req[r]
           n == Marked(q, [q.audit EXCEPT !.fresh = "unavailable"])
           x == [q EXCEPT !.audit = n]
           o == Refused(x, "freshness", "failure")
<1>1. Steady /\ q.stage = "fresh" /\ effects' = effects /\ charges' = charges
  BY DEF FreshError, Still, World, Steady
<1>2. Running(q) /\ Clean(q, Made(r), Charged(r))
  BY <1>1, CleanReq DEF InvocationInv, Early
<1>3. Clean(q, Made(r)', Charged(r)')
  BY <1>1, <1>2, MadeSame DEF Clean
<1>4. /\ DOMAIN q = ReqFields /\ q.gen \in Nat /\ q.gen \in 1 .. Len(gens)
      /\ ((q.audit # None) <=> ProofPresented(q.msg)) /\ (q.audit # None => q.audit \in AuditEvents)
  BY <1>2 DEF Running, IsReq
<1>5. Becomes(r, o)
  BY <1>4 DEF FreshError, ReqFields
<1>6. x.gen = q.gen /\ x.msg = q.msg /\ x.audit = n
  BY <1>4 DEF ReqFields
<1>7. IF q.audit = None THEN n = None
      ELSE n \in AuditEvents /\ n # None /\ n.exec = q.audit.exec /\ n.quota = q.audit.quota
  <2>1. CASE q.audit = None
    BY <2>1 DEF Marked
  <2>2. CASE q.audit # None
    <3>1. n = [q.audit EXCEPT !.fresh = "unavailable"] /\ "unavailable" \in FreshStates
      BY <2>2 DEF Marked, FreshStates
    <3> QED
      BY <1>4, <2>2, <3>1, AuditShape, NoneAssumption
  <2> QED
    BY <2>1, <2>2
<1> HIDE DEF x, n
<1>8. "freshness" \in Stages /\ (x.audit # None => Says(x.audit, Made(r)', Charged(r)'))
  BY <1>3, <1>6, <1>7 DEF Stages, Says, Clean
<1>9. x.gen \in Nat /\ x.gen \in 1 .. Len(gens) /\ ((x.audit # None) <=> ProofPresented(x.msg))
  BY <1>4, <1>6, <1>7
<1>10. OutcomeOK(gens, o, Made(r)', Charged(r)') /\ o.rec.stage = "done" /\ o.rec.ch = None
  BY <1>8, <1>9, RefusedGood
<1> HIDE DEF o
<1>11. Leaves(r, o)
  BY <1>5, <1>10, OutLeaves DEF Follows
<1> QED
  BY <1>1, <1>11

(* A dropped handler: the guard writes the event, and calls what had       *)
(* started indeterminate.                                                  *)
LEMMA CancelStep ==
  ASSUME InvocationInv, NEW r \in Reqs, Cancel(r)
  PROVE  Steady /\ req[r].stage # "done" /\ \E o : Leaves(r, o)
<1> DEFINE q == req[r]
           ev == Marked(q, Dropped(q.audit))
           o == Ends(q, ev)
<1>1. /\ Steady /\ effects' = effects /\ charges' = charges /\ Becomes(r, o)
      /\ q.stage \in {"fetch", "fetched", "fresh", "material", "open", "backend", "signed", "protect"}
  BY DEF Cancel, Still, World, Steady
<1>2. /\ ReqOK(gens, q, Made(r), Charged(r)) /\ Running(q)
      /\ q.audit # None => q.audit \in AuditEvents
  BY <1>1, RunningReq DEF InvocationInv, Active, StageNames, Unsigned, Early
<1>3. /\ q.gen \in Nat /\ q.gen \in 1 .. Len(gens) /\ ((q.audit # None) <=> ProofPresented(q.msg))
  BY <1>2 DEF Running, IsReq
<1>4. ReqOK(gens, q, Made(r)', Charged(r)')
  BY <1>1, <1>2, MadeSame DEF ReqOK, AuditOK
<1>5. q.audit # None =>
        /\ ((q.audit.quota = "charged") <=> Charged(r)')
        /\ (q.audit.exec = "succeeded" => Made(r)')
        /\ (Made(r)' => q.audit.exec \in {"started", "succeeded", "failed"})
  BY <1>1, <1>4 DEF ReqOK, AuditOK, Unsigned, Early
<1>6. IF q.audit = None THEN ev = None ELSE EventOK(ev, Made(r)', Charged(r)') /\ ev # None
  <2>1. CASE q.audit = None
    BY <2>1 DEF Marked
  <2>2. CASE q.audit # None
    <3>1. ev = Dropped(q.audit)
      BY <2>2 DEF Marked
    <3>2. /\ ev \in AuditEvents /\ ev.quota = q.audit.quota /\ ev.outcome = "aborted"
          /\ ev.exec = IF q.audit.exec = "started" THEN "indeterminate" ELSE q.audit.exec
      BY <1>2, <2>2, <3>1, DroppedEvent
    <3> HIDE DEF ev
    <3> QED
      BY <1>5, <2>2, <3>2, NoneAssumption DEF EventOK
  <2> QED
    BY <2>1, <2>2
<1>7. Audited(gens, q) => q.audit # None
  BY <1>3 DEF Audited
<1> HIDE DEF ev, q
<1>7a. (ev # None => EventOK(ev, Made(r)', Charged(r)')) /\ (Audited(gens, q) => ev # None)
  BY <1>6, <1>7
<1>8. OutcomeOK(gens, o, Made(r)', Charged(r)') /\ o.rec.stage = "done" /\ o.rec.ch = None
  BY <1>3, <1>7a, EndsGood
<1> HIDE DEF o
<1>9. Leaves(r, o)
  BY <1>1, <1>8, OutLeaves DEF Follows
<1> QED
  BY <1>1, <1>9 DEF q

-----------------------------------------------------------------------------
(* Composition.                                                            *)

(* Whatever request r leaves, the other requests are as they were. *)
LEMMA OthersKept ==
  ASSUME RequestsOK, NEW r \in Reqs, NEW o, Becomes(r, o), req[r].stage # "done", gens' = gens,
         OutcomeOK(gens, o, Made(r)', Charged(r)'),
         \A s \in Reqs : s # r => (Made(s)' <=> Made(s)) /\ (Charged(s)' <=> Charged(s))
  PROVE  RequestsOK' /\ req'[r] = o.rec /\ \A s \in Reqs : s # r => req'[s] = req[s]
<1>1. /\ DOMAIN req' = Reqs /\ req'[r] = o.rec /\ \A s \in Reqs : s # r => req'[s] = req[s]
      /\ DOMAIN events' = Reqs /\ \A s \in Reqs : s # r => events'[s] = events[s]
      /\ events'[r] = IF o.ev = None THEN events[r] ELSE Append(events[r], o.ev)
  BY DEF Becomes, RequestsOK
<1>2. events[r] = << >>
  BY DEF RequestsOK, EventsOK
<1>3. EventsOK(gens, o.rec, events'[r], Made(r)', Charged(r)')
  <2>1. CASE o.ev = None
    BY <1>1, <1>2, <2>1 DEF EventsOK, OutcomeOK
  <2>2. CASE o.ev # None
    <3>1. events'[r] = <<o.ev>>
      BY <1>1, <1>2, <2>2
    <3>2. Len(events'[r]) = 1 /\ events'[r][1] = o.ev /\ events'[r] # << >>
      BY <3>1
    <3> QED
      BY <2>2, <3>2 DEF EventsOK, OutcomeOK
  <2> QED
    BY <2>1, <2>2
<1>4. ASSUME NEW s \in Reqs, s # r
      PROVE  /\ ReqOK(gens, req'[s], Made(s)', Charged(s)')
             /\ EventsOK(gens, req'[s], events'[s], Made(s)', Charged(s)')
  <2>1. ReqOK(gens, req[s], Made(s), Charged(s)) /\ EventsOK(gens, req[s], events[s], Made(s), Charged(s))
    BY DEF RequestsOK
  <2>2. ReqOK(gens, req[s], Made(s)', Charged(s)')
    BY <1>4, <2>1 DEF ReqOK, AuditOK
  <2>3. EventsOK(gens, req[s], events[s], Made(s)', Charged(s)')
    BY <1>4, <2>1 DEF EventsOK, EventOK
  <2> QED
    BY <1>1, <1>4, <2>2, <2>3
<1>5. ReqOK(gens, o.rec, Made(r)', Charged(r)')
  BY DEF OutcomeOK
<1>6. \A s \in Reqs : /\ ReqOK(gens', req'[s], Made(s)', Charged(s)')
                      /\ EventsOK(gens', req'[s], events'[s], Made(s)', Charged(s)')
  BY <1>1, <1>3, <1>4, <1>5
<1> QED
  BY <1>1, <1>6 DEF RequestsOK

(* A step that takes no challenge leaves the holders apart. *)
LEMMA HoldersKept ==
  ASSUME HoldersOK, NEW r \in Reqs, NEW o, req'[r] = o.rec, \A s \in Reqs : s # r => req'[s] = req[s],
         o.rec.ch \in issued \cup {None},
         o.rec.stage \in Taken => req[r].stage \in Taken /\ o.rec.ch = req[r].ch,
         issued \subseteq issued', used' = used, effects' = effects
  PROVE  HoldersOK'
<1>1. \A s \in Reqs : Holds(s)' => Holds(s) /\ req'[s].ch = req[s].ch
  BY DEF Holds
<1>2. \A s \in Reqs : req'[s].ch \in issued \cup {None}
  BY DEF HoldersOK
<1>3. \A s \in Reqs : req'[s].ch \in issued' \cup {None}
  BY <1>2
<1>4. \A s \in Reqs : Holds(s)' => req'[s].ch.suffix \in used'
  BY <1>1 DEF HoldersOK
<1>5. \A s, t \in Reqs : Holds(s)' /\ Holds(t)' /\ req'[s].ch.suffix = req'[t].ch.suffix => s = t
  BY <1>1 DEF HoldersOK
<1>6. \A e \in effects' : e.ch # None => e.ch.suffix \in used'
  BY DEF HoldersOK
<1>7. \A e \in effects', s \in Reqs : Holds(s)' /\ e.ch # None => e.ch.suffix # req'[s].ch.suffix
  BY <1>1 DEF HoldersOK
<1> QED
  BY <1>3, <1>4, <1>5, <1>6, <1>7 DEF HoldersOK

(* A signature stays authorized: generations and charges are only added. *)
LEMMA EffectsKept ==
  ASSUME \A e \in effects : EffectOK(gens, e, Charged(e.req)), gens' = gens, effects' = effects,
         charges \subseteq charges'
  PROVE  \A e \in effects' : EffectOK(gens', e, Charged(e.req)')
<1> TAKE e \in effects'
<1>1. EffectOK(gens, e, Charged(e.req)) /\ (Charged(e.req) => Charged(e.req)')
  BY DEF Charged
<1> QED
  BY <1>1 DEF EffectOK

LEMMA StoreSame ==
  ASSUME StoreOK, UNCHANGED storeVars
  PROVE  StoreOK'
  BY DEF StoreOK, storeVars

(* Any step of one request that leaves the challenges and the signatures   *)
(* as they are.                                                            *)
LEMMA RequestKept ==
  ASSUME InvocationInv, NEW r \in Reqs, req[r].stage # "done", UNCHANGED <<storeVars, gens, effects>>,
         charges \subseteq charges', \A x \in charges' : x \in charges \/ x.req = r, \E o : Leaves(r, o)
  PROVE  InvocationInv'
<1>1. PICK o : Leaves(r, o)
  OBVIOUS
<1>2. /\ GensOK /\ RequestsOK /\ StoreOK /\ HoldersOK /\ SingleEffect
      /\ \A e \in effects : EffectOK(gens, e, Charged(e.req))
  BY DEF InvocationInv
<1>3. \A s \in Reqs : s # r => (Made(s)' <=> Made(s)) /\ (Charged(s)' <=> Charged(s))
  BY DEF Made, Charged
<1>4. RequestsOK' /\ req'[r] = o.rec /\ \A s \in Reqs : s # r => req'[s] = req[s]
  BY <1>1, <1>2, <1>3, OthersKept DEF Leaves
<1>5. issued' = issued /\ used' = used /\ effects' = effects /\ gens' = gens
  BY DEF storeVars
<1>6. HoldersOK'
  BY <1>1, <1>2, <1>4, <1>5, HoldersKept DEF Leaves
<1>7. StoreOK' /\ GensOK' /\ SingleEffect'
  BY <1>2, <1>5, StoreSame DEF GensOK, SingleEffect
<1>8. \A e \in effects' : EffectOK(gens', e, Charged(e.req)')
  BY <1>2, <1>5, EffectsKept
<1> QED
  BY <1>4, <1>6, <1>7, <1>8 DEF InvocationInv

LEMMA SteadyKept ==
  ASSUME InvocationInv, NEW r \in Reqs, Steady, req[r].stage # "done", \E o : Leaves(r, o)
  PROVE  InvocationInv'
<1>1. UNCHANGED <<storeVars, gens, effects>> /\ charges' = charges
  BY DEF Steady
<1> QED
  BY <1>1, RequestKept

(* The request that takes a challenge was not preceded by anyone: the      *)
(* challenge was live, and no holder's and no signature's challenge is.    *)
LEMMA FreshKept ==
  ASSUME InvocationInv, NEW r \in Reqs, Fresh(r)
  PROVE  InvocationInv'
<1> DEFINE q == req[r]
           v == Verdict(q.ch, Holder(q), q.gen)
<1>1. PICK o : /\ Becomes(r, o) /\ OutcomeOK(gens, o, Made(r)', Charged(r)')
               /\ o.rec.ch = q.ch /\ o.rec.stage \in {"resolve", "protect"}
               /\ o.rec.stage = "resolve" /\ q.ch # None => v = "ok"
  BY FreshStep
<1>2. /\ q.stage = "fresh" /\ gens' = gens /\ effects' = effects /\ charges' = charges
      /\ q.ch = None => UNCHANGED storeVars
      /\ q.ch # None => Present(q.ch, Holder(q), q.gen)
  BY DEF Fresh, World
<1>3. /\ GensOK /\ RequestsOK /\ StoreOK /\ HoldersOK /\ SingleEffect
      /\ \A e \in effects : EffectOK(gens, e, Charged(e.req))
  BY DEF InvocationInv
<1>4. RequestsOK' /\ req'[r] = o.rec /\ \A s \in Reqs : s # r => req'[s] = req[s]
  BY <1>1, <1>2, <1>3, MadeSame, OthersKept
<1>5. GensOK' /\ SingleEffect' /\ \A e \in effects' : EffectOK(gens', e, Charged(e.req)')
  BY <1>2, <1>3, EffectsKept DEF GensOK, SingleEffect
<1>6. q.ch \in issued \cup {None}
  BY <1>3 DEF HoldersOK
<1>7. CASE q.ch = None
  <2>1. StoreOK' /\ issued' = issued /\ used' = used
    BY <1>2, <1>3, <1>7, StoreSame DEF storeVars
  <2>2. HoldersOK'
    <3>1. \A s \in Reqs : Holds(s)' => s # r /\ Holds(s) /\ req'[s].ch = req[s].ch
      BY <1>1, <1>4, <1>7 DEF Holds
    <3>2. \A s \in Reqs : req'[s].ch \in issued \cup {None}
      BY <1>1, <1>3, <1>4 DEF HoldersOK
    <3> QED
      BY <1>2, <1>3, <2>1, <3>1, <3>2 DEF HoldersOK
  <2> QED
    BY <1>4, <1>5, <2>1, <2>2 DEF InvocationInv
<1>8. CASE q.ch # None
  <2> DEFINE sx == q.ch.suffix
  <2>1. /\ live' = (IF v \in {"ok", "expired", "generation_mismatch"} THEN Drop(live, {sx}) ELSE live)
        /\ used' = (IF v = "ok" THEN used \cup {sx} ELSE used) /\ now' = now /\ issued' = issued
    BY <1>2, <1>8 DEF Present
  <2>2. q.ch \in issued /\ sx \in Nat /\ sx < Cardinality(issued)
    BY <1>3, <1>6, <1>8 DEF StoreOK
  <2>3. v = "ok" => sx \in DOMAIN live
    BY DEF Verdict
  <2>4. DOMAIN live' \subseteq DOMAIN live /\ (v = "ok" => sx \notin DOMAIN live')
    BY <2>1 DEF Drop
  <2>5. v = "ok" => sx \notin used
    BY <1>3, <2>3 DEF StoreOK
  <2> HIDE DEF v, sx
  <2>6. StoreOK'
    <3>1. \A s \in used' : s \in Nat /\ s < Cardinality(issued) /\ s \notin DOMAIN live'
      BY <1>3, <2>1, <2>2, <2>4 DEF StoreOK
    <3> QED
      BY <1>3, <2>1, <3>1 DEF StoreOK
  <2>7. CASE o.rec.stage = "resolve"
    <3>1. v = "ok" /\ used' = used \cup {sx} /\ sx \notin used /\ req'[r].ch.suffix = sx /\ req'[r].ch = q.ch
      BY <1>1, <1>4, <1>8, <2>1, <2>5, <2>7 DEF sx
    <3>2. \A s \in Reqs : Holds(s)' /\ s # r => Holds(s) /\ req'[s].ch = req[s].ch /\ req[s].ch.suffix \in used
      BY <1>3, <1>4 DEF Holds, HoldersOK
    <3>3. \A s \in Reqs : req'[s].ch \in issued \cup {None}
      BY <1>1, <1>3, <1>4 DEF HoldersOK
    <3>4. \A s \in Reqs : Holds(s)' => req'[s].ch.suffix \in used'
      BY <3>1, <3>2
    <3>5. \A s, t \in Reqs : Holds(s)' /\ Holds(t)' /\ req'[s].ch.suffix = req'[t].ch.suffix => s = t
      BY <1>3, <3>1, <3>2 DEF HoldersOK
    <3>6. \A e \in effects' : e.ch # None => e.ch.suffix \in used
      BY <1>2, <1>3 DEF HoldersOK
    <3>7. \A e \in effects', s \in Reqs : Holds(s)' /\ e.ch # None => e.ch.suffix # req'[s].ch.suffix
      BY <1>2, <1>3, <3>1, <3>2, <3>6 DEF HoldersOK
    <3>8. HoldersOK'
      BY <2>1, <3>1, <3>3, <3>4, <3>5, <3>6, <3>7 DEF HoldersOK
    <3> QED
      BY <1>4, <1>5, <2>6, <3>8 DEF InvocationInv
  <2>8. CASE o.rec.stage = "protect"
    <3>1. \A s \in Reqs : Holds(s)' => s # r /\ Holds(s) /\ req'[s].ch = req[s].ch
      BY <1>1, <1>4, <2>8 DEF Holds, Taken
    <3>2. \A s \in Reqs : req'[s].ch \in issued \cup {None}
      BY <1>1, <1>3, <1>4 DEF HoldersOK
    <3>3. used \subseteq used'
      BY <2>1
    <3>4. HoldersOK'
      BY <1>2, <1>3, <2>1, <3>1, <3>2, <3>3 DEF HoldersOK
    <3> QED
      BY <1>4, <1>5, <2>6, <3>4 DEF InvocationInv
  <2> QED
    BY <1>1, <2>7, <2>8
<1> QED
  BY <1>7, <1>8

(* The signature takes the challenge of a holder, which is then none. *)
LEMMA SignedKept ==
  ASSUME InvocationInv, NEW r \in Reqs, Signed(r)
  PROVE  InvocationInv'
<1> DEFINE q == req[r]
<1>1. UNCHANGED <<storeVars, gens, charges>> /\ q.stage = "backend"
  BY SignedStep
<1>2. PICK o : /\ Becomes(r, o) /\ OutcomeOK(gens, o, Made(r)', Charged(r)')
               /\ o.rec.stage = "signed" /\ o.rec.ch = q.ch
  BY SignedStep
<1>3. PICK e : effects' = effects \cup {e} /\ e.req = r /\ e.ch = q.ch /\ EffectOK(gens, e, Charged(r))
  BY SignedStep
<1>4. /\ GensOK /\ RequestsOK /\ StoreOK /\ HoldersOK /\ SingleEffect
      /\ \A x \in effects : EffectOK(gens, x, Charged(x.req))
  BY DEF InvocationInv
<1>5. \A s \in Reqs : s # r => (Made(s)' <=> Made(s)) /\ (Charged(s)' <=> Charged(s))
  BY <1>1, <1>3 DEF Made, Charged
<1>6. RequestsOK' /\ req'[r] = o.rec /\ \A s \in Reqs : s # r => req'[s] = req[s]
  BY <1>1, <1>2, <1>4, <1>5, OthersKept
<1>7. GensOK' /\ StoreOK' /\ issued' = issued /\ used' = used
  BY <1>1, <1>4, StoreSame DEF GensOK, storeVars
<1>8. \A x \in effects' : EffectOK(gens', x, Charged(x.req)')
  <2> TAKE x \in effects'
  <2>1. EffectOK(gens, x, Charged(x.req))
    BY <1>3, <1>4
  <2> QED
    BY <1>1, <2>1 DEF EffectOK, Charged
<1>9. q.ch # None => Holds(r)
  BY <1>1 DEF Holds, Taken
<1>10. \A s \in Reqs : Holds(s)' => s # r /\ Holds(s) /\ req'[s].ch = req[s].ch
  BY <1>2, <1>6 DEF Holds, Taken
<1>11. HoldersOK'
  <2>1. \A s \in Reqs : req'[s].ch \in issued \cup {None}
    BY <1>2, <1>4, <1>6 DEF HoldersOK
  <2>2. \A x \in effects' : x.ch # None => x.ch.suffix \in used
    BY <1>3, <1>4, <1>9 DEF HoldersOK
  <2>3. \A x \in effects', s \in Reqs : Holds(s)' /\ x.ch # None => x.ch.suffix # req'[s].ch.suffix
    BY <1>3, <1>4, <1>9, <1>10 DEF HoldersOK
  <2>4. /\ \A s \in Reqs : Holds(s)' => req'[s].ch.suffix \in used
        /\ \A s, t \in Reqs : Holds(s)' /\ Holds(t)' /\ req'[s].ch.suffix = req'[t].ch.suffix => s = t
    BY <1>4, <1>10 DEF HoldersOK
  <2> QED
    BY <1>7, <2>1, <2>2, <2>3, <2>4 DEF HoldersOK
<1>12. SingleEffect'
  <2>1. \A x \in effects : x.ch # None /\ q.ch # None => x.ch # q.ch
    BY <1>4, <1>9 DEF HoldersOK
  <2> QED
    BY <1>3, <1>4, <2>1 DEF SingleEffect
<1> QED
  BY <1>6, <1>7, <1>8, <1>11, <1>12 DEF InvocationInv

(* The environment. *)
LEMMA QuietKept ==
  ASSUME InvocationInv, UNCHANGED <<gens, req, effects, charges, events>>, StoreOK',
         issued \subseteq issued', used' = used
  PROVE  InvocationInv'
<1>1. /\ GensOK /\ RequestsOK /\ HoldersOK /\ SingleEffect
      /\ \A e \in effects : EffectOK(gens, e, Charged(e.req))
  BY DEF InvocationInv
<1>2. GensOK' /\ SingleEffect' /\ \A e \in effects' : EffectOK(gens', e, Charged(e.req)')
  BY <1>1, EffectsKept DEF GensOK, SingleEffect
<1>3. RequestsOK'
  BY <1>1 DEF RequestsOK, Made, Charged
<1>4. HoldersOK'
  <2>1. \A s \in Reqs : req[s].ch \in issued' \cup {None}
    BY <1>1 DEF HoldersOK
  <2> QED
    BY <1>1, <2>1 DEF HoldersOK, Holds
<1> QED
  BY <1>2, <1>3, <1>4 DEF InvocationInv

LEMMA TickKept ==
  ASSUME InvocationInv, Tick \/ Republish
  PROVE  InvocationInv'
<1>1. StoreOK /\ UNCHANGED <<gens, req, effects, charges, events, issued, used, live>> /\ now' \in {now, now + 1}
  BY DEF Tick, Republish, World, reqVars, storeVars, InvocationInv
<1>2. now' \in Nat
  BY <1>1 DEF StoreOK
<1>3. StoreOK'
  BY <1>1, <1>2 DEF StoreOK
<1> QED
  BY <1>1, <1>3, QuietKept

LEMMA GetChallengeKept ==
  ASSUME InvocationInv, NEW j, GetChallenge(j)
  PROVE  InvocationInv'
<1> DEFINE n == Cardinality(issued)
           tk == [inst |-> instance, suffix |-> n, jkt |-> j, gen |-> Serving, expires |-> now + Ttl]
<1>1. /\ UNCHANGED <<gens, req, effects, charges, events, used, now>> /\ StoreOK /\ issued' = issued \cup {tk}
      /\ tk.suffix = n
  BY DEF GetChallenge, Hand, World, reqVars, InvocationInv
<1>2. \E gone : DOMAIN live' = (DOMAIN live \ gone) \cup {n}
  BY DEF GetChallenge, Hand
<1> HIDE DEF tk
<1>3. IsFiniteSet(issued) /\ n \in Nat /\ \A x \in issued : x.suffix \in Nat /\ x.suffix < n
  BY <1>1, FS_CardinalityType DEF StoreOK
<1>4. tk \notin issued
  BY <1>1, <1>3
<1>5. IsFiniteSet(issued') /\ Cardinality(issued') = n + 1
  BY <1>1, <1>3, <1>4, FS_AddElement
<1> HIDE DEF n
<1>6. \A x \in issued' : x.suffix \in Nat /\ x.suffix < n + 1
  BY <1>1, <1>3
<1>7. \A s \in used : s \in Nat /\ s < n /\ s \notin DOMAIN live
  BY <1>1 DEF StoreOK, n
<1>8. \A s \in used : s \in Nat /\ s < n + 1 /\ s \notin DOMAIN live'
  BY <1>2, <1>3, <1>7
<1>9. StoreOK'
  BY <1>1, <1>5, <1>6, <1>8 DEF StoreOK
<1> QED
  BY <1>1, <1>9, QuietKept

(* A request keeps the generation it is pinned to: a reload only adds one. *)
LEMMA ReloadKept ==
  ASSUME InvocationInv, Reload
  PROVE  InvocationInv'
<1>1. PICK c \in Catalogs : gens' = Append(gens, c)
  BY DEF Reload
<1>2. UNCHANGED <<storeVars, req, effects, charges, events>>
  BY DEF Reload, reqVars
<1>3. /\ GensOK /\ RequestsOK /\ StoreOK /\ HoldersOK /\ SingleEffect
      /\ \A e \in effects : EffectOK(gens, e, Charged(e.req))
  BY DEF InvocationInv
<1>4. GensOK' /\ Len(gens') = Len(gens) + 1 /\ Len(gens) \in Nat /\ \A n \in 1 .. Len(gens) : gens'[n] = gens[n]
  BY <1>1, <1>3 DEF GensOK
<1>5. \A n : n \in 1 .. Len(gens) => n \in 1 .. Len(gens') /\ gens'[n] = gens[n]
  BY <1>4
<1>6. ASSUME NEW q, NEW signed, NEW charged, ReqOK(gens, q, signed, charged)
      PROVE  ReqOK(gens', q, signed, charged)
  <2>1. q.stage # "idle" => q.gen \in 1 .. Len(gens)
    BY <1>6 DEF ReqOK, PinnedOK
  <2>2. PinnedOK(gens', q)
    BY <1>5, <1>6, <2>1 DEF ReqOK, PinnedOK, Active
  <2>3. GrantedOK(gens', q)
    BY <1>5, <1>6, <2>1 DEF ReqOK, GrantedOK, Active, Taken
  <2> QED
    BY <1>6, <2>2, <2>3 DEF ReqOK
<1>7. RequestsOK'
  <2> SUFFICES ASSUME NEW r \in Reqs
               PROVE  /\ ReqOK(gens', req[r], Made(r), Charged(r))
                      /\ EventsOK(gens', req[r], events[r], Made(r), Charged(r))
    BY <1>2, <1>3 DEF RequestsOK, Made, Charged
  <2>1. ReqOK(gens, req[r], Made(r), Charged(r)) /\ EventsOK(gens, req[r], events[r], Made(r), Charged(r))
    BY <1>3 DEF RequestsOK
  <2>2. req[r].stage = "done" => gens'[req[r].gen] = gens[req[r].gen]
    BY <1>5, <2>1 DEF ReqOK, PinnedOK
  <2>3. EventsOK(gens', req[r], events[r], Made(r), Charged(r))
    BY <2>1, <2>2 DEF EventsOK, Audited
  <2> QED
    BY <1>6, <2>1, <2>3
<1>8. StoreOK' /\ HoldersOK' /\ SingleEffect'
  BY <1>2, <1>3, StoreSame DEF HoldersOK, Holds, SingleEffect, storeVars
<1>9. \A e \in effects' : EffectOK(gens', e, Charged(e.req)')
  <2> TAKE e \in effects'
  <2>1. EffectOK(gens, e, Charged(e.req)) /\ (Charged(e.req)' <=> Charged(e.req))
    BY <1>2, <1>3 DEF Charged
  <2>2. e.gen \in 1 .. Len(gens') /\ gens'[e.gen] = gens[e.gen]
    BY <1>5, <2>1 DEF EffectOK
  <2> QED
    BY <2>1, <2>2 DEF EffectOK
<1> QED
  BY <1>4, <1>7, <1>8, <1>9 DEF InvocationInv

LEMMA InvocationInit == InvInit => InvocationInv
<1> SUFFICES ASSUME InvInit PROVE InvocationInv
  OBVIOUS
<1>1. now = 0 /\ live = << >> /\ used = {} /\ issued = {} /\ effects = {} /\ charges = {}
  BY DEF InvInit, StoreInit
<1>2. GensOK
  <2>1. PICK c \in Catalogs : gens = <<c>>
    BY DEF InvInit
  <2> QED
    BY <2>1 DEF GensOK
<1>3. StoreOK /\ SingleEffect /\ \A e \in effects : EffectOK(gens, e, Charged(e.req))
  BY <1>1, FS_EmptySet DEF StoreOK, SingleEffect
<1>4. \A r \in Reqs : ~Made(r) /\ ~Charged(r)
  BY <1>1 DEF Made, Charged
<1>5. /\ DOMAIN req = Reqs /\ DOMAIN events = Reqs /\ \A r \in Reqs : req[r] = Idle /\ events[r] = << >>
  BY DEF InvInit
<1>6. /\ DOMAIN Idle = ReqFields /\ Idle.stage = "idle" /\ Idle.ch = None /\ Idle.gen = 0 /\ Idle.t = 0
      /\ Idle.i = 0 /\ Idle.audit = None
  BY DEF Idle, ReqFields
<1>7. \A r \in Reqs : ReqOK(gens, Idle, Made(r), Charged(r))
  <2> TAKE r \in Reqs
  <2>1. IsReq(Idle) /\ PinnedOK(gens, Idle) /\ GrantedOK(gens, Idle)
    BY <1>6 DEF IsReq, PinnedOK, GrantedOK, Active, StageNames, Unsigned, Early, Taken
  <2>2. AuditOK(Idle, Made(r), Charged(r))
    BY <1>4, <1>6 DEF AuditOK
  <2> QED
    BY <2>1, <2>2 DEF ReqOK
<1>8. \A r \in Reqs : EventsOK(gens, Idle, << >>, Made(r), Charged(r))
  BY <1>6 DEF EventsOK
<1>9. RequestsOK
  BY <1>5, <1>7, <1>8 DEF RequestsOK
<1>10. HoldersOK
  BY <1>1, <1>5, <1>6 DEF HoldersOK, Holds, Taken
<1> QED
  BY <1>2, <1>3, <1>9, <1>10 DEF InvocationInv

LEMMA InvocationStep == InvocationInv /\ [InvNext]_invVars => InvocationInv'
<1> SUFFICES ASSUME InvocationInv, [InvNext]_invVars PROVE InvocationInv'
  OBVIOUS
<1>1. CASE Tick \/ Republish
  BY <1>1, TickKept
<1>2. CASE Reload
  BY <1>2, ReloadKept
<1>3. CASE \E j \in Jkts : GetChallenge(j)
  BY <1>3, GetChallengeKept
<1>4. ASSUME NEW r \in Reqs, Arrive(r) \/ Lookup(r) \/ Answer(r) PROVE InvocationInv'
  BY <1>4, ArriveStep, LookupStep, AnswerStep, SteadyKept
<1>5. ASSUME NEW r \in Reqs, BadAnswer(r) \/ Fetched(r) \/ FetchFails(r) PROVE InvocationInv'
  BY <1>5, TriedSteps, SteadyKept
<1>6. ASSUME NEW r \in Reqs, Fresh(r) PROVE InvocationInv'
  BY <1>6, FreshKept
<1>7. ASSUME NEW r \in Reqs, Resolve(r) PROVE InvocationInv'
  BY <1>7, ResolveStep, RequestKept
<1>8. ASSUME NEW r \in Reqs, FreshError(r) \/ Material(r) \/ Open(r) PROVE InvocationInv'
  BY <1>8, FreshErrorStep, MaterialStep, OpenStep, SteadyKept
<1>9. ASSUME NEW r \in Reqs, Signed(r) PROVE InvocationInv'
  BY <1>9, SignedKept
<1>10. ASSUME NEW r \in Reqs, Return(r) \/ Protect(r) \/ Cancel(r) PROVE InvocationInv'
  BY <1>10, ReturnStep, ProtectStep, CancelStep, SteadyKept
<1>11. CASE UNCHANGED invVars
  <2>1. UNCHANGED <<gens, req, effects, charges, events>> /\ UNCHANGED storeVars
    BY <1>11 DEF invVars, reqVars
  <2>2. StoreOK' /\ issued' = issued /\ used' = used
    BY <2>1, StoreSame DEF storeVars, InvocationInv
  <2> QED
    BY <2>1, <2>2, QuietKept
<1> QED
  BY <1>1, <1>2, <1>3, <1>4, <1>5, <1>6, <1>7, <1>8, <1>9, <1>10, <1>11 DEF InvNext

(* The invariant above holds of every state the service reaches: its       *)
(* requests, its audits, the challenges they hold and the signatures made. *)
THEOREM InvocationInvHolds == InvSpec => []InvocationInv
  BY InvocationInit, InvocationStep, PTL DEF InvSpec

LEMMA InvHonest == InvocationInv => AuditHonest
<1> SUFFICES ASSUME InvocationInv PROVE AuditHonest
  OBVIOUS
<1>1. \A r \in Reqs : EventsOK(gens, req[r], events[r], Made(r), Charged(r))
  BY DEF InvocationInv, RequestsOK
<1>2. AuditOnce
  <2> SUFFICES ASSUME NEW r \in Reqs
               PROVE  /\ Len(events[r]) <= 1 /\ (events[r] # << >> => req[r].stage = "done")
                      /\ req[r].stage = "done" /\ Audited(gens, req[r]) => events[r] # << >>
    BY DEF AuditOnce, Audited
  <2> DEFINE evs == events[r]
  <2>1. EventsOK(gens, req[r], evs, Made(r), Charged(r))
    BY <1>1
  <2> HIDE DEF evs
  <2>2. Len(evs) <= 1
    <3>1. CASE evs = << >>
      BY <3>1
    <3>2. CASE evs # << >>
      <4>1. Len(evs) = 1
        BY <2>1, <3>2 DEF EventsOK
      <4> QED
        BY <4>1
    <3> QED
      BY <3>1, <3>2
  <2>3. (evs # << >> => req[r].stage = "done") /\ (req[r].stage = "done" /\ Audited(gens, req[r]) => evs # << >>)
    BY <2>1 DEF EventsOK
  <2> QED
    BY <2>2, <2>3 DEF evs
<1>3. AuditTruthful
  BY <1>1 DEF EventsOK, EventOK, AuditTruthful, Made, Charged
<1> QED
  BY <1>2, <1>3 DEF AuditHonest

(* A request with a provider proof that passed the signature check leaves  *)
(* exactly one audit event, and a running one none; the event reports the  *)
(* signature and the charge as they were.  This holds however the handler  *)
(* ends, dropped while the backend was signing included (the drop guard of *)
(* CiInvocationAudit, the paths of invoke in service/invocation.rs).       *)
THEOREM AuditHonestHolds == InvSpec => []AuditHonest
  BY InvocationInvHolds, InvHonest, PTL

LEMMA InvLegitimate == InvocationInv => EffectsLegitimate
<1> SUFFICES ASSUME InvocationInv PROVE EffectsLegitimate
  OBVIOUS
<1>1. \A e \in effects : EffectOK(gens, e, Charged(e.req))
  BY DEF InvocationInv
<1>2. EffectAuthorized
  BY <1>1 DEF EffectOK, EffectAuthorized, Charged
<1> QED
  BY <1>2 DEF EffectsLegitimate, InvocationInv

(* Every signature the backend made was granted, key and decryption, by    *)
(* the generation its request was pinned to; one for a provider proof is   *)
(* on a target and for the subject of one of its rules, was charged to its *)
(* run and had a challenge; and no challenge was spent on two signatures.  *)
(* Reloads, other requests and dropped handlers may come between any two   *)
(* steps.                                                                  *)
THEOREM EffectsLegitimateHolds == InvSpec => []EffectsLegitimate
  BY InvocationInvHolds, InvLegitimate, PTL

-----------------------------------------------------------------------------
(* Withdrawn keys.  A set of keys that a request verifies with was         *)
(* published late enough: a set in a cache since the fetch that brought it *)
(* began, a set that was just fetched since its request began, and the key *)
(* of a verified token for as long as a cache may serve.                   *)

SeenSince(seen, k, t) == k \in DOMAIN seen /\ seen[k] # Never /\ seen[k] >= t

SeenOK ==
  /\ now \in Nat /\ step \in DOMAIN Published
  /\ DOMAIN seenAt = UNION {Kids(Published[n]) : n \in DOMAIN Published}
  /\ \A k \in DOMAIN seenAt : seenAt[k] \in Nat \cup {Never} /\ seenAt[k] <= now
  /\ \A k \in Keys : seenAt[k] = now

KeyedOK(seen, clock, q) ==
  /\ q.stage \in Early => q.t <= clock
  /\ q.stage = "fetch" /\ q.some => \A k \in q.keys : SeenSince(seen, k, q.t - ServesFor)
  /\ q.stage = "fetched" => \A k \in q.keys : SeenSince(seen, k, q.t)
  /\ q.stage \in Active \ Early /\ q.i > 0 => SeenSince(seen, Token(q).kid, q.t - ServesFor)

CacheRecs == [kids : SUBSET DOMAIN seenAt, full : BOOLEAN, fetched : Nat \cup {Never}, attempt : Nat \cup {Never}]
CacheOK(seen, c) == c.full => c.fetched \in Nat /\ \A k \in c.kids : SeenSince(seen, k, c.fetched)
CachesOK ==
  /\ DOMAIN caches = 1 .. Len(gens) /\ caches \in Seq(UNION {[DOMAIN c.rules -> CacheRecs] : c \in Catalogs})
  /\ \A g \in 1 .. Len(gens) :
       /\ caches[g] \in [DOMAIN gens[g].rules -> CacheRecs]
       /\ \A i \in DOMAIN gens[g].rules : CacheOK(seenAt, caches[g][i])

KeysInv ==
  /\ SeenOK /\ CachesOK
  /\ \A r \in Reqs : KeyedOK(seenAt, now, req[r])
  /\ \A e \in effects : e.rule > 0 => e.t \in Nat /\ SeenSince(seenAt, e.kid, e.t - ServesFor)

LEMMA ServesForType == ServesFor \in Nat /\ MaxAge \in Nat /\ MaxAge <= ServesFor
  BY FederationAssumption DEF ServesFor

(* What has been seen stays seen, and the current keys are seen now. *)
LEMMA SeenGrows ==
  ASSUME SeenOK, Tick \/ Republish
  PROVE  /\ SeenOK' /\ DOMAIN seenAt' = DOMAIN seenAt
         /\ \A k, t : t \in Int /\ SeenSince(seenAt, k, t) => SeenSince(seenAt', k, t)
         /\ now' >= now
<1>1. CASE Tick
  <2>1. /\ now' = now + 1 /\ step' = step
        /\ seenAt' = [k \in DOMAIN seenAt |-> IF k \in Keys THEN now + 1 ELSE seenAt[k]]
    BY <1>1 DEF Tick, World
  <2>2. Keys' = Keys
    BY <2>1 DEF Keys
  <2>3. \A k \in DOMAIN seenAt : /\ seenAt'[k] \in Nat \cup {Never} /\ seenAt'[k] <= now'
                                 /\ (seenAt[k] # Never => seenAt'[k] # Never /\ seenAt'[k] >= seenAt[k])
    BY <2>1 DEF SeenOK, Never
  <2>4. Keys \subseteq DOMAIN seenAt
    BY DEF SeenOK, Keys
  <2>5. SeenOK'
    BY <2>1, <2>2, <2>3, <2>4 DEF SeenOK
  <2>6. \A k, t : t \in Int /\ SeenSince(seenAt, k, t) => SeenSince(seenAt', k, t)
    BY <2>1, <2>3 DEF SeenOK, SeenSince, Never
  <2>7. now' >= now /\ DOMAIN seenAt' = DOMAIN seenAt
    BY <2>1 DEF SeenOK
  <2> QED
    BY <2>5, <2>6, <2>7
<1>2. CASE Republish
  <2>1. /\ now' = now /\ step' = step + 1 /\ step < Len(Published)
        /\ seenAt' = [k \in DOMAIN seenAt |-> IF k \in Kids(Published[step + 1]) THEN now ELSE seenAt[k]]
    BY <1>2 DEF Republish, storeVars
  <2>2. step' \in DOMAIN Published /\ Keys' = Kids(Published[step + 1])
    BY <2>1, InputsAssumption DEF SeenOK, Keys
  <2>3. \A k \in DOMAIN seenAt : /\ seenAt'[k] \in Nat \cup {Never} /\ seenAt'[k] <= now'
                                 /\ (seenAt[k] # Never => seenAt'[k] # Never /\ seenAt'[k] >= seenAt[k])
    BY <2>1 DEF SeenOK, Never
  <2>4. Keys' \subseteq DOMAIN seenAt
    BY <2>1, <2>2 DEF SeenOK
  <2>5. SeenOK'
    BY <2>1, <2>2, <2>3, <2>4 DEF SeenOK
  <2>6. \A k, t : t \in Int /\ SeenSince(seenAt, k, t) => SeenSince(seenAt', k, t)
    BY <2>1, <2>3 DEF SeenOK, SeenSince, Never
  <2>7. now' >= now /\ DOMAIN seenAt' = DOMAIN seenAt
    BY <2>1 DEF SeenOK
  <2> QED
    BY <2>5, <2>6, <2>7
<1> QED
  BY <1>1, <1>2

LEMMA SeenSame ==
  ASSUME SeenOK, UNCHANGED <<now, step, seenAt>>
  PROVE  SeenOK'
  BY DEF SeenOK, Keys

LEMMA CachesSame ==
  ASSUME CachesOK, UNCHANGED <<caches, gens>>, DOMAIN seenAt' = DOMAIN seenAt,
         \A k, t : t \in Int /\ SeenSince(seenAt, k, t) => SeenSince(seenAt', k, t)
  PROVE  CachesOK'
<1>1. CacheRecs' = CacheRecs
  BY DEF CacheRecs
<1>2. \A c : CacheOK(seenAt, c) => CacheOK(seenAt', c)
  BY DEF CacheOK
<1> QED
  BY <1>1, <1>2 DEF CachesOK

(* The environment withdraws nothing that was seen. *)
LEMMA KeysTick ==
  ASSUME InvocationInv, KeysInv, Tick \/ Republish
  PROVE  KeysInv'
<1>1. /\ SeenOK' /\ DOMAIN seenAt' = DOMAIN seenAt /\ now' >= now /\ now' \in Nat /\ now \in Nat
      /\ \A k, t : t \in Int /\ SeenSince(seenAt, k, t) => SeenSince(seenAt', k, t)
  BY SeenGrows DEF KeysInv, SeenOK
<1>2. UNCHANGED <<caches, gens, req, effects>>
  BY DEF Tick, Republish, World, reqVars
<1>3. CachesOK'
  BY <1>1, <1>2, CachesSame DEF KeysInv
<1>4. ASSUME NEW r \in Reqs PROVE KeyedOK(seenAt', now', req'[r])
  <2>1. req[r].t \in Nat /\ KeyedOK(seenAt, now, req[r])
    BY DEF KeysInv, InvocationInv, RequestsOK, ReqOK, IsReq
  <2>2. req[r].t - ServesFor \in Int /\ req[r].t \in Int
    BY <2>1, ServesForType
  <2> QED
    BY <1>1, <1>2, <2>1, <2>2 DEF KeyedOK
<1>5. \A e \in effects' : e.rule > 0 => e.t \in Nat /\ SeenSince(seenAt', e.kid, e.t - ServesFor)
  BY <1>1, <1>2, ServesForType DEF KeysInv
<1> QED
  BY <1>1, <1>3, <1>4, <1>5 DEF KeysInv

(* The step of one request, given what it leaves of the caches. *)
LEMMA KeysRequest ==
  ASSUME InvocationInv, KeysInv, NEW r \in Reqs, NEW o, UNCHANGED <<now, step, seenAt, effects>>, CachesOK',
         Becomes(r, o), KeyedOK(seenAt, now, o.rec)
  PROVE  KeysInv'
<1>1. \A s \in Reqs : req'[s] = IF s = r THEN o.rec ELSE req[s]
  BY DEF Becomes, InvocationInv, RequestsOK
<1>2. SeenOK'
  BY SeenSame DEF KeysInv
<1>3. \A s \in Reqs : KeyedOK(seenAt', now', req'[s])
  BY <1>1 DEF KeysInv
<1>4. \A e \in effects' : e.rule > 0 => e.t \in Nat /\ SeenSince(seenAt', e.kid, e.t - ServesFor)
  BY DEF KeysInv
<1> QED
  BY <1>2, <1>3, <1>4 DEF KeysInv

LEMMA LateKeyed ==
  ASSUME InvocationInv, KeysInv, NEW r \in Reqs, NEW o, req[r].stage \in Active \ Early, Onward(o, req[r])
  PROVE  KeyedOK(seenAt, now, o.rec)
<1>1. KeyedOK(seenAt, now, req[r])
  BY DEF KeysInv
<1>2. req[r].stage \notin Early \cup {"idle"}
  BY DEF Active
<1>3. CASE o.rec.stage = "done"
  BY <1>3 DEF KeyedOK, Active, Early
<1>4. CASE o.rec.stage \notin Early /\ o.rec.msg = req[r].msg /\ o.rec.t = req[r].t /\ o.rec.i = req[r].i
  BY <1>1, <1>4 DEF KeyedOK, Early, Token
<1> QED
  BY <1>2, <1>3, <1>4 DEF Onward

LEMMA TriedKeyed ==
  ASSUME InvocationInv, KeysInv, NEW r \in Reqs, NEW some, NEW keys, req[r].stage \in Early,
         some => \A k \in keys : SeenSince(seenAt, k, req[r].t - ServesFor)
  PROVE  KeyedOK(seenAt, now, Tried(req[r], some, keys).rec)
<1> DEFINE q == req[r]
           o == Tried(q, some, keys)
<1>1. /\ o.rec.stage \in {"lookup", "fresh", "done"} /\ Follows(o, q)
      /\ o.rec.stage = "fresh" => some /\ Token(q).kid \in keys
  BY CleanReq, TriedGood DEF InvocationInv
<1>2. q.t <= now
  BY DEF KeysInv, KeyedOK
<1> SUFFICES KeyedOK(seenAt, now, o.rec)
  OBVIOUS
<1> HIDE DEF o, q
<1>3. CASE o.rec.stage = "done"
  BY <1>3 DEF KeyedOK, Active, Early
<1>4. CASE o.rec.stage = "lookup"
  BY <1>1, <1>2, <1>4 DEF KeyedOK, Early, Follows
<1>5. CASE o.rec.stage = "fresh"
  <2>1. o.rec.msg = q.msg /\ o.rec.t = q.t /\ SeenSince(seenAt, Token(q).kid, q.t - ServesFor)
    BY <1>1, <1>5 DEF Follows, q
  <2> QED
    BY <1>5, <2>1 DEF KeyedOK, Early, Token
<1> QED
  BY <1>1, <1>3, <1>4, <1>5

(* Where the cache of a running request is, and what setting it leaves. *)
LEMMA CacheSet ==
  ASSUME InvocationInv, KeysInv, NEW r \in Reqs, req[r].stage \in Early, NEW c,
         SetCache(req[r], c), gens' = gens, seenAt' = seenAt,
         c \in CacheRecs, CacheOK(seenAt, c)
  PROVE  CachesOK'
<1> DEFINE g == req[r].gen
           i == req[r].i
           maps == UNION {[DOMAIN x.rules -> CacheRecs] : x \in Catalogs}
           m == [caches[g] EXCEPT ![i] = c]
<1>1. Running(req[r]) /\ i > 0 /\ GensOK
  BY CleanReq DEF InvocationInv
<1>2. g \in 1 .. Len(gens) /\ gens[g] \in Catalogs /\ i \in DOMAIN gens[g].rules
  BY <1>1, InputsAssumption DEF Running, IsReq, GensOK
<1>3. /\ DOMAIN caches = 1 .. Len(gens) /\ caches \in Seq(maps) /\ caches[g] \in [DOMAIN gens[g].rules -> CacheRecs]
  BY <1>2 DEF KeysInv, CachesOK
<1>4. m \in [DOMAIN gens[g].rules -> CacheRecs] /\ m \in maps
  BY <1>2, <1>3
<1>5. caches' = [caches EXCEPT ![g] = m]
  BY <1>2, <1>3 DEF SetCache
<1>6. CacheRecs' = CacheRecs
  BY DEF CacheRecs
<1>7. \A k \in DOMAIN gens[g].rules : CacheOK(seenAt, m[k])
  BY <1>2, <1>3 DEF KeysInv, CachesOK
<1> HIDE DEF m, maps
<1>8. caches' \in Seq(maps) /\ DOMAIN caches' = 1 .. Len(gens)
  BY <1>2, <1>3, <1>4, <1>5
<1>9. \A h \in 1 .. Len(gens) : /\ caches'[h] \in [DOMAIN gens[h].rules -> CacheRecs]
                                /\ \A k \in DOMAIN gens[h].rules : CacheOK(seenAt, caches'[h][k])
  BY <1>2, <1>3, <1>4, <1>5, <1>7 DEF KeysInv, CachesOK
<1> QED
  BY <1>6, <1>8, <1>9 DEF CachesOK, maps

LEMMA OwnCache ==
  ASSUME InvocationInv, KeysInv, NEW r \in Reqs, req[r].stage \in Early
  PROVE  /\ Cache(req[r]) \in CacheRecs /\ CacheOK(seenAt, Cache(req[r])) /\ req[r].t \in Nat
         /\ DOMAIN req[r] = ReqFields
<1>1. Running(req[r]) /\ req[r].i > 0 /\ GensOK
  BY CleanReq DEF InvocationInv
<1>2. /\ req[r].gen \in 1 .. Len(gens) /\ gens[req[r].gen] \in Catalogs /\ req[r].t \in Nat
      /\ req[r].i \in DOMAIN gens[req[r].gen].rules
  BY <1>1, InputsAssumption DEF Running, IsReq, GensOK
<1>3. DOMAIN req[r] = ReqFields
  BY <1>1 DEF Running, IsReq
<1> QED
  BY <1>2, <1>3 DEF Cache, KeysInv, CachesOK

LEMMA ArriveKeys ==
  ASSUME InvocationInv, KeysInv, NEW r \in Reqs, Arrive(r)
  PROVE  KeysInv'
<1>1. /\ UNCHANGED <<now, step, seenAt, effects, caches, gens>> /\ req[r].stage = "idle"
      /\ \E msg, ch : Becomes(r, Invoked(msg, ch))
  BY DEF Arrive, Still, World, storeVars
<1>2. PICK msg, ch : Becomes(r, Invoked(msg, ch))
  BY <1>1
<1> DEFINE o == Invoked(msg, ch)
<1>3. o.rec.stage \in {"lookup", "fresh", "done"} /\ o.rec.t \in {0, now} /\ (o.rec.stage = "fresh" => o.rec.i = 0)
  <2>1. GensOK /\ now \in Nat
    BY DEF InvocationInv, StoreOK
  <2> QED
    BY <2>1, InvokedGood
<1> HIDE DEF o
<1>4. KeyedOK(seenAt, now, o.rec)
  BY <1>3 DEF KeyedOK, Active, Early, KeysInv, SeenOK
<1>5. CachesOK'
  BY <1>1, CachesSame DEF KeysInv
<1> QED
  BY <1>1, <1>2, <1>4, <1>5, KeysRequest DEF o

LEMMA LookupKeys ==
  ASSUME InvocationInv, KeysInv, NEW r \in Reqs, Lookup(r)
  PROVE  KeysInv'
<1> DEFINE q == req[r]
           c == Cache(q)
           d == Serve(c, Token(q).kid, q.t)
           b == Attempted(c, Token(q).kid, q.t)
           p == [q EXCEPT !.stage = "fetch", !.keys = d.serve, !.some = d.some]
<1>1. /\ UNCHANGED <<now, step, seenAt, effects, gens>> /\ q.stage = "lookup" /\ q.stage \in Early
      /\ SetCache(q, b) /\ Becomes(r, IF d.fetch THEN Goes(p) ELSE Tried(q, d.some, d.serve))
  BY DEF Lookup, storeVars, Early
<1>2. c \in CacheRecs /\ CacheOK(seenAt, c) /\ q.t \in Nat /\ DOMAIN q = ReqFields
  BY <1>1, OwnCache
<1>3. b \in CacheRecs /\ CacheOK(seenAt, b)
  <2>1. CASE b = c
    BY <1>2, <2>1
  <2>2. CASE b = [c EXCEPT !.attempt = q.t]
    <3> HIDE DEF b, c
    <3>1. b \in CacheRecs /\ b.full = c.full /\ b.kids = c.kids /\ b.fetched = c.fetched
      BY <1>2, <2>2 DEF CacheRecs
    <3> QED
      BY <1>2, <3>1 DEF CacheOK
  <2> QED
    BY <2>1, <2>2 DEF Attempted
<1>4. CachesOK'
  BY <1>1, <1>3, CacheSet
<1>5. d.some => \A k \in d.serve : SeenSince(seenAt, k, q.t - ServesFor)
  <2>1. d.some => c.full /\ d.serve = c.kids /\ q.t - c.fetched <= ServesFor
    <3> HIDE DEF c
    <3>1. c.full => c.fetched \in Nat
      BY <1>2 DEF CacheOK
    <3>2. CASE c.full /\ Token(q).kid \in c.kids /\ KeysFresh(c, q.t)
      <4>1. d.serve = c.kids /\ q.t - c.fetched <= MaxAge
        BY <3>2 DEF Serve, KeysFresh
      <4> QED
        BY <1>2, <3>1, <3>2, <4>1, ServesForType
    <3>3. CASE ~(c.full /\ Token(q).kid \in c.kids /\ KeysFresh(c, q.t))
      BY <3>3 DEF Serve, WithinStale
    <3> QED
      BY <3>2, <3>3
  <2>2. \A k \in DOMAIN seenAt : seenAt[k] \in Int
    BY DEF KeysInv, SeenOK, Never
  <2> HIDE DEF d, c
  <2> QED
    BY <1>2, <2>1, <2>2, ServesForType DEF CacheOK, SeenSince
<1>6. q.t <= now
  BY <1>1 DEF KeysInv, KeyedOK
<1>7. CASE d.fetch
  <2>1. p.stage = "fetch" /\ p.t = q.t /\ p.keys = d.serve /\ p.some = d.some
    BY <1>2 DEF ReqFields
  <2>2. Goes(p).rec = p
    BY DEF Goes
  <2> HIDE DEF p, d
  <2>3. KeyedOK(seenAt, now, p)
    BY <1>5, <1>6, <2>1 DEF KeyedOK, Early
  <2> QED
    BY <1>1, <1>4, <1>7, <2>2, <2>3, KeysRequest
<1>8. CASE ~d.fetch
  <2> HIDE DEF d
  <2>1. KeyedOK(seenAt, now, Tried(q, d.some, d.serve).rec)
    BY <1>1, <1>5, TriedKeyed
  <2> QED
    BY <1>1, <1>4, <1>8, <2>1, KeysRequest
<1> QED
  BY <1>7, <1>8

LEMMA AnswerKeys ==
  ASSUME InvocationInv, KeysInv, NEW r \in Reqs, Answer(r)
  PROVE  KeysInv'
<1> DEFINE q == req[r]
           p == [q EXCEPT !.stage = "fetched", !.keys = Keys]
<1>1. /\ UNCHANGED <<now, step, seenAt, effects, caches, gens>> /\ q.stage = "fetch" /\ q.stage \in Early
      /\ Becomes(r, Goes(p))
  BY DEF Answer, Still, World, storeVars, Early
<1>2. DOMAIN q = ReqFields /\ q.t <= now
  BY <1>1, OwnCache DEF KeysInv, KeyedOK
<1>3. p.stage = "fetched" /\ p.t = q.t /\ p.keys = Keys /\ Goes(p).rec = p
  BY <1>2 DEF ReqFields, Goes
<1>4. Keys \subseteq DOMAIN seenAt /\ now # Never /\ \A k \in Keys : seenAt[k] = now
  BY DEF KeysInv, SeenOK, Keys, Never
<1> HIDE DEF p
<1>5. KeyedOK(seenAt, now, p)
  BY <1>2, <1>3, <1>4 DEF KeyedOK, Early, SeenSince
<1>6. CachesOK'
  BY <1>1, CachesSame DEF KeysInv
<1> QED
  BY <1>1, <1>3, <1>5, <1>6, KeysRequest

LEMMA UnansweredKeys ==
  ASSUME InvocationInv, KeysInv, NEW r \in Reqs, BadAnswer(r) \/ FetchFails(r)
  PROVE  KeysInv'
<1> DEFINE q == req[r]
<1>1. /\ UNCHANGED <<now, step, seenAt, effects, caches, gens>> /\ q.stage = "fetch" /\ q.stage \in Early
      /\ Becomes(r, Tried(q, q.some, q.keys))
  BY DEF BadAnswer, FetchFails, Still, World, storeVars, Early
<1>2. q.some => \A k \in q.keys : SeenSince(seenAt, k, q.t - ServesFor)
  BY <1>1 DEF KeysInv, KeyedOK
<1>3. KeyedOK(seenAt, now, Tried(q, q.some, q.keys).rec)
  BY <1>1, <1>2, TriedKeyed
<1>4. CachesOK'
  BY <1>1, CachesSame DEF KeysInv
<1> QED
  BY <1>1, <1>3, <1>4, KeysRequest

(* The set is installed with the time its request began, and no set that   *)
(* was fetched later is replaced by it.                                    *)
LEMMA FetchedKeys ==
  ASSUME InvocationInv, KeysInv, NEW r \in Reqs, Fetched(r)
  PROVE  KeysInv'
<1> DEFINE q == req[r]
           c == Cache(q)
           b == InstallKeys(c, q.keys, q.t)
<1>1. /\ UNCHANGED <<now, step, seenAt, effects, gens>> /\ q.stage = "fetched" /\ q.stage \in Early
      /\ SetCache(q, b) /\ Becomes(r, Tried(q, TRUE, q.keys))
  BY DEF Fetched, storeVars, Early
<1>2. c \in CacheRecs /\ CacheOK(seenAt, c) /\ q.t \in Nat
  BY <1>1, OwnCache
<1>3. \A k \in q.keys : SeenSince(seenAt, k, q.t)
  BY <1>1 DEF KeysInv, KeyedOK
<1>4. b \in CacheRecs /\ CacheOK(seenAt, b)
  <2>1. CASE b = c
    BY <1>2, <2>1
  <2>2. CASE b = [c EXCEPT !.kids = q.keys, !.full = TRUE, !.fetched = q.t]
    <3>1. q.keys \subseteq DOMAIN seenAt
      BY <1>3 DEF SeenSince
    <3> HIDE DEF b, c, q
    <3>2. b \in CacheRecs /\ b.full = TRUE /\ b.kids = q.keys /\ b.fetched = q.t
      BY <1>2, <2>2, <3>1 DEF CacheRecs
    <3> QED
      BY <1>2, <1>3, <3>2 DEF CacheOK
  <2> QED
    BY <2>1, <2>2 DEF InstallKeys
<1>5. CachesOK'
  BY <1>1, <1>4, CacheSet
<1>6. \A k \in q.keys : SeenSince(seenAt, k, q.t - ServesFor)
  <2>1. \A k \in DOMAIN seenAt : seenAt[k] \in Int
    BY DEF KeysInv, SeenOK, Never
  <2> QED
    BY <1>2, <1>3, <2>1, ServesForType DEF SeenSince
<1>7. KeyedOK(seenAt, now, Tried(q, TRUE, q.keys).rec)
  BY <1>1, <1>6, TriedKeyed
<1> QED
  BY <1>1, <1>5, <1>7, KeysRequest

(* Past the proof nothing is verified again. *)
LEMMA LateKeys ==
  ASSUME InvocationInv, KeysInv, NEW r \in Reqs,
         \/ Fresh(r) \/ FreshError(r) \/ Resolve(r) \/ Material(r) \/ Open(r) \/ Return(r)
         \/ Protect(r) \/ Cancel(r)
  PROVE  KeysInv'
<1>1. /\ UNCHANGED <<now, step, seenAt, effects, caches, gens>>
      /\ req[r].stage \in {"fresh", "resolve", "material", "open", "backend", "signed", "protect", "fetch", "fetched"}
  BY DEF Fresh, FreshError, Resolve, Material, Open, Return, Protect, Cancel, Still, World, storeVars, Present
<1>2. PICK o : Becomes(r, o) /\ (req[r].stage \in Active \ Early => Onward(o, req[r]))
               /\ (req[r].stage \in Early => o.rec.stage = "done")
  <2>1. CASE Fresh(r)
    BY <2>1, FreshStep, ZenonT(40) DEF Fresh, Early
  <2>2. CASE Resolve(r)
    BY <2>2, ResolveStep DEF Resolve, Leaves, Early
  <2>3. CASE FreshError(r) \/ Material(r) \/ Open(r)
    BY <2>3, FreshErrorStep, MaterialStep, OpenStep DEF FreshError, Material, Open, Leaves, Early
  <2>4. CASE Return(r) \/ Protect(r)
    BY <2>4, ReturnStep, ProtectStep DEF Return, Protect, Leaves, Early
  <2>5. CASE Cancel(r)
    <3> DEFINE o == Ends(req[r], Marked(req[r], Dropped(req[r].audit)))
    <3>1. Becomes(r, o) /\ o.rec.stage = "done"
      BY <2>5 DEF Cancel, Ends, Idle
    <3> HIDE DEF o
    <3> QED
      BY <3>1 DEF Onward
  <2> QED
    BY <2>1, <2>2, <2>3, <2>4, <2>5, SMTT(30)
<1>3. KeyedOK(seenAt, now, o.rec)
  <2>1. CASE req[r].stage \in Early
    BY <1>2, <2>1 DEF KeyedOK, Early, Active
  <2>2. CASE req[r].stage \notin Early
    <3>1. req[r].stage \in Active \ Early
      BY <1>1, <2>2 DEF Active, StageNames, Unsigned, Early
    <3> QED
      BY <1>2, <3>1, LateKeyed
  <2> QED
    BY <2>1, <2>2
<1>4. CachesOK'
  BY <1>1, CachesSame DEF KeysInv
<1> QED
  BY <1>1, <1>2, <1>3, <1>4, KeysRequest

LEMMA SignedKeys ==
  ASSUME InvocationInv, KeysInv, NEW r \in Reqs, Signed(r)
  PROVE  KeysInv'
<1> DEFINE q == req[r]
<1>1. UNCHANGED <<now, step, seenAt, caches, gens>> /\ q.stage = "backend" /\ q.stage \in Active \ Early
  BY DEF Signed, World, storeVars, Active, StageNames, Unsigned, Early
<1>2. PICK o : Becomes(r, o) /\ Onward(o, q)
  BY SignedStep
<1>3. PICK e : /\ effects' = effects \cup {e} /\ e.rule = q.i /\ e.t = q.t
               /\ (q.i > 0 => e.kid = Token(q).kid)
  BY SignedStep
<1>4. KeyedOK(seenAt, now, o.rec) /\ KeyedOK(seenAt, now, q)
  BY <1>1, <1>2, LateKeyed DEF KeysInv
<1>5. q.t \in Nat
  BY DEF InvocationInv, RequestsOK, ReqOK, IsReq
<1>6. e.rule > 0 => e.t \in Nat /\ SeenSince(seenAt, e.kid, e.t - ServesFor)
  BY <1>1, <1>3, <1>4, <1>5 DEF KeyedOK
<1>7. \A x \in effects' : x.rule > 0 => x.t \in Nat /\ SeenSince(seenAt, x.kid, x.t - ServesFor)
  BY <1>3, <1>6 DEF KeysInv
<1>8. \A s \in Reqs : req'[s] = IF s = r THEN o.rec ELSE req[s]
  BY <1>2 DEF Becomes, InvocationInv, RequestsOK
<1>9. \A s \in Reqs : KeyedOK(seenAt, now, req'[s])
  BY <1>4, <1>8 DEF KeysInv
<1>10. SeenOK' /\ CachesOK'
  BY <1>1, SeenSame, CachesSame DEF KeysInv
<1> QED
  BY <1>1, <1>7, <1>9, <1>10 DEF KeysInv

LEMMA QuietKeys ==
  ASSUME KeysInv, UNCHANGED <<now, step, seenAt, caches, gens, req, effects>>
  PROVE  KeysInv'
<1>1. SeenOK' /\ CachesOK'
  BY SeenSame, CachesSame DEF KeysInv
<1> QED
  BY <1>1 DEF KeysInv

(* A generation starts with empty caches. *)
LEMMA EmptyCacheOK == EmptyCache \in CacheRecs /\ \A seen : CacheOK(seen, EmptyCache)
  BY DEF EmptyCache, CacheRecs, CacheOK

LEMMA ReloadKeys ==
  ASSUME InvocationInv, KeysInv, Reload
  PROVE  KeysInv'
<1>1. PICK c \in Catalogs : /\ gens' = Append(gens, c)
                            /\ caches' = Append(caches, [i \in DOMAIN c.rules |-> EmptyCache])
  BY DEF Reload
<1>2. UNCHANGED <<now, step, seenAt, req, effects>>
  BY DEF Reload, reqVars, storeVars
<1> DEFINE maps == UNION {[DOMAIN x.rules -> CacheRecs] : x \in Catalogs}
           m == [i \in DOMAIN c.rules |-> EmptyCache]
<1>3. m \in [DOMAIN c.rules -> CacheRecs] /\ m \in maps /\ \A i \in DOMAIN c.rules : CacheOK(seenAt, m[i])
  BY EmptyCacheOK
<1>4. gens \in Seq(Catalogs) /\ caches \in Seq(maps) /\ DOMAIN caches = 1 .. Len(gens)
  BY DEF InvocationInv, GensOK, KeysInv, CachesOK
<1> HIDE DEF m, maps
<1>5. Len(caches) = Len(gens) /\ Len(gens) \in Nat
  BY <1>4
<1>6. /\ Len(gens') = Len(gens) + 1 /\ caches' \in Seq(maps) /\ DOMAIN caches' = 1 .. Len(gens')
      /\ gens'[Len(gens) + 1] = c /\ caches'[Len(gens) + 1] = m
      /\ \A g \in 1 .. Len(gens) : gens'[g] = gens[g] /\ caches'[g] = caches[g]
  BY <1>1, <1>3, <1>4, <1>5 DEF m
<1>7. \A g \in 1 .. Len(gens') : g \in 1 .. Len(gens) \/ g = Len(gens) + 1
  BY <1>5, <1>6
<1>8. \A g \in 1 .. Len(gens') : /\ caches'[g] \in [DOMAIN gens'[g].rules -> CacheRecs]
                                 /\ \A i \in DOMAIN gens'[g].rules : CacheOK(seenAt, caches'[g][i])
  BY <1>3, <1>6, <1>7 DEF KeysInv, CachesOK
<1>9. CacheRecs' = CacheRecs
  BY <1>2 DEF CacheRecs
<1>10. CachesOK'
  BY <1>2, <1>6, <1>8, <1>9 DEF CachesOK, maps
<1>11. SeenOK'
  BY <1>2, SeenSame DEF KeysInv
<1> QED
  BY <1>2, <1>10, <1>11 DEF KeysInv

LEMMA KeysInit == InvInit => KeysInv
<1> SUFFICES ASSUME InvInit PROVE KeysInv
  OBVIOUS
<1>1. PICK c \in Catalogs : gens = <<c>> /\ caches = <<[i \in DOMAIN c.rules |-> EmptyCache]>>
  BY DEF InvInit
<1> DEFINE maps == UNION {[DOMAIN x.rules -> CacheRecs] : x \in Catalogs}
           m == [i \in DOMAIN c.rules |-> EmptyCache]
<1>2. m \in [DOMAIN c.rules -> CacheRecs] /\ m \in maps /\ \A i \in DOMAIN c.rules : CacheOK(seenAt, m[i])
  BY EmptyCacheOK
<1> HIDE DEF m, maps
<1>3. caches = <<m>>
  BY <1>1 DEF m
<1>4. /\ Len(gens) = 1 /\ gens[1] = c /\ caches[1] = m /\ caches \in Seq(maps) /\ DOMAIN caches = 1 .. 1
  BY <1>1, <1>2, <1>3
<1>5. CachesOK
  <2>1. \A g \in 1 .. Len(gens) : g = 1
    BY <1>4
  <2> QED
    BY <1>2, <1>4, <2>1 DEF CachesOK, maps
<1>6. now = 0 /\ step = 1 /\ effects = {}
      /\ seenAt = [k \in UNION {Kids(Published[n]) : n \in DOMAIN Published} |->
                     IF k \in Kids(Published[1]) THEN 0 ELSE Never]
  BY DEF InvInit, StoreInit
<1>7. 1 \in DOMAIN Published
  BY InputsAssumption
<1>8. SeenOK
  <2>1. Kids(Published[1]) \subseteq DOMAIN seenAt
    BY <1>6, <1>7
  <2> QED
    BY <1>6, <1>7, <2>1 DEF SeenOK, Keys, Never
<1>9. \A r \in Reqs : req[r] = Idle /\ Idle.stage = "idle"
  BY DEF InvInit, Idle
<1>10. \A r \in Reqs : KeyedOK(seenAt, now, req[r])
  BY <1>9 DEF KeyedOK, Active, Early
<1> QED
  BY <1>5, <1>6, <1>8, <1>10 DEF KeysInv

LEMMA KeysStep == InvocationInv /\ KeysInv /\ [InvNext]_invVars => KeysInv'
<1> SUFFICES ASSUME InvocationInv, KeysInv, [InvNext]_invVars PROVE KeysInv'
  OBVIOUS
<1>1. CASE Tick \/ Republish
  BY <1>1, KeysTick
<1>2. CASE Reload
  BY <1>2, ReloadKeys
<1>3. CASE \E j \in Jkts : GetChallenge(j)
  BY <1>3, QuietKeys DEF GetChallenge, Hand, World, reqVars
<1>4. ASSUME NEW r \in Reqs, Arrive(r) \/ Lookup(r) \/ Answer(r) PROVE KeysInv'
  BY <1>4, ArriveKeys, LookupKeys, AnswerKeys
<1>5. ASSUME NEW r \in Reqs, BadAnswer(r) \/ Fetched(r) \/ FetchFails(r) PROVE KeysInv'
  BY <1>5, UnansweredKeys, FetchedKeys
<1>6. ASSUME NEW r \in Reqs, \/ Fresh(r) \/ Resolve(r) \/ Material(r) \/ Open(r) \/ Return(r) \/ Protect(r)
                             \/ Cancel(r) \/ FreshError(r)
      PROVE  KeysInv'
  BY <1>6, LateKeys
<1>7. ASSUME NEW r \in Reqs, Signed(r) PROVE KeysInv'
  BY <1>7, SignedKeys
<1>8. CASE UNCHANGED invVars
  BY <1>8, QuietKeys DEF invVars, reqVars, storeVars
<1> QED
  BY <1>1, <1>2, <1>3, <1>4, <1>5, <1>6, <1>7, <1>8 DEF InvNext

LEMMA KeysBounded == KeysInv => WithdrawnBounded
  BY DEF KeysInv, WithdrawnBounded, SeenSince

-----------------------------------------------------------------------------
(* The quota.  While the bucket of a charge must be kept, its counter is   *)
(* in the table and has counted every charge since.                        *)

Bucket == [count : Nat, expires : Nat]
TableOK(tb) ==
  /\ DOMAIN tb = {"gen", "counters"} /\ tb.gen \in Nat \cup {Never}
  /\ \A k \in DOMAIN tb.counters : tb.counters[k] \in Bucket

Since(cs, c) == {d \in cs : d.key = c.key /\ d.table = c.table /\ d.at >= c.at}
Counted(cs, tb, clock, c) ==
  c.table = tb.gen /\ c.at + c.keep > clock =>
    /\ c.key \in DOMAIN tb.counters
    /\ Cardinality(Since(cs, c)) <= tb.counters[c.key].count
    /\ tb.counters[c.key].expires >= c.at + c.keep
ChargeOK(c) ==
  /\ c.at \in Nat /\ c.at <= now /\ c.keep \in Nat \ {0} /\ c.limit \in Nat
  /\ c.table \in Nat /\ c.table <= quota.gen
Loaded == \A n \in DOMAIN gens : CatalogOk(gens[n].rules, Experimental)

QuotaInv ==
  /\ Loaded /\ TableOK(quota) /\ IsFiniteSet(charges)
  /\ \A c \in charges : ChargeOK(c) /\ Counted(charges, quota, now, c)
  /\ QuotaHeld

(* charge_with_receipt: a bucket that is still to be kept survives it and  *)
(* never counts down, and a charge that succeeds is counted within its     *)
(* limit.                                                                  *)
Charging(table, key, limit, keep, t, c) ==
  /\ TableOK(c.table) /\ (table.gen \in Nat => c.table.gen \in Nat /\ c.table.gen >= table.gen)
  /\ c.table.gen = table.gen =>
       \A k \in DOMAIN table.counters : table.counters[k].expires > t =>
         /\ k \in DOMAIN c.table.counters
         /\ c.table.counters[k].count >= table.counters[k].count
         /\ c.table.counters[k].expires >= table.counters[k].expires
  /\ c.result = "charged" =>
       /\ c.table.gen \in Nat /\ limit \in Nat
       /\ key \in DOMAIN c.table.counters /\ c.table.counters[key].count \in 1 .. limit
       /\ c.table.counters[key].expires >= t + keep
       /\ c.table.gen = table.gen /\ key \in DOMAIN table.counters =>
            c.table.counters[key].count = table.counters[key].count + 1

LEMMA ChargeCounts ==
  ASSUME NEW table, TableOK(table), NEW gen \in Nat, NEW key, NEW limit \in Nat \cup {Never},
         NEW keep \in Nat, NEW t \in Nat, NEW c, c = Charge(table, gen, key, limit, keep, t)
  PROVE  Charging(table, key, limit, keep, t, c)
<1> USE DEF Charging
<1> DEFINE tb == Scoped(table, gen)
           cs == tb.counters
           until == t + keep
           pressed == RuleBuckets(cs, key.rule) >= Buckets
           room == IF pressed THEN Keep(cs, Unexpired(cs, t)) ELSE cs
           fits == RuleBuckets(room, key.rule) < Buckets
           later == IF cs[key].expires > until THEN cs[key].expires ELSE until
           b == [cs[key] EXCEPT !.expires = later]
           ok == HasRoom(b, limit)
           b2 == IF ok THEN [b EXCEPT !.count = @ + 1] ELSE b
           n1 == [cs EXCEPT ![key] = b2]
           n2 == IF fits THEN [k \in DOMAIN room \cup {key} |->
                                 IF k = key THEN [count |-> 1, expires |-> until] ELSE room[k]]
                         ELSE room
<1>1. CASE limit \in {Never, 0}
  <2>1. c.table = table /\ c.result # "charged"
    BY <1>1 DEF Charge
  <2>2. \A k \in DOMAIN table.counters : table.counters[k].count \in Nat /\ table.counters[k].expires \in Nat
    BY DEF TableOK, Bucket
  <2> QED
    BY <2>1, <2>2
<1>2. limit \notin {Never, 0} => limit \in Nat /\ limit >= 1
  BY DEF Never
<1>3. /\ TableOK(tb) /\ tb.gen \in Nat /\ (table.gen \in Nat => tb.gen >= table.gen)
      /\ (tb.gen = table.gen => cs = table.counters)
  <2>1. CASE table.gen # Never /\ gen > table.gen
    <3>1. tb = [gen |-> gen, counters |-> << >>]
      BY <2>1 DEF Scoped
    <3>2. tb.gen = gen /\ DOMAIN tb = {"gen", "counters"} /\ DOMAIN tb.counters = {}
      BY <3>1
    <3> QED
      BY <2>1, <3>2 DEF TableOK
  <2>2. CASE ~(table.gen # Never /\ gen > table.gen)
    <3>1. /\ DOMAIN tb = {"gen", "counters"} /\ tb.counters = table.counters
          /\ tb.gen = IF table.gen = Never THEN gen ELSE table.gen
      BY <2>2 DEF Scoped, TableOK
    <3> QED
      BY <2>2, <3>1 DEF TableOK, Never
  <2> QED
    BY <2>1, <2>2
<1> HIDE DEF tb
<1>4. \A k \in DOMAIN cs : cs[k] \in Bucket /\ cs[k].count \in Nat /\ cs[k].expires \in Nat
  BY <1>3 DEF TableOK, Bucket
<1> HIDE DEF cs
<1>5. until \in Nat
  OBVIOUS
<1> HIDE DEF until
<1>6. CASE limit \notin {Never, 0} /\ key \in DOMAIN cs
  <2>1. c = [table |-> [tb EXCEPT !.counters = n1], result |-> IF ok THEN "charged" ELSE "exhausted"]
    BY <1>6 DEF Charge, tb, cs, until
  <2>2. c.table.counters = n1 /\ c.table.gen = tb.gen /\ DOMAIN c.table = {"gen", "counters"}
    <3> HIDE DEF n1, ok
    <3> QED
      BY <1>3, <2>1 DEF TableOK
  <2>3. /\ b \in Bucket /\ b.count = cs[key].count /\ b.expires \in Nat
        /\ b.expires >= cs[key].expires /\ b.expires >= until
    BY <1>4, <1>5, <1>6 DEF Bucket
  <2> HIDE DEF b
  <2>4. /\ b2 \in Bucket /\ b2.expires = b.expires
        /\ b2.count = IF ok THEN cs[key].count + 1 ELSE cs[key].count
    <3>1. CASE ok
      BY <1>4, <1>6, <2>3, <3>1 DEF Bucket
    <3>2. CASE ~ok
      BY <1>4, <1>6, <2>3, <3>2
    <3> QED
      BY <3>1, <3>2
  <2>5. ok => cs[key].count + 1 \in 1 .. limit
    BY <1>2, <1>4, <1>6, <2>3 DEF HasRoom
  <2> HIDE DEF b2, ok
  <2>6. DOMAIN n1 = DOMAIN cs /\ \A k \in DOMAIN cs : n1[k] = IF k = key THEN b2 ELSE cs[k]
    BY <1>6
  <2> HIDE DEF n1
  <2>7. TableOK(c.table)
    BY <1>3, <1>4, <2>2, <2>4, <2>6 DEF TableOK
  <2>8. \A k \in DOMAIN cs : n1[k].count >= cs[k].count /\ n1[k].expires >= cs[k].expires
    BY <1>4, <1>6, <2>3, <2>4, <2>6
  <2>9. c.result = "charged" => ok
    BY <2>1
  <2>10. c.result = "charged" => /\ n1[key].count \in 1 .. limit /\ n1[key].expires >= until
                                 /\ n1[key].count = cs[key].count + 1
    BY <1>6, <2>3, <2>4, <2>5, <2>6, <2>9
  <2> QED
    BY <1>2, <1>3, <1>6, <2>2, <2>6, <2>7, <2>8, <2>10 DEF until
<1>7. CASE limit \notin {Never, 0} /\ key \notin DOMAIN cs
  <2>1. c = [table |-> [tb EXCEPT !.counters = n2], result |-> IF fits THEN "charged" ELSE "untracked"]
    BY <1>7 DEF Charge, tb, cs, until
  <2>2. c.table.counters = n2 /\ c.table.gen = tb.gen /\ DOMAIN c.table = {"gen", "counters"}
    BY <1>3, <2>1 DEF TableOK
  <2>3. /\ DOMAIN room \subseteq DOMAIN cs /\ \A k \in DOMAIN room : room[k] = cs[k]
        /\ \A k \in DOMAIN cs : cs[k].expires > t => k \in DOMAIN room
    BY DEF Keep, Unexpired
  <2> HIDE DEF room, fits
  <2>4. /\ \A k \in DOMAIN n2 : n2[k] = IF k = key THEN [count |-> 1, expires |-> until] ELSE cs[k]
        /\ DOMAIN room \subseteq DOMAIN n2 /\ DOMAIN n2 \subseteq DOMAIN cs \cup {key}
        /\ fits => key \in DOMAIN n2
    BY <1>7, <2>3
  <2> HIDE DEF n2
  <2>5. [count |-> 1, expires |-> until] \in Bucket
    BY <1>5 DEF Bucket
  <2>6. TableOK(c.table)
    BY <1>3, <1>4, <2>2, <2>4, <2>5 DEF TableOK
  <2>7. \A k \in DOMAIN cs : cs[k].expires > t => /\ k \in DOMAIN n2 /\ n2[k] = cs[k]
                                                  /\ n2[k].count >= cs[k].count /\ n2[k].expires >= cs[k].expires
    BY <1>4, <1>7, <2>3, <2>4
  <2>8. c.result = "charged" => /\ key \in DOMAIN n2 /\ n2[key].count = 1 /\ n2[key].expires = until
    BY <2>1, <2>4
  <2>9. c.result = "charged" => n2[key].count \in 1 .. limit /\ n2[key].expires >= until
    BY <1>2, <1>5, <1>7, <2>8
  <2>10. tb.gen = table.gen => key \notin DOMAIN table.counters
    BY <1>3, <1>7
  <2> QED
    BY <1>2, <1>3, <1>7, <2>2, <2>6, <2>7, <2>8, <2>9, <2>10 DEF until
<1> QED
  BY <1>1, <1>6, <1>7

(* A table that keeps the buckets that must be kept counts the same. *)
LEMMA CountedKept ==
  ASSUME QuotaInv, NEW tb, TableOK(tb), (quota.gen \in Nat => tb.gen \in Nat /\ tb.gen >= quota.gen),
         tb.gen = quota.gen =>
           \A k \in DOMAIN quota.counters : quota.counters[k].expires > now =>
             /\ k \in DOMAIN tb.counters
             /\ tb.counters[k].count >= quota.counters[k].count
             /\ tb.counters[k].expires >= quota.counters[k].expires,
         NEW c \in charges, c.table = tb.gen, c.at + c.keep > now, now \in Nat
  PROVE  /\ tb.gen = quota.gen /\ c.key \in DOMAIN quota.counters /\ c.key \in DOMAIN tb.counters
         /\ Cardinality(Since(charges, c)) \in Nat
         /\ Cardinality(Since(charges, c)) <= quota.counters[c.key].count
         /\ Cardinality(Since(charges, c)) <= tb.counters[c.key].count
         /\ tb.counters[c.key].expires >= c.at + c.keep
<1>1. ChargeOK(c) /\ Counted(charges, quota, now, c) /\ TableOK(quota) /\ IsFiniteSet(charges)
  BY DEF QuotaInv
<1>2. tb.gen = quota.gen
  BY <1>1 DEF ChargeOK, TableOK, Never
<1>3. IsFiniteSet(Since(charges, c)) /\ Cardinality(Since(charges, c)) \in Nat
  BY <1>1, FS_Subset, FS_CardinalityType DEF Since
<1>4. /\ c.key \in DOMAIN quota.counters /\ Cardinality(Since(charges, c)) <= quota.counters[c.key].count
      /\ quota.counters[c.key].expires >= c.at + c.keep
  BY <1>1, <1>2 DEF Counted
<1>5. c.at + c.keep \in Nat /\ quota.counters[c.key].expires \in Nat /\ quota.counters[c.key].count \in Nat
  BY <1>1, <1>4 DEF ChargeOK, TableOK, Bucket
<1>6. quota.counters[c.key].expires > now
  BY <1>4, <1>5
<1>7. /\ c.key \in DOMAIN tb.counters /\ tb.counters[c.key].count >= quota.counters[c.key].count
      /\ tb.counters[c.key].expires >= quota.counters[c.key].expires
  BY <1>2, <1>4, <1>6
<1>8. tb.counters[c.key].count \in Nat /\ tb.counters[c.key].expires \in Nat
  BY <1>7 DEF TableOK, Bucket
<1> QED
  BY <1>2, <1>3, <1>4, <1>5, <1>7, <1>8

(* A charge that is refused, or none at all. *)
LEMMA QuotaUncharged ==
  ASSUME QuotaInv, Loaded', now \in Nat, now' \in Nat, now' >= now, charges' = charges, TableOK(quota'),
         (quota.gen \in Nat => quota'.gen \in Nat /\ quota'.gen >= quota.gen),
         quota'.gen = quota.gen =>
           \A k \in DOMAIN quota.counters : quota.counters[k].expires > now =>
             /\ k \in DOMAIN quota'.counters
             /\ quota'.counters[k].count >= quota.counters[k].count
             /\ quota'.counters[k].expires >= quota.counters[k].expires
  PROVE  QuotaInv'
<1>1. ASSUME NEW c \in charges PROVE ChargeOK(c)' /\ Counted(charges', quota', now', c)
  <2>1. ChargeOK(c) /\ TableOK(quota)
    BY DEF QuotaInv
  <2>2. ChargeOK(c)'
    BY <2>1 DEF ChargeOK, TableOK, Never
  <2>3. ASSUME c.table = quota'.gen, c.at + c.keep > now' PROVE c.at + c.keep > now
    BY <2>1, <2>3 DEF ChargeOK
  <2>4. Counted(charges', quota', now', c)
    BY <2>3, CountedKept DEF Counted
  <2> QED
    BY <2>2, <2>4
<1>2. QuotaHeld'
  BY DEF QuotaInv, QuotaHeld
<1> QED
  BY <1>1, <1>2 DEF QuotaInv

Window(cs, c) == {d \in cs : d.key = c.key /\ d.table = c.table /\ d.at >= c.at /\ d.at < c.at + c.keep}

(* A charge that is admitted: every window it falls in is counted by the   *)
(* bucket, and the bucket is within its limit.                             *)
LEMMA QuotaCharged ==
  ASSUME QuotaInv, Loaded', now \in Nat, now' = now, NEW d, charges' = charges \cup {d}, d.at = now,
         d.table = quota'.gen, d.keep \in Nat \ {0}, d.limit \in Nat, quota'.gen \in Nat, TableOK(quota'),
         (quota.gen \in Nat => quota'.gen \in Nat /\ quota'.gen >= quota.gen),
         quota'.gen = quota.gen =>
           \A k \in DOMAIN quota.counters : quota.counters[k].expires > now =>
             /\ k \in DOMAIN quota'.counters
             /\ quota'.counters[k].count >= quota.counters[k].count
             /\ quota'.counters[k].expires >= quota.counters[k].expires,
         d.key \in DOMAIN quota'.counters, quota'.counters[d.key].count \in 1 .. d.limit,
         quota'.counters[d.key].expires >= now + d.keep,
         quota'.gen = quota.gen /\ d.key \in DOMAIN quota.counters =>
           quota'.counters[d.key].count = quota.counters[d.key].count + 1
  PROVE  QuotaInv'
<1>1. IsFiniteSet(charges) /\ IsFiniteSet(charges') /\ TableOK(quota)
  BY FS_AddElement DEF QuotaInv
<1>2. \A c \in charges' : ChargeOK(c)'
  BY DEF QuotaInv, ChargeOK, TableOK, Never
<1>3. ASSUME NEW c \in charges, c.table = quota'.gen, c.at + c.keep > now
      PROVE  /\ c.key \in DOMAIN quota'.counters
             /\ Cardinality(Since(charges', c)) <= quota'.counters[c.key].count
             /\ quota'.counters[c.key].expires >= c.at + c.keep
  <2>1. /\ quota'.gen = quota.gen /\ c.key \in DOMAIN quota.counters /\ c.key \in DOMAIN quota'.counters
        /\ Cardinality(Since(charges, c)) \in Nat
        /\ Cardinality(Since(charges, c)) <= quota.counters[c.key].count
        /\ Cardinality(Since(charges, c)) <= quota'.counters[c.key].count
        /\ quota'.counters[c.key].expires >= c.at + c.keep
    BY <1>3, CountedKept
  <2>2. CASE c.key # d.key
    <3>1. Since(charges', c) = Since(charges, c)
      BY <2>2 DEF Since
    <3> QED
      BY <2>1, <3>1
  <2>3. CASE c.key = d.key
    <3>1. Since(charges', c) \subseteq Since(charges, c) \cup {d}
      BY DEF Since
    <3>2. IsFiniteSet(Since(charges, c))
      BY <1>1, FS_Subset DEF Since
    <3>3. /\ IsFiniteSet(Since(charges, c) \cup {d})
          /\ Cardinality(Since(charges, c) \cup {d}) <= Cardinality(Since(charges, c)) + 1
      <4> DEFINE sc == Since(charges, c)
      <4>1. Cardinality(sc) \in Nat /\ IsFiniteSet(sc)
        BY <2>1, <3>2
      <4> HIDE DEF sc
      <4>2. IsFiniteSet(sc \cup {d}) /\ Cardinality(sc \cup {d}) <= Cardinality(sc) + 1
        <5>1. CASE d \in sc
          <6>1. sc \cup {d} = sc
            BY <5>1
          <6>2. Cardinality(sc \cup {d}) = Cardinality(sc) /\ IsFiniteSet(sc \cup {d})
            BY <4>1, <6>1, Zenon
          <6>3. Cardinality(sc) <= Cardinality(sc) + 1
            BY <4>1
          <6> QED
            BY <6>2, <6>3, Zenon
        <5>2. CASE d \notin sc
          <6>1. IsFiniteSet(sc \cup {d}) /\ Cardinality(sc \cup {d}) = Cardinality(sc) + 1
            BY <4>1, <5>2, FS_AddElement
          <6> QED
            BY <4>1, <6>1
        <5> QED
          BY <5>1, <5>2
      <4> QED
        BY <4>2 DEF sc
    <3>4. /\ Cardinality(Since(charges', c)) <= Cardinality(Since(charges, c) \cup {d})
          /\ Cardinality(Since(charges', c)) \in Nat /\ Cardinality(Since(charges, c) \cup {d}) \in Nat
      BY <3>1, <3>3, FS_Subset, FS_CardinalityType
    <3>5. quota'.counters[d.key].count = quota.counters[d.key].count + 1 /\ quota.counters[d.key].count \in Nat
      BY <2>1, <2>3 DEF QuotaInv, TableOK, Bucket
    <3> QED
      BY <2>1, <2>3, <3>3, <3>4, <3>5
  <2> QED
    BY <2>2, <2>3
<1>4. Cardinality(Since(charges', d)) <= quota'.counters[d.key].count
  <2>1. CASE \E e \in charges : e.key = d.key /\ e.table = d.table /\ e.at >= now
    <3>1. PICK e \in charges : e.key = d.key /\ e.table = d.table /\ e.at >= now
      BY <2>1
    <3>2. e.at = now /\ e.at + e.keep > now
      BY <3>1 DEF QuotaInv, ChargeOK
    <3>3. Since(charges', e) = Since(charges', d)
      BY <3>1, <3>2 DEF Since
    <3> QED
      BY <1>3, <3>1, <3>2, <3>3
  <2>2. CASE ~(\E e \in charges : e.key = d.key /\ e.table = d.table /\ e.at >= now)
    <3>1. Since(charges', d) \subseteq {d}
      BY <2>2 DEF Since
    <3>2. Cardinality({d}) = 1 /\ IsFiniteSet({d})
      BY FS_Singleton
    <3>3. Cardinality(Since(charges', d)) <= 1 /\ Cardinality(Since(charges', d)) \in Nat
      BY <3>1, <3>2, FS_Subset, FS_CardinalityType
    <3> QED
      BY <3>3
  <2> QED
    BY <2>1, <2>2
<1>5. \A c \in charges' : Counted(charges', quota', now', c)
  BY <1>3, <1>4 DEF Counted
<1>6. ASSUME NEW c \in charges'
      PROVE  \E x \in Window(charges', c) : Cardinality(Window(charges', c)) <= x.limit
  <2>1. CASE d \in Window(charges', c)
    <3>1. c.key = d.key /\ c.table = quota'.gen /\ c.at + c.keep > now
      BY <1>2, <1>6, <2>1 DEF Window, ChargeOK
    <3>2. Cardinality(Since(charges', c)) <= quota'.counters[d.key].count
      BY <1>5, <1>6, <3>1 DEF Counted
    <3>3. Window(charges', c) \subseteq Since(charges', c) /\ IsFiniteSet(Since(charges', c))
      BY <1>1, FS_Subset DEF Window, Since
    <3>4. /\ Cardinality(Window(charges', c)) <= Cardinality(Since(charges', c))
          /\ Cardinality(Window(charges', c)) \in Nat /\ Cardinality(Since(charges', c)) \in Nat
      BY <3>3, FS_Subset, FS_CardinalityType
    <3>5. Cardinality(Window(charges', c)) <= d.limit
      BY <3>2, <3>4
    <3> QED
      BY <2>1, <3>5
  <2>2. CASE d \notin Window(charges', c)
    <3>1. c # d
      <4>1. d.at >= d.at /\ d.at < d.at + d.keep
        OBVIOUS
      <4> QED
        BY <2>2, <4>1 DEF Window
    <3>2. c \in charges /\ Window(charges', c) = Window(charges, c)
      BY <1>6, <2>2, <3>1 DEF Window
    <3>3. \E x \in Window(charges, c) : Cardinality(Window(charges, c)) <= x.limit
      BY <3>2 DEF QuotaInv, QuotaHeld, Window
    <3> QED
      BY <3>2, <3>3
  <2> QED
    BY <2>1, <2>2
<1>7. QuotaHeld'
  BY <1>6 DEF QuotaHeld, Window
<1> QED
  BY <1>1, <1>2, <1>5, <1>7 DEF QuotaInv

LEMMA QuotaQuiet ==
  ASSUME QuotaInv, InvocationInv, UNCHANGED <<charges, quota>>, Loaded', now' \in {now, now + 1}
  PROVE  QuotaInv'
<1>1. now \in Nat /\ TableOK(quota)
  BY DEF InvocationInv, StoreOK, QuotaInv
<1>2. now' \in Nat /\ now' >= now /\ TableOK(quota')
  BY <1>1
<1>3. /\ (quota.gen \in Nat => quota'.gen \in Nat /\ quota'.gen >= quota.gen)
      /\ \A k \in DOMAIN quota.counters : /\ k \in DOMAIN quota'.counters
                                          /\ quota'.counters[k].count >= quota.counters[k].count
                                          /\ quota'.counters[k].expires >= quota.counters[k].expires
  BY <1>1 DEF TableOK, Bucket
<1> QED
  BY <1>1, <1>2, <1>3, QuotaUncharged

(* The terms on which a request is charged are those of a loaded rule. *)
LEMMA RuleTerms ==
  ASSUME InvocationInv, QuotaInv, NEW r \in Reqs, req[r].stage = "resolve", ByProvider(req[r])
  PROVE  /\ Evidence(req[r]).limit \in Nat \cup {Never} /\ Retention(req[r]) \in Nat \ {0}
         /\ req[r].gen \in Nat
<1> DEFINE q == req[r]
<1>1. Running(q) /\ q.i > 0 /\ GensOK /\ Loaded
  BY CleanReq DEF InvocationInv, QuotaInv, ByProvider, Early
<1>2. q.gen \in Nat /\ q.gen \in DOMAIN gens /\ gens[q.gen] \in Catalogs /\ q.i \in DOMAIN gens[q.gen].rules
  BY <1>1, InputsAssumption DEF Running, IsReq, GensOK
<1>3. Rule(q).age \in Nat /\ Rule(q).skew \in Nat /\ Rule(q).quota \in Nat \cup {Never}
  BY <1>2, InputsAssumption DEF Rule, Gen
<1>4. Rule(q).age > 0
  BY <1>1, <1>2 DEF Loaded, CatalogOk, CommonRuleOk, TimesOk, Rule, Gen
<1>5. Evidence(q).limit = Rule(q).quota /\ Retention(q) = Rule(q).age + Rule(q).skew
  BY DEF Evidence, Retention
<1> HIDE DEF q
<1>6. Retention(q) \in Nat \ {0}
  BY <1>3, <1>4, <1>5
<1> QED
  BY <1>2, <1>3, <1>5, <1>6 DEF q

LEMMA ResolveQuota ==
  ASSUME InvocationInv, QuotaInv, NEW r \in Reqs, Resolve(r)
  PROVE  QuotaInv'
<1> DEFINE q == req[r]
           a == [q EXCEPT !.subject = Actor(q)]
           lim == Evidence(q).limit
           kp == Retention(q)
           c == Charge(quota, q.gen, RunKey(q), lim, kp, now)
           d == [req |-> r, key |-> RunKey(q), at |-> now, table |-> c.table.gen, limit |-> lim, keep |-> kp]
           bad == a.subject = None \/ (q.msg.issuer # None /\ q.msg.issuer # a.subject)
<1>1. q.stage = "resolve" /\ now' = now /\ gens' = gens /\ now \in Nat /\ TableOK(quota)
  BY DEF Resolve, storeVars, InvocationInv, StoreOK, QuotaInv
<1>2. Loaded'
  BY <1>1 DEF QuotaInv, Loaded
<1>3. CASE bad \/ ~ByProvider(q)
  <2>1. UNCHANGED <<charges, quota>>
    BY <1>3 DEF Resolve
  <2> QED
    BY <1>1, <1>2, <2>1, QuotaQuiet
<1>4. CASE ~bad /\ ByProvider(q)
  <2>1. lim \in Nat \cup {Never} /\ kp \in Nat \ {0} /\ kp \in Nat /\ q.gen \in Nat
    BY <1>1, <1>4, RuleTerms
  <2>2. quota' = c.table /\ (c.result # "charged" => charges' = charges)
        /\ (c.result = "charged" => charges' = charges \cup {d})
    BY <1>4 DEF Resolve
  <2>3. c = Charge(quota, q.gen, RunKey(q), lim, kp, now)
    OBVIOUS
  <2>4. d.at = now /\ d.table = c.table.gen /\ d.limit = lim /\ d.keep = kp /\ d.key = RunKey(q)
    OBVIOUS
  <2> HIDE DEF c, d, lim, kp, q
  <2>5. Charging(quota, RunKey(q), lim, kp, now, c)
    BY <1>1, <2>1, <2>3, ChargeCounts
  <2>6. CASE c.result # "charged"
    <3>1. now' \in Nat /\ now' >= now
      BY <1>1
    <3> QED
      BY <1>1, <1>2, <2>2, <2>5, <2>6, <3>1, QuotaUncharged DEF Charging
  <2>7. CASE c.result = "charged"
    BY <1>1, <1>2, <2>1, <2>2, <2>4, <2>5, <2>7, QuotaCharged DEF Charging
  <2> QED
    BY <2>6, <2>7
<1> QED
  BY <1>3, <1>4

LEMMA QuotaInit == InvInit => QuotaInv
<1> SUFFICES ASSUME InvInit PROVE QuotaInv
  OBVIOUS
<1>1. charges = {} /\ IsFiniteSet(charges)
  BY FS_EmptySet DEF InvInit
<1>2. TableOK(quota)
  BY DEF InvInit, EmptyQuota, TableOK
<1>3. PICK c \in Catalogs : gens = <<c>> /\ CatalogOk(c.rules, Experimental)
  BY DEF InvInit, Loadable
<1>4. Loaded
  BY <1>3 DEF Loaded
<1> QED
  BY <1>1, <1>2, <1>4 DEF QuotaInv, QuotaHeld

LEMMA QuotaStep == InvocationInv /\ QuotaInv /\ [InvNext]_invVars => QuotaInv'
<1> SUFFICES ASSUME InvocationInv, QuotaInv, [InvNext]_invVars PROVE QuotaInv'
  OBVIOUS
<1>1. ASSUME gens' = gens, UNCHANGED <<charges, quota>>, now' \in {now, now + 1} PROVE QuotaInv'
  <2>1. Loaded'
    BY <1>1 DEF QuotaInv, Loaded
  <2> QED
    BY <1>1, <2>1, QuotaQuiet
<1>2. CASE Tick \/ Republish
  BY <1>1, <1>2 DEF Tick, Republish, World, reqVars, storeVars
<1>3. CASE Reload
  <2>1. PICK c \in Catalogs : gens' = Append(gens, c) /\ CatalogOk(c.rules, Experimental)
    BY <1>3 DEF Reload, Loadable
  <2>2. gens \in Seq(Catalogs)
    BY DEF InvocationInv, GensOK
  <2>3. Loaded'
    <3>1. \A n \in DOMAIN gens' : gens'[n] = c \/ (n \in DOMAIN gens /\ gens'[n] = gens[n])
      BY <2>1, <2>2
    <3> QED
      BY <2>1, <3>1 DEF QuotaInv, Loaded
  <2>4. UNCHANGED <<charges, quota, now>>
    BY <1>3 DEF Reload, reqVars, storeVars
  <2> QED
    BY <2>3, <2>4, QuotaQuiet
<1>4. CASE \E j \in Jkts : GetChallenge(j)
  BY <1>1, <1>4 DEF GetChallenge, Hand, World, reqVars
<1>5. ASSUME NEW r \in Reqs, \/ Arrive(r) \/ Lookup(r) \/ Answer(r) \/ BadAnswer(r) \/ Fetched(r)
                             \/ FetchFails(r) \/ Material(r) \/ Open(r) \/ Return(r) \/ Protect(r) \/ Cancel(r)
                             \/ FreshError(r)
      PROVE  QuotaInv'
  BY <1>1, <1>5 DEF Arrive, Lookup, Answer, BadAnswer, Fetched, FetchFails, FreshError, Material, Open, Return, Protect,
                    Cancel, Still, World, storeVars
<1>6. ASSUME NEW r \in Reqs, Fresh(r) \/ Signed(r) PROVE QuotaInv'
  BY <1>1, <1>6 DEF Fresh, Signed, Present, World, storeVars
<1>7. ASSUME NEW r \in Reqs, Resolve(r) PROVE QuotaInv'
  BY <1>7, ResolveQuota
<1>8. CASE UNCHANGED invVars
  BY <1>1, <1>8 DEF invVars, reqVars, storeVars
<1> QED
  BY <1>2, <1>3, <1>4, <1>5, <1>6, <1>7, <1>8 DEF InvNext

(* A provider's token is worth what the rule and the provider say: the     *)
(* charges of one run stay within the largest limit that one of them was   *)
(* pinned to, whatever reloads and purges come between, and a key that the *)
(* provider has withdrawn is honoured for at most MaxAge + StaleIfError,   *)
(* whichever fetch answers last (RunQuota::charge_with_receipt and the     *)
(* JWKS cache in ci_federation.rs).                                        *)
THEOREM TrustHeldHolds == InvSpec => []TrustHeld
<1>1. InvInit => InvocationInv /\ KeysInv /\ QuotaInv
  BY InvocationInit, KeysInit, QuotaInit
<1>2. (InvocationInv /\ KeysInv /\ QuotaInv) /\ [InvNext]_invVars => (InvocationInv /\ KeysInv /\ QuotaInv)'
  BY InvocationStep, KeysStep, QuotaStep
<1>3. InvocationInv /\ KeysInv /\ QuotaInv => TrustHeld
  BY KeysBounded DEF TrustHeld, QuotaInv
<1> QED
  BY <1>1, <1>2, <1>3, PTL DEF InvSpec

-----------------------------------------------------------------------------
(* Rules.  Two rules of one provider that accept the same token overlap,   *)
(* and rules of two providers have different issuers.                      *)
LEMMA NoSharedToken ==
  ASSUME NEW a, NEW b, a.kind \in {"github", "forgejo"}, b.kind \in {"github", "forgejo"},
         NEW m, NEW t, Verifies(a, m, m.aud, {m.kid}, t), Verifies(b, m, m.aud, {m.kid}, t)
  PROVE  RulesOverlap(a, b)
<1>1. m.iss = a.issuer /\ m.iss = b.issuer
  BY DEF Verifies, VerifyGithub, VerifyForgejo, SignedFor
<1>2. a.kind = b.kind
  BY <1>1 DEF Verifies, VerifyGithub, VerifyForgejo, GithubRuleOk, ForgejoRuleOk
<1>3. CASE a.kind = "github"
  <2>1. /\ m.who = a.who /\ m.ref \in a.refs /\ m.event \in a.events /\ m.runner \in a.runners
        /\ m.who = b.who /\ m.ref \in b.refs /\ m.event \in b.events /\ m.runner \in b.runners
    BY <1>2, <1>3 DEF Verifies, VerifyGithub
  <2> QED
    BY <1>2, <1>3, <2>1 DEF RulesOverlap, GithubOverlap
<1>4. CASE a.kind = "forgejo"
  <2>1. m.who = a.who /\ m.who = b.who
    BY <1>2, <1>4 DEF Verifies, VerifyForgejo
  <2> QED
    BY <1>2, <1>4, <2>1 DEF RulesOverlap, ForgejoOverlap
<1> QED
  BY <1>3, <1>4

LEMMA LoadedExclusive ==
  ASSUME NEW c \in Catalogs, CatalogOk(c.rules, Experimental)
  PROVE  Exclusive(c.rules)
<1> SUFFICES ASSUME NEW m \in Tokens, NEW t \in 0 .. MaxTime
             PROVE  Cardinality({i \in DOMAIN c.rules : Verifies(c.rules[i], m, m.aud, {m.kid}, t)}) <= 1
  BY DEF Exclusive
<1> DEFINE hits == {i \in DOMAIN c.rules : Verifies(c.rules[i], m, m.aud, {m.kid}, t)}
<1>1. ASSUME NEW i \in hits, NEW k \in hits PROVE i = k
  <2>1. i \in Nat /\ k \in Nat /\ i \in DOMAIN c.rules /\ k \in DOMAIN c.rules
    BY InputsAssumption
  <2>2. c.rules[i].kind \in {"github", "forgejo"} /\ c.rules[k].kind \in {"github", "forgejo"}
    BY <2>1, InputsAssumption
  <2>3. Verifies(c.rules[i], m, m.aud, {m.kid}, t) /\ Verifies(c.rules[k], m, m.aud, {m.kid}, t)
    BY <1>1
  <2>4. RulesOverlap(c.rules[i], c.rules[k]) /\ RulesOverlap(c.rules[k], c.rules[i])
    BY <2>2, <2>3, NoSharedToken, SMTT(30)
  <2>5. ~(i < k) /\ ~(k < i)
    BY <2>1, <2>4 DEF CatalogOk
  <2> QED
    BY <2>1, <2>5
<1> HIDE DEF hits
<1>2. CASE hits = {}
  BY <1>2, FS_EmptySet DEF hits
<1>3. CASE hits # {}
  <2>1. PICK i : hits = {i}
    BY <1>1, <1>3
  <2>2. Cardinality(hits) = 1
    BY <2>1, FS_Singleton
  <2> QED
    BY <2>2 DEF hits
<1> QED
  BY <1>2, <1>3

(* Whatever catalog a reload installs, no token is accepted by two of its  *)
(* rules, so the order of the rules never decides whose subject a request  *)
(* acts for (rules_overlap and the validation of a ProviderCatalog in      *)
(* ci_federation.rs).                                                      *)
THEOREM OneRulePerTokenHolds == InvSpec => OneRulePerToken
<1>1. InvocationInv /\ [InvNext]_invVars => [gens' # gens => Exclusive(gens'[Len(gens')].rules)]_invVars
  <2> SUFFICES ASSUME InvocationInv, InvNext, gens' # gens PROVE Exclusive(gens'[Len(gens')].rules)
    OBVIOUS
  <2>1. Reload
    BY ZenonT(40) DEF InvNext, Tick, Republish, GetChallenge, World, Arrive, Lookup, Answer, BadAnswer, Fetched, FetchFails,
           Fresh, FreshError, Resolve, Material, Open, Signed, Return, Protect, Cancel, Still
  <2>2. PICK c \in Catalogs : gens' = Append(gens, c) /\ CatalogOk(c.rules, Experimental)
    BY <2>1 DEF Reload, Loadable
  <2>3. gens'[Len(gens')] = c
    BY <2>2 DEF InvocationInv, GensOK
  <2> QED
    BY <2>2, <2>3, LoadedExclusive
<1> QED
  BY <1>1, InvocationInvHolds, PTL DEF InvSpec, OneRulePerToken
=============================================================================

------------------------------ MODULE Evidence ------------------------------
(***************************************************************************)
(* Who is calling: the evidence of a connection, the expressions by which  *)
(* the policy's subjects match it, and the resolution of one subject.      *)
(*                                                                         *)
(* An expression is a sequence of nodes, the children of a node before it  *)
(* and the root last: [op |-> "leaf", pred |-> p], or [op |-> "all" or     *)
(* "any", kids |-> indices].  A piece of evidence that the kernel or the   *)
(* service manager did not give is Unknown.                                *)
(***************************************************************************)
EXTENDS Integers, Sequences, FiniteSets

CONSTANTS
  Unknown,            \* evidence that is not available, a model value
  MaxDepth, MaxLeaves, MaxReported   \* MAX_EXPRESSION_DEPTH, _LEAVES, MAX_REPORTED_SUBJECTS

Domains == {"host", "systemd"}
Slots == {"real", "effective", "saved", "filesystem"}
Uniform(id) == [s \in Slots |-> id]
AllEqual(slots, id) == \A s \in Slots : slots[s] = id
(* The fields of the evidence of a connection. *)
SnapshotFields == {"domain", "uids", "gids", "supplementary", "digest", "systemd", "signature"}
EvidenceState == {"match", "no-match", "unavailable"}

-----------------------------------------------------------------------------
(* Leaves.  A predicate is [on, slot, want]: the evidence it reads, the    *)
(* credential slot ("all" for every slot) and the value it asks for.       *)

CompareSlots(v, slot, want) ==
  IF v = Unknown THEN "unavailable"
  ELSE IF (IF slot = "all" THEN AllEqual(v, want) ELSE v[slot] = want) THEN "match" ELSE "no-match"
CompareMembership(v, want) ==
  IF v = Unknown THEN "unavailable" ELSE IF want \in v THEN "match" ELSE "no-match"
Compare(v, want) ==
  IF v = Unknown THEN "unavailable" ELSE IF v = want THEN "match" ELSE "no-match"
(* A unit or its template must agree, and so must the manager user. *)
CompareSystemd(v, part, want) ==
  IF v = Unknown THEN "unavailable"
  ELSE IF v[part] = want.name /\ v.user = want.user THEN "match" ELSE "no-match"
LeafState(p, ev) ==
  CASE p.on \in {"uids", "gids"} -> CompareSlots(ev[p.on], p.slot, p.want)
    [] p.on = "supplementary" -> CompareMembership(ev.supplementary, p.want)
    [] p.on \in {"unit", "template"} -> CompareSystemd(ev.systemd, p.on, p.want)
    [] OTHER -> Compare(ev[p.on], p.want)

-----------------------------------------------------------------------------
(* Expressions. *)

Root(e) == Len(e)
Depth(e) ==
  LET d[i \in DOMAIN e] ==
        IF e[i].op = "leaf" THEN 0
        ELSE 1 + (CHOOSE m \in {d[k] : k \in e[i].kids} : \A k \in e[i].kids : d[k] <= m)
  IN d[Root(e)]
LeafCount(e) == Cardinality({i \in DOMAIN e : e[i].op = "leaf"})

(* Three-valued conjunction and disjunction. *)
EvaluateAll_Optimistic(states) == IF "no-match" \in states THEN "no-match" ELSE "match"
EvaluateAll(states) ==
  IF "no-match" \in states THEN "no-match"
  ELSE IF "unavailable" \in states THEN "unavailable" ELSE "match"
EvaluateAny(states) ==
  IF "match" \in states THEN "match"
  ELSE IF "unavailable" \in states THEN "unavailable" ELSE "no-match"
Combine(op, states) == IF op = "all" THEN EvaluateAll(states) ELSE EvaluateAny(states)
Evaluate3(e, ev) ==
  LET s[i \in DOMAIN e] ==
        IF e[i].op = "leaf" THEN LeafState(e[i].pred, ev)
        ELSE Combine(e[i].op, {s[k] : k \in e[i].kids})
  IN s[Root(e)]

(* Whether a match rests on the signature key: in a conjunction one        *)
(* matching child suffices, in a disjunction a matching branch must.       *)
SignatureBound(e, ev) ==
  LET s[i \in DOMAIN e] ==
        IF e[i].op = "leaf"
        THEN [state |-> LeafState(e[i].pred, ev), bound |-> e[i].pred.on = "signature"]
        ELSE LET kids == {s[k] : k \in e[i].kids}
                 state == Combine(e[i].op, {k.state : k \in kids})
             IN [state |-> state,
                 bound |-> state = "match" /\ \E k \in kids : k.state = "match" /\ k.bound]
  IN s[Root(e)].bound

(* A signed caller resolves only through its signature. *)
EvaluateForResolution(e, ev) ==
  IF ev.signature # Unknown /\ Evaluate3(e, ev) = "match" /\ ~SignatureBound(e, ev)
  THEN "no-match" ELSE Evaluate3(e, ev)

-----------------------------------------------------------------------------
(* Compilation: what an expression of a policy file must satisfy. *)

ValidatePredicateDomain(p, domain) == p.on \in {"unit", "template"} => domain # "host"
(* A name is resolved in the local account files, and only for a host      *)
(* process or a unit's manager user; a number is taken as it is.           *)
CompileIdentity(p, domain, accounts) ==
  IF p.named THEN (domain = "host" \/ p.on \in {"unit", "template"}) /\ p.want \in accounts
  ELSE TRUE
(* The kinds of predicate an expression may hold. *)
Predicates == {"uids", "gids", "supplementary", "digest", "unit", "template", "signature"}
CompilePredicate(p, domain, accounts) ==
  /\ p.on \in Predicates
  /\ CompileIdentity(p, domain, accounts) /\ ValidatePredicateDomain(p, domain)
(* No group is empty, and the parts of a group come before it. *)
WellFormed(e) == e # << >> /\ \A i \in DOMAIN e : e[i].op = "leaf" \/ e[i].kids \in (SUBSET (1..(i - 1))) \ {{}}
CompileExpression(e, domain, accounts) ==
  /\ WellFormed(e)
  /\ \A i \in DOMAIN e : e[i].op = "leaf" => CompilePredicate(e[i].pred, domain, accounts)
  /\ Depth(e) <= MaxDepth /\ LeafCount(e) <= MaxLeaves

(* External: the file at a path, as [ino, len, mtime]; Same is what a      *)
(* rename or a rewrite between the reads breaks.                           *)
Same(a, b) == a = b
ReadStable(before, after, path, length) ==
  Same(before, after) /\ Same(after, path) /\ length = before.len

-----------------------------------------------------------------------------
(* Resolution. *)

Eligible(subjects, ev) == {s \in DOMAIN subjects : subjects[s].domain = ev.domain}
InState(subjects, ev, state) ==
  {s \in Eligible(subjects, ev) : EvaluateForResolution(subjects[s].match, ev) = state}
ResolveSubject(subjects, ev) ==
  LET matching == InState(subjects, ev, "match")
      unavailable == InState(subjects, ev, "unavailable")
  IN IF ev.domain = Unknown THEN [ok |-> FALSE, why |-> "DomainUnavailable", who |-> {}]
     ELSE IF Cardinality(matching) > 1 THEN [ok |-> FALSE, why |-> "AmbiguousSubject", who |-> matching]
     ELSE IF unavailable # {} THEN [ok |-> FALSE, why |-> "EvidenceUnavailable", who |-> matching]
     ELSE IF matching = {} THEN [ok |-> FALSE, why |-> "NoSubject", who |-> {}]
     ELSE [ok |-> TRUE, why |-> "", who |-> matching]

(* A peer is [uid, gid], either of which the socket may not give; the      *)
(* groups of a uid come from the configuration.                            *)
HostProcessSnapshot(peer, groups) ==
  [domain |-> "host", uids |-> Uniform(peer.uid),
   gids |-> IF peer.gid = Unknown THEN Unknown ELSE Uniform(peer.gid),
   supplementary |-> IF peer.uid \in DOMAIN groups THEN groups[peer.uid] ELSE {},
   digest |-> Unknown, systemd |-> Unknown, signature |-> Unknown]
Signed(ev, key) == [ev EXCEPT !.signature = key]
ResolveEvidenceActor(subjects, ev) == ResolveSubject(subjects, ev)
ResolveLocalActor(subjects, groups, peer) ==
  IF peer.uid = Unknown THEN [ok |-> FALSE, why |-> "MissingPeerCredentials", who |-> {}]
  ELSE ResolveEvidenceActor(subjects, HostProcessSnapshot(peer, groups))
(* The bare-uid resolution of the JWT paths knows no group. *)
ResolveUnixActor(subjects, groups, uid) ==
  ResolveLocalActor(subjects, groups, [uid |-> uid, gid |-> Unknown])
(* What the audit record says of a resolution that failed. *)
ResolutionReason(why) ==
  CASE why \in {"MissingPeerCredentials", "NoSubject"} -> "no_actor_subject"
    [] why = "DomainUnavailable" -> "actor_domain_unavailable"
    [] why = "AmbiguousSubject" -> "ambiguous_actor_subject"
    [] OTHER -> "actor_evidence_unavailable"

(* Evidence that agrees with ev wherever ev has it. *)
Completes(full, ev) == \A f \in DOMAIN ev : ev[f] # Unknown => full[f] = ev[f]
=============================================================================

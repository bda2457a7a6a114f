----------------------------- MODULE MCServing -----------------------------
(* Two issuers, four generations a reload may bring in, and small sets of  *)
(* callers, expressions and policy files.  Scene "deny" plays the deny-    *)
(* list: Revoke RPCs overlap and give one token two expiries.              *)
EXTENDS Serving, Revocation, TLC
CONSTANTS j1, j2

X5 == <<"svid", "x509">>
JW == <<"svid", "jwt">>
L(name, value) == [name |-> name, value |-> value]
Issuer(kind, domain) ==
  [class |-> "asym", engine |-> "transit", type |-> "ecdsa-p256", backend |-> "vault", path |-> "p",
   labels |-> <<L("svid_kind", kind), L("trust_domain", domain), L("sds_certificate", "cert"),
                L("sds_validation_context", "ca")>>,
   nameOk |-> TRUE, described |-> TRUE, missing |-> "error", gen |-> NoValue, public |-> NoValue, pin |-> NoValue,
   nix |-> NoValue, writable |-> TRUE]
Vault == [kind |-> "vault", engines |-> {"transit", "kv2"}, capabilities |-> {"pki-crl"}, mints |-> {"ed25519"},
          requires |-> {}]
Keys(domain) ==
  [backends |-> [vault |-> Vault],
   keys |-> [k \in {X5, JW} |-> IF k = X5 THEN Issuer("x509", domain) ELSE Issuer("jwt", "one")]]

Leaf(on, want) == [op |-> "leaf", pred |-> [on |-> on, slot |-> "all", want |-> want, named |-> FALSE], kids |-> {}]
Node(op, kids) == [op |-> op, kids |-> kids, pred |-> Leaf("uids", 0).pred]
Subject(name, match) == [name |-> name, domain |-> "host", glass |-> FALSE, match |-> match]
Rule(id, subjects, ops, targets) ==
  [id |-> id, subjects |-> subjects, action |-> {[kind |-> "op", arg |-> op] : op \in ops}, target |-> targets]
(* What the policy grants to the caller. *)
Raw(ops) ==
  [subjects |-> <<Subject("app", <<Leaf("uids", 1)>>)>>, roles |-> << >>,
   rules |-> <<Rule("r", {"app"}, ops, {<<"svid", "*">>, <<"broker", "**">>})>>]
Full == {"Mint", "List", "Watch"}
Generation(domain, raw) ==
  [catalog |-> Keys(domain), policy |-> Resolved(raw), groups |-> [u \in {1} |-> {7}]]
MCGenerations ==
  [same |-> Generation("one", Raw(Full)), moved |-> Generation("two", Raw(Full)),
   watch |-> Generation("one", Raw({"Watch"})), mint |-> Generation("two", Raw({"Mint"}))]
ASSUME GenerationsLoad ==
  \A d \in {"one", "two"}, ops \in {Full, {"Watch"}, {"Mint"}} : LoadPair(Keys(d), Raw(ops), {})
MCKeyOrder == <<JW, X5>>
MCPeer == [uid |-> 1, gid |-> 5]

(* Callers: two subjects out of a few expressions, evidence with and       *)
(* without a gid, a digest, a unit and a signature.                        *)
Expressions ==
  {<<Leaf("uids", 1)>>, <<Leaf("gids", 5)>>, <<Leaf("supplementary", 7)>>, <<Leaf("digest", "d")>>,
   <<Leaf("signature", "k")>>,
   <<Leaf("uids", 1), Leaf("digest", "d"), Node("all", {1, 2})>>,
   <<Leaf("uids", 2), Leaf("gids", 5), Node("any", {1, 2})>>,
   <<Leaf("uids", 1), Leaf("signature", "k"), Leaf("digest", "d"), Node("all", {2, 3}), Node("any", {1, 4})>>}
  \cup {<<[Leaf("gids", 5) EXCEPT !.pred.slot = s]>> : s \in {"effective", "saved"}}
Unit == [unit |-> "u", template |-> "t", user |-> 1]
ByUnit == <<[Leaf("unit", [name |-> "u", user |-> 1]) EXCEPT !.pred.on = "unit"]>>
MCCases ==
  [subjects : {[s \in {"a", "b"} |-> IF s = "a" THEN [domain |-> "host", glass |-> FALSE, match |-> x]
                                     ELSE [domain |-> d, glass |-> FALSE, match |-> y]] :
                x \in Expressions, y \in Expressions \cup {ByUnit}, d \in Domains},
   full : {[Signed(HostProcessSnapshot([uid |-> u, gid |-> g], [n \in {1} |-> {7}]), k)
              EXCEPT !.digest = dg, !.systemd = Unit, !.domain = d] :
             u \in {1, 2}, g \in {5}, k \in {Unknown, "k"}, dg \in {"d", "e"}, d \in Domains},
   hidden : {{"digest"}, {"digest", "gids"}, {"systemd"}}]

(* Policy files: one or two rules over literal and wildcard targets. *)
Globs == {<<"*">>, <<"**">>, <<"a", "**">>, <<"a", "*">>, <<"a">>, <<"a*">>, <<"*", "b">>}
Rules2 ==
  {<<Rule("r", {s}, {"Get", "Sign"}, {g, h})>> : s \in {"app", "glass", "ghost"}, g, h \in Globs}
  \cup {<<Rule("r", {"app"}, {"Get"}, {g}), [Rule(id, ss, {"Get"}, {h}) EXCEPT !.action = {[kind |-> k, arg |-> "role"]}]>> :
          g, h \in {<<"a", "**">>, <<"**">>}, id \in {"r", "q"}, ss \in {{}, {"app"}, {"app", "glass"}}, k \in {"role", "any", "bad"}}
Subjects2 == <<Subject("app", <<Leaf("uids", 1)>>), [Subject("glass", <<Leaf("uids", 2)>>) EXCEPT !.glass = TRUE]>>
(* Catalogs: the issuer with one field changed. *)
Base == Issuer("jwt", "one")
KeyEntries ==
  {Base, [Base EXCEPT !.type = "ed25519"], [Base EXCEPT !.type = NoValue], [Base EXCEPT !.backend = "none"],
   [Base EXCEPT !.class = "value", !.type = NoValue], [Base EXCEPT !.class = "value", !.type = NoValue, !.missing = "generate"],
   [Base EXCEPT !.class = "sealing", !.type = "x25519", !.public = "pub", !.labels = << >>, !.pin = {"context"}],
   [Base EXCEPT !.engine = "kv2"], [Base EXCEPT !.engine = "pki", !.path = "issue"], [Base EXCEPT !.engine = "pki"],
   [Base EXCEPT !.missing = "generate", !.type = "ed25519", !.labels = << >>],
   [Base EXCEPT !.labels = <<L("pqc_custody", "software-encrypted"), L("pqc_custody", "backend-native")>>],
   [Base EXCEPT !.labels = <<L("broker_key_use", NoValue)>>], [Base EXCEPT !.labels = <<L("nats_type", "A")>>],
   [Base EXCEPT !.type = "ed25519", !.labels = << >>,
                !.nix = [version |-> 1, name |-> "n", state |-> "pending", pinned |-> FALSE]]}
ASSUME ErrorsNamed ==
  {ValidateKey([backends |-> [vault |-> Vault]], e) : e \in KeyEntries} \subseteq KeyErrors \cup {"ok"}
MCFiles ==
  [catalog : {Keys("one")},
   raw : {[subjects |-> Subjects2, roles |-> [role |-> {"Get", "Set"}], rules |-> r] : r \in Rules2},
   accounts : {{}}, strictness : {"strict"}]
  \cup [catalog : {[backends |-> [vault |-> Vault], keys |-> [k \in {X5} |-> e]] : e \in KeyEntries},
        raw : {Raw(Full)}, accounts : {{}}, strictness : {"off", "degraded", "strict"}]
MCProbes == {<<"z">>, <<"z", "y">>}

TwoExpiries == (j1 :> {2, 3}) @@ (j2 :> {3})

MCInit == ServingInit /\ Init
MCNext ==
  \/ ServingNext /\ UNCHANGED vars
  \/ Plays("deny") /\ Next /\ UNCHANGED servingVars
MCSpec == MCInit /\ [][MCNext]_<<servingVars, vars>>
=============================================================================

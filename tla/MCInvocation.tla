---------------------------- MODULE MCInvocation ----------------------------
(* Two requests against a broker that loads at most two generations.       *)
EXTENDS Invocation, TLC

Github(id, who, limit, ca) ==
  [id |-> id, kind |-> "github", subject |-> "ci", aud |-> "broker", profiles |-> {"artifact-sign"},
   targets |-> {"art"}, quota |-> limit, age |-> 2, skew |-> 0, issuer |-> "github", urlsOk |-> TRUE,
   who |-> who, refs |-> {"main"}, events |-> {"push"}, runners |-> {"hosted"}, env |-> "none",
   from |-> 0, until |-> 0, pAge |-> 2, pSkew |-> 0, ca |-> ca]
Forgejo(id, who, limit) ==
  [Github(id, who, limit, "system") EXCEPT !.kind = "forgejo", !.issuer = "forge", !.until = 4]

Token1(kid, who, iss, iat, run) ==
  [kid |-> kid, sig |-> TRUE, aud |-> "p", iss |-> iss, who |-> who, ref |-> "main",
   event |-> "push", runner |-> "hosted", env |-> "none", iat |-> iat, nbf |-> iat,
   exp |-> iat + 4, run |-> run, oversized |-> FALSE]

Sealed(tokens) ==
  [challenge |-> TRUE, proof |-> "p", signer |-> "p", tokens |-> tokens, aud |-> "broker", ctype |-> "sign",
   target |-> "art", resp |-> "ephemeral", recipient |-> "req", issuer |-> None, uid |-> TRUE,
   sigOk |-> TRUE, claimsOk |-> TRUE, body |-> [ok |-> TRUE, key |-> "art"]]
Policy(rules, svc, grants) ==
  [rules |-> rules, signers |-> [k \in {"s", "w"} |-> svc], ed25519 |-> {"s"}, subjects |-> {"ci", "svc"},
   grants |-> grants, respKeys |-> {"cat"}]

AllGrants == {"ci", "svc"} \X {"decrypt", "sign"} \X {"req", "art"}
Tokens0 == {Token1("k1", "repo", "github", 0, 1), Token1("k2", "fork", "forge", 0, 2)}
Messages0 == {Sealed(<<Token1("k1", "repo", "github", 0, 1)>>),
              [Sealed(<< >>) EXCEPT !.challenge = FALSE, !.proof = None, !.signer = "s",
                                    !.target = None, !.resp = "cat", !.issuer = "svc"],
              [Sealed(<< >>) EXCEPT !.proof = None, !.signer = "w", !.target = None, !.resp = "cat"]}
Catalogs0 == {Policy(<<Github("a", "repo", 2, "file")>>, "svc", AllGrants),
              Policy(<<Forgejo("b", "fork", 1), Forgejo("c", "fork", 1)>>, "svc", AllGrants),
              Policy(<<Forgejo("b", "fork", 1), Github("a", "repo", 1, "system")>>, "svc2",
                     AllGrants \ {<<"ci", "sign", "art">>})}
FileStates0 == [ident : {0, 1}, safe : BOOLEAN, certsOnly : {TRUE}]
Rsa(kid) == [kid |-> kid, rs256 |-> TRUE]
Published0 == << <<Rsa("k1")>>, <<Rsa("k2"), Rsa("k2")>>, <<Rsa("k2")>> >>
Bounds0 == {[gens |-> 1, time |-> 2], [gens |-> 2, time |-> 0]}
Sym == Permutations(Reqs)
=============================================================================

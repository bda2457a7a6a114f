----------------------------- MODULE MCCustody -----------------------------
(* A catalog with one key of every kind, and the scenes over it. *)
EXTENDS Custody, TLC

Base == [class |-> "asym", engine |-> "transit", type |-> "ed25519", backend |-> "vault",
         provides |-> {}, public |-> NoKey, gen |-> "none", pairOf |-> NoKey, missing |-> "error",
         custody |-> "none", policy |-> "required", storage |-> NoKey, nix |-> FALSE,
         nats |-> "none", pin |-> NoKey]
Value == [Base EXCEPT !.class = "value", !.engine = "kv2", !.type = "none"]
MCKeys == {"sig", "wrap", "pq", "kem", "seed", "box", "cert", "ckey", "pass", "nix", "pki",
           "local", "cloud", "spare"}
MCEntry ==
  [k \in MCKeys |->
    CASE k = "sig" -> [Base EXCEPT !.missing = "generate", !.provides = {"ed25519"}]
      [] k = "wrap" -> [Base EXCEPT !.class = "sym", !.type = "aes-256-gcm", !.missing = "generate"]
      [] k = "pq" -> [Base EXCEPT !.type = "ml-dsa-65", !.custody = "software", !.policy = "preferred",
                                  !.storage = "wrap", !.missing = "warn"]
      [] k = "kem" -> [Base EXCEPT !.class = "sealing", !.engine = "kv2", !.type = "ml-kem-768",
                                   !.public = "kem.pub",
                                   !.custody = "software", !.policy = "local", !.storage = "wrap"]
      [] k = "seed" -> [Base EXCEPT !.engine = "kv2", !.public = "seed.pub"]
      [] k = "box" -> [Base EXCEPT !.class = "sealing", !.engine = "kv2", !.type = "x25519",
                                   !.public = "box.pub", !.pin = "context"]
      [] k = "cert" -> [Value EXCEPT !.gen = "cert", !.missing = "generate"]
      [] k = "ckey" -> [Value EXCEPT !.gen = "pair", !.pairOf = "cert", !.missing = "generate"]
      [] k = "pass" -> [Value EXCEPT !.gen = "random", !.missing = "generate"]
      [] k = "nix" -> [Base EXCEPT !.nix = TRUE, !.missing = "warn"]
      [] k = "pki" -> [Base EXCEPT !.engine = "pki", !.type = "ecdsa-p256"]
      [] k = "local" -> [Base EXCEPT !.backend = "keystore"]
      [] k = "cloud" -> [Base EXCEPT !.backend = "aws", !.type = "ecdsa-p256"]
      [] k = "spare" -> Value]

Scene(keys, ops, full) == [keys |-> keys, ops |-> ops, full |-> full]
MCScenes ==
  [rotation |-> Scene({"sig", "wrap"}, {"rotate", "mint", "sweep", "fail"}, {"sig", "wrap"}),
   pair |-> Scene({"cert", "ckey"}, {"value", "set", "boot", "crash", "fail"}, {}),
   boot |-> Scene({"sig", "wrap", "pass", "spare", "nix"}, {"boot", "crash", "set"}, {"spare"}),
   poor |-> Scene({"sig", "pass", "spare", "local"}, {"boot", "crash"}, {"local"}),
   custody |-> Scene({"pq", "kem", "wrap"}, {"newkey", "rotate", "fail"}, {"wrap"}),
   ask |-> Scene(MCKeys, {"ask"}, MCKeys),
   nix |-> Scene({"nix"}, {"nix", "fail"}, {}),
   import |-> Scene({"sig", "local", "cloud"}, {"import"}, {}),
   nats |-> Scene({"sig"}, {"nats", "rotate", "fail"}, {"sig"})]
MCClients == Permutations(Clients)
MCOrders == {<<"cert", "ckey", "local", "nix", "pass", "sig", "spare", "wrap">>,
             <<"ckey", "cert", "wrap", "sig", "pass", "local", "nix", "spare">>}

Nkeys == {NoNkey} \cup {EncodePublic(r, 2) : r \in {"A", "O", "U", "X", "N"}}
MCMintRequests ==
  [kind : NatsJwtKind, role : {"A", "O", "N", "X", "C"}, sub : Nkeys,
   account : {NoNkey, EncodePublic("A", 3)}, keys : {{}, {EncodePublic("A", 4)}}, ttl : {1}]
MCClaims ==
  [form : {"object", "list"}, iss : {NoNkey, EncodePublic("A", 1)}, sub : Nkeys \ {NoNkey},
   kind : {"user", "signer"}, version : {2}, iat : {NoTime}, exp : {NoTime, 2}, nbf : {NoTime, 1},
   jti : {"absent", "other"}]
MCSignRequests ==
  [role : {"A", "O"}, claims : MCClaims, expected : {"any", "user"}, mode : {"rewrite"},
   iat : {NoTime}, exp : {NoTime}, ttl : {NoTime, 1}]
  \cup [role : {"A"}, claims : {[form |-> "object", iss |-> NoNkey, sub |-> EncodePublic("U", 2),
           kind |-> k, version |-> v, iat |-> i, exp |-> NoTime, nbf |-> NoTime, jti |-> j] :
           k \in {"user", "other"}, v \in {1, 2}, i \in {NoTime, 0}, j \in {"absent", "other"}},
         expected : {"any"}, mode : {"require"}, iat : {NoTime, 1}, exp : {NoTime, 3}, ttl : {NoTime, 1}]
=============================================================================

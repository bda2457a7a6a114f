------------------------------ MODULE Minting ------------------------------
(***************************************************************************)
(* Tokens: which NATS, generic and SVID tokens the broker mints, and what  *)
(* it answers about a NATS token it is shown.  Everything is a function of *)
(* the request, of the public key that was read and of the clock.          *)
(*                                                                         *)
(* An NKey is a public key under a role.  A token names its issuer and     *)
(* subject NKeys; "by" is the key that really made the signature, 0 before *)
(* the backend signs.                                                      *)
(***************************************************************************)
EXTENDS Integers, Sequences, FiniteSets

-----------------------------------------------------------------------------
(* NKeys. *)

NkeyType == {"A", "C", "N", "O", "U", "X"}
NatsJwtKind == {"user", "account", "operator", "signer", "server", "curve"}
NoNkey == [role |-> "none", pub |-> 0]
NoTime == -1      \* an absent timestamp or ttl

(* encode_public and decode_public are inverse on a well-formed key; the   *)
(* checksum and the prefix table reject everything else.                   *)
EncodePublic(role, pub) == [role |-> role, pub |-> pub]
DecodePublic(nkey) == nkey.role \in NkeyType
RequirePublicPrefix(nkey, role) == DecodePublic(nkey) /\ nkey.role = role

-----------------------------------------------------------------------------
(* What may be minted. *)

EnsureIssuerRole(role, allowed) == role \in allowed

MintUserOk(m) ==
  /\ EnsureIssuerRole(m.role, {"A"})
  /\ RequirePublicPrefix(m.sub, "U")
  /\ m.account # NoNkey => RequirePublicPrefix(m.account, "A")
MintAccountOk(m) ==
  /\ EnsureIssuerRole(m.role, {"A", "O"})
  /\ RequirePublicPrefix(m.sub, "A")
  /\ \A k \in m.keys : RequirePublicPrefix(k, "A")
MintOperatorOk(m) ==
  /\ EnsureIssuerRole(m.role, {"O"})
  /\ m.sub # NoNkey => RequirePublicPrefix(m.sub, "O")
  /\ \A k \in m.keys : RequirePublicPrefix(k, "O")
  /\ m.account # NoNkey => RequirePublicPrefix(m.account, "A")
MintSignerOk_AnySubject(m) == EnsureIssuerRole(m.role, {"A", "O"}) /\ DecodePublic(m.sub)
MintSignerOk(m) ==
  /\ EnsureIssuerRole(m.role, {"A", "O"})
  /\ RequirePublicPrefix(m.sub, m.role)
MintRoleOk(m, role) == EnsureIssuerRole(m.role, {role}) /\ RequirePublicPrefix(m.sub, role)
MintServerOk(m) == MintRoleOk(m, "N")
MintCurveOk(m) == MintRoleOk(m, "X")

MintOk(m) ==
  CASE m.kind = "user" -> MintUserOk(m)
    [] m.kind = "account" -> MintAccountOk(m)
    [] m.kind = "operator" -> MintOperatorOk(m)
    [] m.kind = "signer" -> MintSignerOk(m)
    [] m.kind = "server" -> MintServerOk(m)
    [] m.kind = "curve" -> MintCurveOk(m)

(* expires_in_secs is added to the clock; no ttl means no expiry.  An      *)
(* operator token without a subject is about its own issuer.               *)
Expiry(now, ttl) == IF ttl = NoTime THEN NoTime ELSE now + ttl
Minted(m, pub, now) ==
  LET iss == EncodePublic(m.role, pub)
  IN [iss |-> iss, sub |-> IF m.sub = NoNkey THEN iss ELSE m.sub, kind |-> m.kind,
      iat |-> now, exp |-> Expiry(now, m.ttl), nbf |-> NoTime, jti |-> "computed", by |-> 0]

-----------------------------------------------------------------------------
(* sign_nats_jwt: the caller supplies the claims. *)

(* The claims of a request: iss, iat, exp and jti may be absent. *)
ClaimsFields == {"form", "iss", "sub", "kind", "version", "iat", "exp", "nbf", "jti"}

SetOrValidateIssuer(c, issuer) == c.iss = NoNkey \/ c.iss = issuer
ValidateNatsClaim(c, expected) ==
  /\ c.kind \in NatsJwtKind
  /\ expected # "any" => c.kind = expected
  /\ c.version = 2
AllowedIssuers(kind) ==
  CASE kind = "user" -> {"A"}
    [] kind \in {"account", "signer"} -> {"A", "O"}
    [] kind = "operator" -> {"O"}
    [] kind = "server" -> {"N"}
    [] kind = "curve" -> {"X"}
SubjectRole(kind, role) ==
  CASE kind = "user" -> "U"
    [] kind = "account" -> "A"
    [] kind = "signer" -> role
    [] kind = "operator" -> "O"
    [] kind = "server" -> "N"
    [] kind = "curve" -> "X"
ValidateNatsRoles(role, kind, sub) ==
  /\ EnsureIssuerRole(role, AllowedIssuers(kind))
  /\ RequirePublicPrefix(sub, SubjectRole(kind, role))

(* A supplied jti must be the computed one unless the caller asked for it  *)
(* to be rewritten.                                                        *)
JtiOk(c, mode) == c.jti \in {"absent", "computed"} \/ mode = "rewrite"

(* The handler's timestamps: ttl and expires_at exclude each other, a ttl  *)
(* counts from the requested, claimed or current time.                     *)
IssuedAt(r, now) ==
  IF r.iat # NoTime THEN r.iat ELSE IF r.claims.iat # NoTime THEN r.claims.iat
  ELSE now
ExpiresAt(r, now) ==
  IF r.ttl # NoTime THEN IssuedAt(r, now) + r.ttl
  ELSE IF r.exp # NoTime THEN r.exp ELSE r.claims.exp
TimesOk(r) == r.ttl = NoTime \/ r.exp = NoTime

SignJwtOk(r, pub) ==
  /\ r.claims.form = "object" /\ TimesOk(r)
  /\ r.role \in NkeyType
  /\ SetOrValidateIssuer(r.claims, EncodePublic(r.role, pub))
  /\ ValidateNatsClaim(r.claims, r.expected)
  /\ ValidateNatsRoles(r.role, r.claims.kind, r.claims.sub)
  /\ JtiOk(r.claims, r.mode)
SignedJwt(r, pub, now) ==
  [iss |-> EncodePublic(r.role, pub), sub |-> r.claims.sub, kind |-> r.claims.kind,
   iat |-> IssuedAt(r, now), exp |-> ExpiresAt(r, now), nbf |-> r.claims.nbf,
   jti |-> "computed", by |-> 0]

-----------------------------------------------------------------------------
(* validate_nats_jwt. *)

Malformed == [iss |-> NoNkey, sub |-> NoNkey, kind |-> "none", iat |-> 0, exp |-> NoTime,
              nbf |-> NoTime, jti |-> "absent", by |-> 0]
DecodeNatsJwt(t) == DecodePublic(t.iss)

SignerMatches(t, candidate) == candidate = t.iss
ValidationForMatch(t, now) ==
  IF t.by # t.iss.pub THEN "BadSignature"
  ELSE IF t.exp # NoTime /\ t.exp <= now THEN "Expired"
  ELSE IF t.nbf # NoTime /\ t.nbf > now THEN "NotYetValid"
  ELSE "Valid"

(* verify_with_candidates names the matched signer only when the token is  *)
(* valid.                                                                  *)
VerifyWithCandidates(t, candidate, now) ==
  IF ~SignerMatches(t, candidate) THEN [reason |-> "UnknownSigner", matched |-> FALSE]
  ELSE [reason |-> ValidationForMatch(t, now), matched |-> ValidationForMatch(t, now) = "Valid"]

(* The handler tries the allowed signers in order, stops at one that is no *)
(* NKey or that is named as matched, and validates once more with it.      *)
ValidateNatsJwt(t, expected, signers, now) ==
  LET stops == {i \in DOMAIN signers : \/ ~DecodePublic(signers[i])
                                       \/ VerifyWithCandidates(t, signers[i], now).matched}
      first == CHOOSE i \in stops : \A j \in stops : i <= j
  IN IF ~DecodeNatsJwt(t) THEN "Malformed"
     ELSE IF expected # "any" /\ t.kind # expected THEN "WrongType"
     ELSE IF stops = {} THEN "UnknownSigner"
     ELSE IF ~DecodePublic(signers[first]) THEN "InvalidRequest"
     ELSE VerifyWithCandidates(t, signers[first], now).reason

-----------------------------------------------------------------------------
(* Generic tokens and SVIDs. *)

ReservedGenericClaims == {"iss", "iat", "exp", "jti", "sub", "nbf"}
ReservedSvidClaims == ReservedGenericClaims \cup {"aud"}

(* merge_extras refuses an override of a claim that the broker sets. *)
MergeExtras(extra, reserved) == extra \cap reserved = {}

(* The algorithm of a public key; a key of any other shape cannot sign     *)
(* tokens.                                                                 *)
SvidAlg == {"EdDSA", "ES256", "ES384", "RS256"}
JwsAlg(type) ==
  CASE type \in {"ed25519", "ed25519-nkey"} -> "EdDSA"
    [] type = "ecdsa-p256" -> "ES256"
    [] type = "ecdsa-p384" -> "ES384"
    [] type = "rsa-2048" -> "RS256"
    [] OTHER -> "none"
MintGenericOk(type, extra) == MergeExtras(extra, ReservedGenericClaims) /\ JwsAlg(type) \in SvidAlg
MintSvidOk(type, extra) == MergeExtras(extra, ReservedSvidClaims) /\ JwsAlg(type) \in SvidAlg

(* The key id is a digest of the algorithm and the public key. *)
Kid(pub) == pub
Jwk(pub) == [kid |-> Kid(pub), key |-> pub]

(* jwt_svid_jwks_grace_window over the versions that the backend lists:    *)
(* versions is a function from version numbers to public keys.             *)
JwksLatest(versions) ==
  IF DOMAIN versions = {} THEN 1
  ELSE CHOOSE v \in DOMAIN versions : \A w \in DOMAIN versions : w <= v
JwksWindow(versions, floor) ==
  {Jwk(versions[v]) : v \in {v \in DOMAIN versions : floor <= v /\ v <= JwksLatest(versions)}}
=============================================================================

------------------------------ MODULE Routing ------------------------------
(***************************************************************************)
(* What a catalog entry lets an operation do: the class, engine, key type  *)
(* and provider checks that BackendManager makes before it calls a         *)
(* backend, the operations each backend has, and the fixed rules for a     *)
(* Nix cache key.  Everything here is a function of the entry and of the   *)
(* request; Custody holds the state.                                       *)
(***************************************************************************)
EXTENDS Integers, Sequences, FiniteSets

CONSTANTS
  Keys,       \* catalog key ids
  Entry,      \* key id -> catalog entry, a record with the fields of EntryFields
  Grace,      \* BrokerLimits.grace_versions
  Retain      \* BrokerLimits.retain_versions, or -1 when the sweep is off

ASSUME RoutingAssumption ==
  /\ DOMAIN Entry = Keys
  /\ \A k \in Keys : /\ Entry[k].gen \in {"none", "random", "cert", "pair"}
                     /\ Entry[k].gen # "none" => Entry[k].class \in {"value", "public"}
  /\ Grace \in Nat /\ Retain \in Nat \cup {-1}

EntryFields == {"class", "engine", "type", "backend", "provides", "public", "gen", "pairOf",
                "missing", "custody", "policy", "storage", "nix", "nats", "pin"}

NoKey == "nokey"

-----------------------------------------------------------------------------
(* Operations a backend implements; the trait's default for every other    *)
(* one is Unsupported.                                                     *)

TransitOps == {"new_key", "create", "create_aead", "create_nix", "posture", "sign_nix",
               "public", "publics", "metadata", "import", "sign", "verify", "encrypt",
               "decrypt", "rotate", "configure", "kv_get", "kv_put"}
KmsOps == {"new_key", "create", "create_aead", "public", "publics", "metadata", "sign",
           "verify", "encrypt", "decrypt"}
KeystoreOps == KmsOps \cup {"import", "kv_get", "kv_put"}
AwsOps == KmsOps
GcpOps == KmsOps
VaultOps == TransitOps \cup {"x509"}
SpiffeOps == TransitOps
DefaultOps == {"publics"}   \* public_keys has a default: the one current key

BackendOps(kind) ==
  CASE kind = "vault" -> VaultOps
    [] kind = "spiffe" -> SpiffeOps
    [] kind = "keystore" -> KeystoreOps
    [] kind = "aws" -> AwsOps
    [] kind = "gcp" -> GcpOps
    [] OTHER -> DefaultOps

Supports(k, op) == op \in BackendOps(Entry[k].backend)

-----------------------------------------------------------------------------
(* Resolution and the checks of an operation. *)

Ok(v) == [ok |-> TRUE, why |-> "none", val |-> v]
Err(why) == [ok |-> FALSE, why |-> why, val |-> "none"]

Resolves(k) == k \in Keys
RequireClass(k, allowed) == Entry[k].class \in allowed

SigningTypes == {"ed25519", "ed25519-nkey", "rsa-2048", "ecdsa-p256", "ecdsa-p384", "ecdsa-p521"}
MlDsa == {"ml-dsa-44", "ml-dsa-65", "ml-dsa-87"}
MlKem == {"ml-kem-512", "ml-kem-768", "ml-kem-1024"}
AeadTypes == {"aes-256-gcm", "chacha20-poly1305"}

MlDsaKey(k) == Entry[k].type \in MlDsa
MlKemKey(k) == Entry[k].type \in MlKem

(* A backend that declares nothing it provides is not restricted. *)
DeclaresProvides(k) == Entry[k].provides # {}
RequireMintKeyType(k, type) == DeclaresProvides(k) => type \in Entry[k].provides

RequireAeadMatch(k, alg) == Entry[k].type \in AeadTypes /\ Entry[k].type = alg
RequireX25519(k) == Entry[k].type = "x25519"
RequireMlKem(k, kem) == Entry[k].type = kem

MaterializeToUse(k) == Entry[k].class = "asym" /\ Entry[k].engine = "kv2"

(* grace_floor and retention_floor: subtraction saturates at zero and the  *)
(* floor is never below one.                                               *)
GraceFloor_OneHigher(latest) == IF latest - Grace + 1 < 1 THEN 1 ELSE latest - Grace + 1
GraceFloor(latest) == IF latest - Grace < 1 THEN 1 ELSE latest - Grace
RetentionFloor(latest) == IF latest - Retain < 1 THEN 1 ELSE latest - Retain

-----------------------------------------------------------------------------
(* Provider dispatch of the post-quantum key types. *)

(* No installed backend has a native post-quantum algorithm. *)
NativeSupported(k) == FALSE

SelectBackendRequired(native) == IF native THEN Ok("backend") ELSE Err("unsupported")

RequireLocalAllowed(gate) == gate
RequireSoftwareCustody(custody) == custody = "software"

SelectBackendPreferred(custody, native, gate) ==
  IF custody = "software"
  THEN IF RequireLocalAllowed(gate) THEN Ok("local") ELSE Err("denied")
  ELSE IF native THEN Ok("backend") ELSE Err("denied")

SelectLocalSoftware(custody, gate) ==
  IF RequireLocalAllowed(gate) /\ RequireSoftwareCustody(custody)
  THEN Ok("local") ELSE Err("denied")

SelectProvider(k, gate) ==
  LET e == Entry[k]
  IN CASE e.policy = "required" -> SelectBackendRequired(NativeSupported(k))
       [] e.policy = "preferred" -> SelectBackendPreferred(e.custody, NativeSupported(k), gate)
       [] e.policy = "local" -> SelectLocalSoftware(e.custody, gate)

(* The custody record of a key: the fields that validate_metadata compares *)
(* with the catalog and with the version the KV store reports.             *)
CustodyRecord(k, serial, wrap) ==
  [what |-> "record", n |-> serial, ver |-> 1, key |-> k, type |-> Entry[k].type,
   store |-> Entry[k].storage, wrap |-> wrap]

RecordValid(k, rec, kvVersion) ==
  /\ rec.what = "record"
  /\ rec.key = k /\ rec.ver = kvVersion /\ rec.type = Entry[k].type
  /\ rec.store = Entry[k].storage /\ rec.wrap # 0

-----------------------------------------------------------------------------
(* Nix cache keys. *)

NixRoute(k) ==
  LET e == Entry[k]
  IN e.nix /\ e.backend \in {"vault", "spiffe"} /\ e.class = "asym"
     /\ e.engine = "transit" /\ e.type = "ed25519"

(* validate_nix_cache_posture: one version, never rotated, and none of the *)
(* settings under which the private key could leave the backend.           *)
NixPostureOk(p) ==
  /\ p.type = "ed25519" /\ p.latest = 1 /\ p.dec = 1
  /\ ~p.derived /\ ~p.exportable /\ ~p.backup /\ ~p.deletable /\ ~p.autoRotate

NixPinOk(identity, p) == p.latest = 1 /\ identity.pin = p.mat

NixIdentityOk(identity) == (identity.state = "pending") = (identity.pin = 0)
NixEnrolled(identity) == identity.state = "enrolled" /\ identity.pin # 0

-----------------------------------------------------------------------------
(* Values with a generate recipe. *)

(* The certificate's private key: the entry that names it in pairOf. *)
PairKey(k) ==
  IF \E p \in Keys : Entry[p].gen = "pair" /\ Entry[p].pairOf = k
  THEN CHOOSE p \in Keys : Entry[p].gen = "pair" /\ Entry[p].pairOf = k
  ELSE NoKey

(* The certificate's recipe must be there to generate the pair. *)
CertRecipe(k) == Entry[k].pairOf \in Keys /\ Entry[Entry[k].pairOf].gen = "cert"

(* Key material that startup may generate. *)
GeneratableAsym(k) == Entry[k].type \in SigningTypes /\ RequireMintKeyType(k, Entry[k].type)
GeneratableSym(k) == Entry[k].type \in AeadTypes

(* key_kind and wire_key_type, what ListCatalog shows of an entry. *)
KeyKind(k) ==
  CASE Entry[k].class \in {"asym", "public"} -> "signing"
    [] Entry[k].class \in {"sym", "sealing"} -> "encryption"
    [] Entry[k].class = "value" -> "value"
WireKeyType(k) == IF Entry[k].type \in SigningTypes \cup MlDsa THEN Entry[k].type ELSE "none"
=============================================================================

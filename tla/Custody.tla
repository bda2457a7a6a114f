------------------------------ MODULE Custody ------------------------------
(***************************************************************************)
(* The backend manager over its backends: keys with versions in a transit  *)
(* engine, values with versions in a KV store, rotation and the retention  *)
(* sweep, generated values and TLS pairs, software custody of post-quantum *)
(* keys, Nix cache keys, import sets, and the reconcile pass at startup.   *)
(*                                                                         *)
(* A step is one call of a backend, where the handler may be suspended.    *)
(* Each behaviour plays one scene, a set of keys and of operations that    *)
(* share state; scenes that share none need not be interleaved.            *)
(***************************************************************************)
EXTENDS Routing, Minting

CONSTANTS
  Clients,     \* concurrent handlers
  Orders,      \* orders in which a catalog may list its keys
  Scenes,      \* scene -> [keys, ops, full: the keys provisioned at the start]
  MintRequests, SignRequests,   \* NATS requests that a client may send
  MaxRotations, MaxStarts, MaxFaults, MaxClock

VARIABLES
  scene,   \* the scene of this behaviour
  order,   \* the catalog's order of the keys
  tk,      \* transit engine: key -> versions and settings
  kv,      \* KV store: path -> versions
  job,     \* the handlers, and "boot", the reconcile pass
  serial,  \* key material made so far
  phase,   \* boot, serving or failed
  ident,   \* the Nix identity of the serving catalog
  lock,    \* the enrollment mutex
  grants,  \* keys that the serving policy lets a client import
  seen,    \* what the last reply disclosed
  answers, \* what handlers have answered: tokens, Nix replies, import sets
  torn,    \* values whose last writers overlapped or were interrupted
  spent    \* rotations, faults and meddling so far
custodyVars == <<scene, order, tk, kv, job, serial, phase, ident, lock, grants, seen, answers, torn, spent>>

(* A scene's handlers answer in one way; a store that import sets fill is  *)
(* empty at first, and a store in which someone meddles with a Nix key is  *)
(* not reconciled.  The catalog lists each key that is reconciled.         *)
ASSUME ScenesAssumption ==
  /\ NoKey \notin Keys \cup Clients /\ "boot" \notin Clients /\ Orders \subseteq Seq(Keys)
  /\ \A s \in DOMAIN Scenes :
       LET ops == Scenes[s].ops keys == Scenes[s].keys
       IN /\ keys \subseteq Keys
          /\ \A p, q \in ops \cap {"mint", "nix", "import", "nats"} : p = q
          /\ "crash" \in ops => "boot" \in ops
          /\ "boot" \in ops => /\ ops \cap {"nix", "import"} = {}
                               /\ \A o \in Orders : \A k \in keys : \E i \in 1..Len(o) : o[i] = k
          /\ "import" \in ops => Scenes[s].full \cap keys = {}
          /\ "nix" \in ops => \A j, k \in keys : NixRoute(j) /\ NixRoute(k) => j = k

(* Requests carry the kinds of the protocol, and times in seconds. *)
ASSUME RequestsAssumption ==
  /\ \A m \in MintRequests : m.kind \in NatsJwtKind /\ m.ttl \in Int
  /\ \A r \in SignRequests :
       {r.iat, r.exp, r.ttl, r.claims.iat, r.claims.exp, r.claims.nbf} \subseteq Int

Boot == "boot"
Jobs == Clients \cup {Boot}
Active == Scenes[scene].keys
Plays(op) == op \in Scenes[scene].ops

NoTk == [mat |-> << >>, dec |-> 1, avail |-> 1, flags |-> {}]
TransitKey(n) == [NoTk EXCEPT !.mat = <<n>>]
HasTk(k) == tk[k].mat # << >>
Latest(k) == Len(tk[k].mat)
Last(s) == s[Len(s)]
HasKv(p) == kv[p] # << >>

IdleJob == [op |-> "idle", k |-> NoKey, at |-> "none", n |-> 0, ws |-> << >>, post |-> NoTk,
            id |-> [state |-> "none", pin |-> 0], solo |-> TRUE, half |-> FALSE]
Idle(c) == job[c].op = "idle"
Set(c, j) == job' = [job EXCEPT ![c] = j]
At(c, op, at) == job[c].op = op /\ job[c].at = at
Spend(what, max) == spent[what] < max /\ spent' = [spent EXCEPT ![what] = @ + 1]

(* Paths of the KV store: an entry's path is its name, and its public half *)
(* lies beside it.                                                         *)
Public(k) == Entry[k].public
Paths == Keys \cup {Public(k) : k \in Keys}

(* kv_put appends a version; the local keystore keeps only the last.       *)
Stored(p, v) ==
  IF p \in Keys /\ Entry[p].backend = "keystore" THEN <<v>> ELSE Append(kv[p], v)

-----------------------------------------------------------------------------
(* External: the transit engine refuses floors that are out of order. *)

ConfigOk(k, dec, avail) == avail <= dec /\ dec <= Latest(k)
SetDec(k, dec) ==
  IF ConfigOk(k, dec, tk[k].avail) THEN [tk EXCEPT ![k].dec = dec] ELSE tk
SetAvail(k, avail) ==
  IF ConfigOk(k, tk[k].dec, avail) THEN [tk EXCEPT ![k].avail = avail] ELSE tk
Usable(k, v) == v \in 1..Latest(k) /\ tk[k].dec <= v /\ tk[k].avail <= v
(* Every request to verify names version one (SIG_VERSION), whichever      *)
(* version made the signature; n is the material that made it.             *)
SigVersion == 1
Confirms(k, n) == Usable(k, SigVersion) /\ tk[k].mat[SigVersion] = n
Created(k, n) == IF HasTk(k) THEN tk[k] ELSE TransitKey(n)

-----------------------------------------------------------------------------
(* Replies that take one call, as functions of the stores. *)

(* Software custody: the record is read, validated and opened with the     *)
(* storage key that wrapped it.                                            *)
RecordOk(k) == HasKv(k) /\ RecordValid(k, Last(kv[k]), Len(kv[k]))
CustodyOpens(k) ==
  RecordOk(k) /\ Entry[k].storage \in Keys /\ Usable(Entry[k].storage, Last(kv[k]).wrap)
Local(k, gate) == SelectProvider(k, gate).val = "local"
LocalSign(k) == CustodyOpens(k)
LocalVerify(k) == RecordOk(k)
LocalEncapsulate(k) == CustodyOpens(k)
LocalDecapsulate(k) == CustodyOpens(k)
LocalWrap(k) == CustodyOpens(k)
LocalUnwrap(k) == CustodyOpens(k)
ProviderSign(k, gate) == Entry[k].class = "asym" /\ Local(k, gate) /\ LocalSign(k)
ProviderVerify(k, gate) ==
  Entry[k].class \in {"asym", "public"} /\ Local(k, gate) /\ LocalVerify(k)
ProviderWrap(k, kem, gate) ==
  Entry[k].class = "sealing" /\ RequireMlKem(k, kem) /\ Local(k, gate) /\ LocalWrap(k)
ProviderUnwrap(k, kem, gate) ==
  Entry[k].class = "sealing" /\ RequireMlKem(k, kem) /\ Local(k, gate) /\ LocalUnwrap(k)

SigningSeed(k) ==
  RequireClass(k, {"asym"}) /\ HasKv(k) /\ Last(kv[k]).what = "seed"
SealingPrivate(k) ==
  RequireClass(k, {"sealing"}) /\ RequireX25519(k) /\ HasKv(k) /\ Last(kv[k]).what = "seed"
PublicHalf(k, classes) == RequireClass(k, classes) /\ Public(k) # NoKey /\ HasKv(Public(k))

Reply(what, n) == [ok |-> TRUE, what |-> what, n |-> n]
Refuse == [ok |-> FALSE, what |-> "error", n |-> 0]
Either(can, what, n) == IF can THEN Reply(what, n) ELSE Refuse
Number(k) == Last(kv[k]).n

SignReply(k, gate) ==
  IF MlDsaKey(k) THEN Either(ProviderSign(k, gate), "signature", 0)
  ELSE IF Entry[k].engine = "kv2" THEN Either(SigningSeed(k), "signature", 0)
  ELSE Either(RequireClass(k, {"asym"}) /\ Supports(k, "sign") /\ HasTk(k), "signature", 0)
VerifyReply(k, gate) ==
  IF MlDsaKey(k) THEN Either(ProviderVerify(k, gate), "verdict", 0)
  ELSE IF MaterializeToUse(k) THEN Either(PublicHalf(k, {"asym"}), "verdict", 0)
  ELSE Either(RequireClass(k, {"asym", "public"}) /\ Supports(k, "verify") /\ Usable(k, SigVersion),
              "verdict", 0)
PublicReply(k) ==
  IF Entry[k].custody = "software" /\ (MlDsaKey(k) \/ (MlKemKey(k) /\ Entry[k].class = "sealing"))
  THEN Either(RecordOk(k), "public", 0)
  ELSE IF MaterializeToUse(k) THEN Either(PublicHalf(k, {"asym"}), "public", 0)
  ELSE Either(RequireClass(k, {"asym", "public"}) /\ Supports(k, "public") /\ HasTk(k), "public", 0)
NewKeyReply(k, type) ==
  Either(/\ RequireClass(k, {"asym", "sym"})
         /\ Entry[k].class = "asym" => RequireMintKeyType(k, type)
         /\ Supports(k, "new_key"), "public", 0)
EncryptReply(k, alg) ==
  Either(/\ RequireClass(k, {"sym"}) /\ RequireAeadMatch(k, alg)
         /\ Supports(k, "encrypt") /\ HasTk(k), "ciphertext", 0)
DecryptReply(k, alg, v) ==
  Either(/\ RequireClass(k, {"sym"}) /\ RequireAeadMatch(k, alg)
         /\ Supports(k, "decrypt") /\ Usable(k, v), "plaintext", 0)
WrapReply(k) ==
  Either(RequireClass(k, {"sealing"}) /\ RequireX25519(k) /\ PublicHalf(k, {"sealing"}),
         "ciphertext", 0)
UnwrapReply(k) == Either(SealingPrivate(k), "plaintext", 0)
(* unseal_cose checks the sealing pin before it reads the private key. *)
UnsealReply(k, aad, parties) ==
  Either(/\ Entry[k].pin # NoKey => aad = Entry[k].pin /\ parties = Entry[k].pin
         /\ SealingPrivate(k), "plaintext", 0)
CurveReply(k, nkey) ==
  Either(SealingPrivate(k) /\ RequirePublicPrefix(nkey, "X"), "ciphertext", 0)
SealingPublicReply(k) ==
  Either(RequireClass(k, {"sealing"}) /\ RequireX25519(k) /\ PublicHalf(k, {"sealing"}),
         "public", 0)
GetReply(k) ==
  IF RequireClass(k, {"value", "public"}) /\ HasKv(k)
  THEN Reply(Last(kv[k]).what, Number(k)) ELSE Refuse
ListReply(k) == Reply("listing", IF HasTk(k) /\ Supports(k, "metadata") THEN Latest(k) ELSE 0)
X509Reply(k) ==
  Either(RequireClass(k, {"asym"}) /\ Entry[k].engine = "pki" /\ Supports(k, "x509"), "cert", 0)
JwtReply(k, extra) ==
  Either(MintGenericOk(Entry[k].type, extra) /\ Supports(k, "sign") /\ HasTk(k), "token", 0)

(* Every single-call operation on k, whatever its arguments. *)
Replies(k) ==
  (UNION {{SignReply(k, g), VerifyReply(k, g)} : g \in BOOLEAN})
  \cup (UNION {{Either(ProviderWrap(k, t, TRUE), "ciphertext", 0),
                Either(ProviderUnwrap(k, t, TRUE), "plaintext", 0)} : t \in MlKem})
  \cup {NewKeyReply(k, t) : t \in SigningTypes}
  \cup (UNION {{EncryptReply(k, a), DecryptReply(k, a, 1)} : a \in AeadTypes})
  \cup {PublicReply(k), WrapReply(k), UnwrapReply(k), UnsealReply(k, Entry[k].pin, Entry[k].pin),
        UnsealReply(k, NoKey, NoKey), CurveReply(k, EncodePublic("X", 1)),
        SealingPublicReply(k), GetReply(k), ListReply(k), X509Reply(k), JwtReply(k, {"role"})}

(* A client's single-call request; the reply may disclose something. *)
Ask(c, k) ==
  /\ Plays("ask") /\ phase = "serving" /\ Idle(c) /\ k \in Active
  /\ \E r \in Replies(k) : r.ok /\ seen' = {r.what}
  /\ UNCHANGED <<scene, order, tk, kv, job, serial, phase, ident, lock, grants, answers, torn, spent>>

(* set writes what the client sends, which may be a private key, also to a *)
(* key with a recipe.  It counts as a writer: those at work overlap it, and *)
(* a certificate that it replaces, or whose private key it replaces, is    *)
(* torn.                                                                   *)
Writing(c) == job[c].ws # << >> /\ job[c].op \in {"value", "boot"}
Overlapped == [c \in Jobs |-> IF Writing(c) THEN [job[c] EXCEPT !.solo = FALSE] ELSE job[c]]
CertOf(k) == {p \in Keys : Entry[p].gen = "cert" /\ p \in {k, Entry[k].pairOf}}
SetValue(c, k) ==
  /\ Plays("set") /\ phase = "serving" /\ Idle(c) /\ k \in Active
  /\ RequireClass(k, {"value"}) /\ Len(kv[k]) < 2
  /\ serial' = serial + 1
  /\ \E what \in {"value", "tlskey"} :
       kv' = [kv EXCEPT ![k] = Stored(k, [what |-> what, n |-> serial + 1])]
  /\ job' = Overlapped /\ torn' = torn \cup CertOf(k)
  /\ UNCHANGED <<scene, order, tk, phase, ident, lock, grants, seen, answers, spent>>

-----------------------------------------------------------------------------
(* Rotation of a transit key: the new version, the read of its number, and *)
(* the floor that follows from the number read.                            *)

Rotatable(k) ==
  /\ RequireClass(k, {"asym", "sym"}) /\ ~Entry[k].nix /\ Entry[k].engine # "kv2"
  /\ Supports(k, "rotate") /\ HasTk(k)
RotatePost(c, k) ==
  /\ Plays("rotate") /\ phase = "serving" /\ Idle(c) /\ k \in Active /\ Rotatable(k)
  /\ Spend("rotations", MaxRotations)
  /\ tk' = [tk EXCEPT ![k].mat = Append(@, serial + 1)] /\ serial' = serial + 1
  /\ Set(c, [IdleJob EXCEPT !.op = "rotate", !.k = k, !.at = "read"])
  /\ UNCHANGED <<scene, order, kv, phase, ident, lock, grants, seen, answers, torn>>
RotateRead(c) ==
  /\ At(c, "rotate", "read")
  /\ Set(c, [job[c] EXCEPT !.at = "floor", !.n = Latest(job[c].k)])
  /\ UNCHANGED <<scene, order, tk, kv, serial, phase, ident, lock, grants, seen, answers, torn, spent>>
RotateFloor(c) ==
  /\ At(c, "rotate", "floor")
  /\ tk' = IF Supports(job[c].k, "configure") THEN SetDec(job[c].k, GraceFloor(job[c].n)) ELSE tk
  /\ Set(c, IdleJob)
  /\ UNCHANGED <<scene, order, kv, serial, phase, ident, lock, grants, seen, answers, torn, spent>>

(* The retention sweep goes through the keys in the catalog's order and    *)
(* stops at the first error.                                               *)
Sweepable == SelectSeq(order, LAMBDA k : k \in Active /\ RequireClass(k, {"asym", "sym"}))
SweepRead(c) ==
  /\ Plays("sweep") /\ phase = "serving" /\ Retain # -1
  /\ \/ Idle(c) /\ Sweepable # << >> /\ spent.sweeps < 1
        /\ spent' = [spent EXCEPT !.sweeps = @ + 1]
        /\ Set(c, IF HasTk(Sweepable[1])
                  THEN [IdleJob EXCEPT !.op = "sweep", !.at = "floor", !.k = Sweepable[1],
                                       !.n = Latest(Sweepable[1]), !.ws = Tail(Sweepable)]
                  ELSE IdleJob)
     \/ At(c, "sweep", "next") /\ UNCHANGED spent
        /\ LET k == job[c].ws[1]
           IN Set(c, IF HasTk(k)
                     THEN [job[c] EXCEPT !.at = "floor", !.k = k, !.n = Latest(k), !.ws = Tail(@)]
                     ELSE IdleJob)
  /\ UNCHANGED <<scene, order, tk, kv, serial, phase, ident, lock, grants, seen, answers, torn>>
SweepFloor(c) ==
  /\ At(c, "sweep", "floor")
  /\ LET k == job[c].k
         ok == Supports(k, "configure") /\ ConfigOk(k, tk[k].dec, RetentionFloor(job[c].n))
     IN /\ tk' = IF ok THEN SetAvail(k, RetentionFloor(job[c].n)) ELSE tk
        /\ Set(c, IF ok /\ job[c].ws # << >> THEN [job[c] EXCEPT !.at = "next"] ELSE IdleJob)
  /\ UNCHANGED <<scene, order, kv, serial, phase, ident, lock, grants, seen, answers, torn, spent>>

(* A token carries the key id that was read before it was signed. *)
MintRead(c, k) ==
  /\ Plays("mint") /\ phase = "serving" /\ Idle(c) /\ k \in Active
  /\ JwtReply(k, {}).ok /\ Cardinality(answers) < 2
  /\ Set(c, [IdleJob EXCEPT !.op = "mint", !.k = k, !.at = "sign", !.n = Last(tk[k].mat)])
  /\ UNCHANGED <<scene, order, tk, kv, serial, phase, ident, lock, grants, seen, answers, torn, spent>>
MintSign(c) ==
  /\ At(c, "mint", "sign")
  /\ answers' = answers \cup {[k |-> job[c].k, kid |-> Kid(job[c].n), by |-> Last(tk[job[c].k].mat)]}
  /\ Set(c, IdleJob)
  /\ UNCHANGED <<scene, order, tk, kv, serial, phase, ident, lock, grants, seen, torn, spent>>
(* The JWKS of k; the backend lists the versions it still allows. *)
Jwks(k) ==
  LET listed == {v \in 1..Latest(k) : Usable(k, v)}
  IN JwksWindow([v \in listed |-> tk[k].mat[v]], GraceFloor(Latest(k)))

-----------------------------------------------------------------------------
(* Generated values.  The writes of a key: a certificate reuses its stored *)
(* private key, and a private key is written with a certificate for it.    *)

KeyPem(n) == [what |-> "tlskey", n |-> n]
CertPem(n) == [what |-> "cert", n |-> n]
Generated(k, n) == [what |-> "value", n |-> n]
CertWrites(k, n) ==
  LET pair == PairKey(k)
  IN IF pair = NoKey THEN <<[p |-> k, v |-> CertPem(n)]>>
     ELSE IF HasKv(pair) THEN <<[p |-> k, v |-> CertPem(Number(pair))]>>
     ELSE <<[p |-> pair, v |-> KeyPem(n)], [p |-> k, v |-> CertPem(n)]>>
PairWrites(k, n) == <<[p |-> k, v |-> KeyPem(n)], [p |-> Entry[k].pairOf, v |-> CertPem(n)]>>
GeneratedWrites(k, n) ==
  CASE Entry[k].gen = "cert" -> CertWrites(k, n)
    [] Entry[k].gen = "pair" -> PairWrites(k, n)
    [] Entry[k].gen = "random" -> <<[p |-> k, v |-> Generated(k, n)]>>
(* A certificate is not made for a stored value that is no private key.    *)
PairReads(k) == PairKey(k) # NoKey /\ HasKv(PairKey(k)) => Last(kv[PairKey(k)]).what = "tlskey"
CanGenerate(k) ==
  /\ RequireClass(k, {"value", "public"}) /\ Entry[k].gen # "none"
  /\ Entry[k].gen = "pair" => CertRecipe(k)
  /\ Entry[k].gen = "cert" => PairReads(k)

Writers == {c \in Jobs : Writing(c)}
(* A writer that starts while another is at work makes both overlap. *)
Begin(c, j) ==
  job' = [d \in Jobs |-> IF d = c THEN [j EXCEPT !.solo = Writers = {}]
                         ELSE IF Writing(d) THEN [job[d] EXCEPT !.solo = FALSE] ELSE job[d]]

RotateValue(c, k) ==
  /\ Plays("value") /\ phase = "serving" /\ Idle(c) /\ k \in Active
  /\ RequireClass(k, {"value"}) /\ CanGenerate(k) /\ Spend("rotations", MaxRotations)
  /\ serial' = serial + 1
  /\ Begin(c, [IdleJob EXCEPT !.op = "value", !.k = k, !.at = "put",
                              !.ws = GeneratedWrites(k, serial + 1)])
  /\ UNCHANGED <<scene, order, tk, kv, phase, ident, lock, grants, seen, answers, torn>>
Put(c) ==
  /\ job[c].at = "put" /\ Writing(c)
  /\ LET w == job[c].ws[1] done == Len(job[c].ws) = 1
     IN /\ kv' = [kv EXCEPT ![w.p] = Stored(w.p, w.v)]
        /\ torn' = IF ~done THEN torn ELSE IF job[c].solo THEN torn \ {w.p} ELSE torn \cup {w.p}
        /\ Set(c, IF ~done THEN [job[c] EXCEPT !.ws = Tail(@), !.half = TRUE]
                  ELSE IF c = Boot
                  THEN [job[c] EXCEPT !.ws = << >>, !.at = "probe", !.n = @ + 1, !.half = FALSE]
                  ELSE IdleJob)
  /\ UNCHANGED <<scene, order, tk, serial, phase, ident, lock, grants, seen, answers, spent>>

-----------------------------------------------------------------------------
(* Reconcile: one key after the other, in the catalog's order, is probed   *)
(* and generated if it is absent and may be generated.                     *)

Probe(k) ==
  CASE MaterializeToUse(k) \/ Entry[k].class = "sealing" ->
         HasKv(k) /\ Public(k) # NoKey /\ HasKv(Public(k))
    [] Entry[k].class \in {"value", "public"} -> HasKv(k)
    [] OTHER -> HasTk(k)
GenerateOk(k) ==
  /\ ~Entry[k].nix
  /\ CASE Entry[k].class = "asym" -> Entry[k].engine # "kv2" /\ GeneratableAsym(k)
       [] Entry[k].class = "sym" -> GeneratableSym(k)
       [] Entry[k].class = "sealing" -> FALSE
       [] OTHER -> CanGenerate(k)
(* How the pass goes on from key number n: not in the scene, present,      *)
(* warned, remembered as required, or the first failure.                   *)
BootProbe ==
  /\ phase = "boot" /\ At(Boot, "boot", "probe") /\ job[Boot].n <= Len(order)
  /\ LET k == order[job[Boot].n]
         next == [job[Boot] EXCEPT !.n = @ + 1]
     IN IF k \notin Active \/ Probe(k) \/ Entry[k].missing = "warn"
        THEN Set(Boot, next) /\ UNCHANGED <<tk, serial, phase>>
        ELSE IF Entry[k].missing = "error"
        THEN Set(Boot, [next EXCEPT !.k = k]) /\ UNCHANGED <<tk, serial, phase>>
        ELSE IF ~GenerateOk(k)
        THEN Set(Boot, IdleJob) /\ phase' = "failed" /\ UNCHANGED <<tk, serial>>
        ELSE /\ serial' = serial + 1 /\ UNCHANGED phase
             /\ IF Entry[k].class \in {"asym", "sym"}
                THEN Set(Boot, next) /\ tk' = [tk EXCEPT ![k] = Created(k, serial + 1)]
                ELSE /\ Begin(Boot, [job[Boot] EXCEPT !.at = "put",
                                                      !.ws = GeneratedWrites(k, serial + 1)])
                     /\ UNCHANGED tk
  /\ UNCHANGED <<scene, order, kv, ident, lock, grants, seen, answers, torn, spent>>
BootEnds ==
  /\ phase = "boot" /\ At(Boot, "boot", "probe") /\ job[Boot].n > Len(order)
  /\ phase' = IF job[Boot].k = NoKey THEN "serving" ELSE "failed"
  /\ Set(Boot, IdleJob)
  /\ UNCHANGED <<scene, order, tk, kv, serial, ident, lock, grants, seen, answers, torn, spent>>
BootJob == [IdleJob EXCEPT !.op = "boot", !.at = "probe", !.n = 1]

(* The process dies and starts again; a writer that has written only a     *)
(* part of a pair, or that overlapped another, leaves its value torn.      *)
HalfWritten(c) == Writing(c) /\ (job[c].half \/ ~job[c].solo)
LastPath(c) == Last(job[c].ws).p
Crash ==
  /\ Plays("crash") /\ Spend("faults", MaxFaults)
  /\ job' = [c \in Jobs |-> IF c = Boot THEN BootJob ELSE IdleJob]
  /\ torn' = torn \cup {LastPath(c) : c \in {d \in Jobs : HalfWritten(d)}}
  /\ phase' = "boot" /\ lock' = NoKey
  /\ UNCHANGED <<scene, order, tk, kv, serial, ident, grants, seen, answers>>
(* A backend call fails, or the client goes away: the handler ends. *)
Drop(c) ==
  /\ Plays("fail") /\ ~Idle(c) /\ c # Boot /\ Spend("faults", MaxFaults)
  /\ Set(c, IdleJob)
  /\ torn' = torn \cup (IF HalfWritten(c) THEN {LastPath(c)} ELSE {})
  /\ lock' = IF lock = c THEN NoKey ELSE lock
  /\ UNCHANGED <<scene, order, tk, kv, serial, phase, ident, grants, seen, answers>>

-----------------------------------------------------------------------------
(* Software custody: the seed is encrypted under the storage key, then the *)
(* record is written.                                                      *)

SealSeed(c, k) ==
  /\ Plays("newkey") /\ phase = "serving" /\ Idle(c) /\ k \in Active
  /\ IF MlDsaKey(k) THEN RequireClass(k, {"asym"}) ELSE MlKemKey(k) /\ RequireClass(k, {"sealing"})
  /\ Local(k, TRUE) /\ Entry[k].storage \in Keys
  /\ EncryptReply(Entry[k].storage, "aes-256-gcm").ok
  /\ Spend("starts", MaxStarts)
  /\ serial' = serial + 1
  /\ Set(c, [IdleJob EXCEPT !.op = "seal", !.k = k, !.at = "store", !.n = serial + 1,
               !.ws = <<CustodyRecord(k, serial + 1, Latest(Entry[k].storage))>>])
  /\ UNCHANGED <<scene, order, tk, kv, phase, ident, lock, grants, seen, answers, torn>>
StoreRecord(c) ==
  /\ At(c, "seal", "store")
  /\ kv' = [kv EXCEPT ![job[c].k] = Stored(job[c].k, job[c].ws[1])]
  /\ Set(c, IdleJob)
  /\ UNCHANGED <<scene, order, tk, serial, phase, ident, lock, grants, seen, answers, torn, spent>>

-----------------------------------------------------------------------------
(* Nix cache keys. *)

Posture(k) ==
  [type |-> Entry[k].type, latest |-> Latest(k), dec |-> tk[k].dec, mat |-> tk[k].mat[1],
   derived |-> "derived" \in tk[k].flags, exportable |-> "exportable" \in tk[k].flags,
   backup |-> "backup" \in tk[k].flags, deletable |-> "deletable" \in tk[k].flags,
   autoRotate |-> "autoRotate" \in tk[k].flags]

NixStart(c, k, op) ==
  /\ Plays("nix") /\ phase = "serving" /\ Idle(c) /\ k \in Active /\ NixRoute(k)
  /\ NixIdentityOk(ident) /\ (op = "nixsign" => NixEnrolled(ident))
  /\ Spend("starts", MaxStarts)
  /\ Set(c, [IdleJob EXCEPT !.op = op, !.k = k, !.at = "first", !.id = ident])
  /\ UNCHANGED <<scene, order, tk, kv, serial, phase, ident, lock, grants, seen, answers, torn>>

(* Enrollment holds the mutex from its first read to its end. *)
LockFree_Always(c) == TRUE
LockFree(c) == lock = NoKey
EnrollRead(c) ==
  /\ At(c, "enroll", "first") /\ LockFree(c)
  /\ IF HasTk(job[c].k)
     THEN /\ Set(c, [job[c] EXCEPT !.at = "judge", !.n = 0, !.post = tk[job[c].k]])
          /\ lock' = c
     ELSE IF job[c].id.state = "pending"
     THEN Set(c, [job[c] EXCEPT !.at = "create"]) /\ lock' = c
     ELSE Set(c, IdleJob) /\ UNCHANGED lock
  /\ UNCHANGED <<scene, order, tk, kv, serial, phase, ident, grants, seen, answers, torn, spent>>
EnrollCreate(c) ==
  /\ At(c, "enroll", "create")
  /\ serial' = serial + 1 /\ tk' = [tk EXCEPT ![job[c].k] = Created(job[c].k, serial + 1)]
  /\ Set(c, [job[c] EXCEPT !.at = "reread"])
  /\ UNCHANGED <<scene, order, kv, phase, ident, lock, grants, seen, answers, torn, spent>>
EnrollReread(c) ==
  /\ At(c, "enroll", "reread") /\ HasTk(job[c].k)
  /\ Set(c, [job[c] EXCEPT !.at = "judge", !.n = 1, !.post = tk[job[c].k]])
  /\ UNCHANGED <<scene, order, tk, kv, serial, phase, ident, lock, grants, seen, answers, torn, spent>>
EnrollJudge(c) ==
  /\ At(c, "enroll", "judge")
  /\ LET p == job[c].post
         ok == /\ Len(p.mat) = 1 /\ p.flags = {}
               /\ job[c].id.state = "enrolled" => job[c].id.pin = p.mat[1]
     IN answers' = IF ok THEN answers \cup {[c |-> c, n |-> spent.starts, new |-> job[c].n = 1,
                                           pub |-> p.mat[1], pin |-> job[c].id.pin, sig |-> 0]}
                  ELSE answers
  /\ Set(c, IdleJob) /\ lock' = IF lock = c THEN NoKey ELSE lock
  /\ UNCHANGED <<scene, order, tk, kv, serial, phase, ident, grants, seen, torn, spent>>

(* Signing reads the posture, signs with version one, reads the posture    *)
(* again, and verifies the signature against the pin.                      *)
PostureFits(c) ==
  LET k == job[c].k
  IN HasTk(k) /\ NixPostureOk(Posture(k)) /\ NixPinOk(job[c].id, Posture(k))
SignBefore(c) ==
  /\ At(c, "nixsign", "first")
  /\ Set(c, IF PostureFits(c) THEN [job[c] EXCEPT !.at = "sign", !.post = tk[job[c].k]] ELSE IdleJob)
  /\ UNCHANGED <<scene, order, tk, kv, serial, phase, ident, lock, grants, seen, answers, torn, spent>>
SignCall(c) ==
  /\ At(c, "nixsign", "sign")
  /\ Set(c, IF HasTk(job[c].k)
            THEN [job[c] EXCEPT !.at = "after", !.n = tk[job[c].k].mat[1]] ELSE IdleJob)
  /\ UNCHANGED <<scene, order, tk, kv, serial, phase, ident, lock, grants, seen, answers, torn, spent>>
Verifies(c) == job[c].n = job[c].id.pin
SignAfter(c) ==
  /\ At(c, "nixsign", "after")
  /\ answers' = IF PostureFits(c) /\ tk[job[c].k] = job[c].post /\ Verifies(c)
               THEN answers \cup {[c |-> c, n |-> spent.starts, new |-> FALSE, pub |-> job[c].id.pin,
                                  pin |-> job[c].id.pin, sig |-> job[c].n]}
               ELSE answers
  /\ Set(c, IdleJob)
  /\ UNCHANGED <<scene, order, tk, kv, serial, phase, ident, lock, grants, seen, torn, spent>>

(* The operator records the enrolled public key in the catalog and reloads. *)
Adopt ==
  /\ Plays("nix") /\ ident.state = "pending"
  /\ \E t \in answers : ident' = [state |-> "enrolled", pin |-> t.pub]
  /\ UNCHANGED <<scene, order, tk, kv, job, serial, phase, lock, grants, seen, answers, torn, spent>>
(* Someone with backend access deletes, swaps, rotates or opens up the key. *)
Meddle(k) ==
  /\ Plays("nix") /\ k \in Active /\ NixRoute(k) /\ HasTk(k) /\ NixEnrolled(ident)
  /\ spent.meddles < 2 /\ spent' = [spent EXCEPT !.meddles = @ + 1]
  /\ \E new \in {NoTk, TransitKey(ident.pin), TransitKey(99), [tk[k] EXCEPT !.mat = Append(@, 99)],
                 [tk[k] EXCEPT !.flags = {"exportable"}]} : tk' = [tk EXCEPT ![k] = new]
  /\ UNCHANGED <<scene, order, kv, job, serial, phase, ident, lock, grants, seen, answers, torn>>

-----------------------------------------------------------------------------
(* Import sets: every entry is authorized in one generation before the     *)
(* first is imported.                                                      *)

ImportOk(k) ==
  /\ RequireClass(k, {"asym", "sym"}) /\ Entry[k].engine # "kv2"
  /\ Entry[k].class = "asym" => RequireMintKeyType(k, Entry[k].type)
  /\ Supports(k, "import")
Admitted_First(set) == set[1] \in grants
Admitted(set) == \A i \in DOMAIN set : set[i] \in grants
ImportSet(c, set) ==
  /\ Plays("import") /\ phase = "serving" /\ Idle(c) /\ Admitted(set)
  /\ Spend("starts", MaxStarts - 1)
  /\ Set(c, [IdleJob EXCEPT !.op = "import", !.at = "next", !.ws = set])
  /\ answers' = answers \cup {[set |-> set, grants |-> grants]}
  /\ UNCHANGED <<scene, order, tk, kv, serial, phase, ident, lock, grants, seen, torn>>
ImportNext(c) ==
  /\ At(c, "import", "next")
  /\ LET k == job[c].ws[1]
     IN /\ tk' = IF ImportOk(k) /\ ~HasTk(k) THEN [tk EXCEPT ![k] = TransitKey(serial + 1)] ELSE tk
        /\ serial' = serial + 1
        /\ Set(c, IF ImportOk(k) /\ ~HasTk(k) /\ Len(job[c].ws) > 1
                  THEN [job[c] EXCEPT !.ws = Tail(@)] ELSE IdleJob)
  /\ UNCHANGED <<scene, order, kv, phase, ident, lock, grants, seen, answers, torn, spent>>
ReloadGrants ==
  /\ Plays("import") /\ spent.reloads < 1 /\ spent' = [spent EXCEPT !.reloads = @ + 1]
  /\ \E g \in SUBSET Active : grants' = g
  /\ UNCHANGED <<scene, order, tk, kv, job, serial, phase, ident, lock, seen, answers, torn>>

-----------------------------------------------------------------------------
(* NATS tokens, one at a time: the public key is read for the issuer, the  *)
(* token is built, and the backend signs it with the version it then has;  *)
(* the token is validated later, while the clock moves.                    *)

NatsKey(c, k) ==
  /\ Plays("nats") /\ phase = "serving" /\ Idle(c) /\ k \in Active
  /\ answers = {} /\ \A d \in Clients : job[d].op # "nats"
  /\ Entry[k].type \in {"ed25519", "ed25519-nkey"} /\ HasTk(k)
  /\ Supports(k, "public") /\ Supports(k, "sign")
NatsRead(c, k, jwt) ==
  /\ Set(c, [IdleJob EXCEPT !.op = "nats", !.k = k, !.at = "sign", !.n = Latest(k), !.ws = <<jwt>>])
  /\ UNCHANGED <<scene, order, tk, kv, serial, phase, ident, lock, grants, seen, answers, torn, spent>>
NatsMint(c, k) ==
  /\ NatsKey(c, k)
  /\ \E m \in MintRequests : MintOk(m) /\ NatsRead(c, k, Minted(m, Last(tk[k].mat), 0))
NatsSign(c, k) ==
  /\ NatsKey(c, k)
  /\ \E r \in SignRequests :
       SignJwtOk(r, Last(tk[k].mat)) /\ NatsRead(c, k, SignedJwt(r, Last(tk[k].mat), 0))
NatsFinish(c) ==
  /\ At(c, "nats", "sign")
  /\ \E late \in 0..MaxClock :
       answers' = {[jwt |-> [job[c].ws[1] EXCEPT !.by = Last(tk[job[c].k].mat)], at |-> late,
                    turned |-> job[c].n # Latest(job[c].k)]}
  /\ Set(c, IdleJob)
  /\ UNCHANGED <<scene, order, tk, kv, serial, phase, ident, lock, grants, seen, torn, spent>>
Clock ==
  /\ Plays("nats") /\ answers # {}
  /\ \E t \in answers : t.at < MaxClock /\ answers' = {[t EXCEPT !.at = @ + 1]}
  /\ UNCHANGED <<scene, order, tk, kv, job, serial, phase, ident, lock, grants, seen, torn, spent>>

-----------------------------------------------------------------------------
(* A provisioned store has version one of every key. *)
Provisioned(k) == k \in Scenes[scene].full
InitialTk(k) ==
  IF Provisioned(k) /\ Entry[k].engine = "transit" /\ Entry[k].custody # "software" /\ ~Entry[k].nix
  THEN TransitKey(1) ELSE NoTk
InitialKv(p) ==
  IF p \in Keys
  THEN IF ~Provisioned(p) THEN << >>
       ELSE IF Entry[p].class \in {"asym", "sealing"}
       THEN IF Entry[p].custody = "software" /\ Entry[p].storage \in Keys
            THEN <<CustodyRecord(p, 1, 1)>>
            ELSE IF Entry[p].engine = "kv2" THEN <<[what |-> "seed", n |-> 1]>> ELSE << >>
       ELSE IF Entry[p].engine # "kv2" THEN << >>
       ELSE IF Entry[p].gen = "cert" THEN <<CertPem(1)>>
       ELSE IF Entry[p].gen = "pair" THEN <<KeyPem(1)>> ELSE <<[what |-> "value", n |-> 1]>>
  ELSE IF \E k \in Keys : Public(k) = p /\ Provisioned(k)
       THEN <<[what |-> "public", n |-> 1]>> ELSE << >>

CustodyInit ==
  /\ scene \in DOMAIN Scenes /\ order \in Orders
  /\ tk = [k \in Keys |-> InitialTk(k)] /\ kv = [p \in Paths |-> InitialKv(p)]
  /\ serial = 1
  /\ phase = IF Plays("boot") THEN "boot" ELSE "serving"
  /\ job = [c \in Jobs |-> IF c = Boot /\ Plays("boot") THEN BootJob ELSE IdleJob]
  /\ ident = [state |-> "pending", pin |-> 0] /\ lock = NoKey /\ grants = Active
  /\ seen = {} /\ answers = {} /\ torn = {}
  /\ spent = [rotations |-> 0, faults |-> 0, sweeps |-> 0, starts |-> 0, meddles |-> 0, reloads |-> 0]

RotationSteps(c) ==
  \/ RotateRead(c) \/ RotateFloor(c) \/ SweepRead(c) \/ SweepFloor(c) \/ MintSign(c) \/ StoreRecord(c)
  \/ NatsFinish(c)
NixSteps(c) ==
  \/ EnrollRead(c) \/ EnrollCreate(c) \/ EnrollReread(c) \/ EnrollJudge(c)
  \/ SignBefore(c) \/ SignCall(c) \/ SignAfter(c)
Starts(c, k) ==
  \/ Ask(c, k) \/ SetValue(c, k) \/ RotatePost(c, k) \/ MintRead(c, k) \/ RotateValue(c, k)
  \/ SealSeed(c, k) \/ NixStart(c, k, "enroll") \/ NixStart(c, k, "nixsign")
  \/ NatsMint(c, k) \/ NatsSign(c, k)
CustodyNext ==
  \/ BootProbe \/ BootEnds \/ Put(Boot) \/ Crash \/ Adopt \/ ReloadGrants \/ Clock
  \/ \E k \in Keys : Meddle(k)
  \/ \E c \in Clients :
       \/ \E k \in Keys : Starts(c, k)
       \/ RotationSteps(c) \/ NixSteps(c) \/ Put(c) \/ Drop(c) \/ ImportNext(c)
       \/ \E set \in {<<a, b>> : a, b \in Active} : ImportSet(c, set)
CustodySpec == CustodyInit /\ [][CustodyNext]_custodyVars

-----------------------------------------------------------------------------
(* The grace window holds whatever rotations and sweeps overlap: each of   *)
(* the newest Grace + 1 versions decrypts and is published, a token signed *)
(* by one is verifiable against the published key set, and a record of     *)
(* software custody wrapped by one can be opened.  The broker's own Verify *)
(* confirms a token only for the versions it can name: a signature of      *)
(* version one while version one is in the window, and no other.           *)
InGrace(k, v) == v \in 1..Latest(k) /\ Latest(k) - Grace <= v
GraceKept ==
  /\ \A k \in Active : \A v \in 1..Latest(k) : InGrace(k, v) => Usable(k, v)
  /\ Plays("mint") =>
       \A t \in answers :
         /\ \A v \in 1..Latest(t.k) :
              InGrace(t.k, v) /\ tk[t.k].mat[v] = t.by => Jwk(t.by) \in Jwks(t.k)
         /\ InGrace(t.k, 1) => (Confirms(t.k, t.by) <=> tk[t.k].mat[1] = t.by)
  /\ \A k \in Active : Len(kv[k]) = 1 /\ Last(kv[k]).what = "record" =>
       (InGrace(Entry[k].storage, Last(kv[k]).wrap) => CustodyOpens(k))

(* A stored certificate is for the stored private key whenever no writer   *)
(* of the two is at work, the last one neither overlapped another nor was  *)
(* interrupted between its two writes, and no set has replaced one of them *)
(* since.                                                                  *)
SolePair(k) ==
  /\ Entry[k].gen = "pair" /\ CertRecipe(k)
  /\ \A q \in Keys : Entry[q].gen = "pair" /\ Entry[q].pairOf = Entry[k].pairOf => q = k
Busy(p) == \E c \in Writers : LastPath(c) = p
Paired(k) ==
  Entry[k].pairOf \notin torn /\ HasKv(k) /\ HasKv(Entry[k].pairOf) =>
    Number(k) = Number(Entry[k].pairOf)
PairMatches == \A k \in Active : SolePair(k) /\ ~Busy(Entry[k].pairOf) => Paired(k)

(* Overlapping rotations, sweeps and certificate writers leave stored keys *)
(* that still open, verify and belong together.                            *)
RotationSound == GraceKept /\ PairMatches

(* A broker that serves has every key that its catalog requires or lets it *)
(* generate, however often it died while it was generating them.           *)
BootComplete ==
  Plays("boot") /\ phase = "serving" =>
    \A k \in Active : Entry[k].missing # "warn" => Probe(k)

(* Every Nix cache signature that leaves the broker was made by the key    *)
(* that the catalog pins, whatever happens to the key in the backend while *)
(* it is made, and an enrolled identity is only ever described by its pin. *)
NixPinned ==
  Plays("nix") => \A a \in answers : /\ a.sig # 0 => a.sig = a.pin
                                     /\ a.pin # 0 => a.pub = a.pin

(* Enrollments that race create one key: one of them reports it as created *)
(* and all of them report the same public key.                             *)
OneCreation ==
  Plays("nix") /\ spent.meddles = 0 =>
    /\ Cardinality({a \in answers : a.new}) <= 1
    /\ \A a, b \in answers : a.pub = b.pub

(* Keys are created completely and once, at start-up and by enrollment     *)
(* (reconcile.rs, enroll_nix_cache_key).                                   *)
CreatedOnce == BootComplete /\ OneCreation

(* No reply discloses a private seed or a custody record: the KV paths of  *)
(* signing and sealing keys cannot be read as values.                      *)
SeedsStayInside == seen \cap {"seed", "record"} = {}

(* A key that an import set brought in belongs to a set that was granted   *)
(* as a whole under one policy, even if the policy changes between two of  *)
(* its imports.                                                            *)
SetGrantedWhole ==
  Plays("import") => \A k \in Active : HasTk(k) =>
    \E a \in answers : /\ \E i \in DOMAIN a.set : a.set[i] = k
                       /\ \A i \in DOMAIN a.set : a.set[i] \in a.grants

(* A grant is all or nothing and never reaches a private half.             *)
GrantsHonoured == SeedsStayInside /\ SetGrantedWhole

(* Whatever path made it, a NATS token is of a kind that its issuer's role *)
(* may issue about its subject's role.  The broker's own validation        *)
(* accepts it until it expires and for no other signer, unless the key was *)
(* rotated between the read of the issuer and the signature: such a token  *)
(* names the old version, is signed by the new one, and is never accepted. *)
NatsChain ==
  Plays("nats") => \A a \in answers :
    LET t == a.jwt
        live == (t.exp # NoTime => t.exp > a.at) /\ (t.nbf # NoTime => t.nbf <= a.at)
    IN /\ ValidateNatsRoles(t.iss.role, t.kind, t.sub)
       /\ (ValidateNatsJwt(t, t.kind, <<EncodePublic("U", 9), t.iss>>, a.at) = "Valid")
            = (live /\ t.by = t.iss.pub)
       /\ t.by # t.iss.pub => a.turned
       /\ \A p \in 1..serial : p # t.iss.pub =>
            ValidateNatsJwt(t, t.kind, <<EncodePublic(t.iss.role, p)>>, a.at) # "Valid"

(* What the broker signs is what its verifiers expect: the pinned Nix key, *)
(* and the NATS chain of roles, or a token that no verifier accepts.       *)
ChainsVerify == NixPinned /\ NatsChain

(* broker.proto on UNKNOWN_SIGNER: "No supplied candidate signer matched   *)
(* the token's embedded iss".  validate_nats_jwt answers it also for an    *)
(* expired token of a supplied signer.                                     *)
UnknownMeansUnknown ==
  Plays("nats") => \A a \in answers :
    ValidateNatsJwt(a.jwt, "any", <<a.jwt.iss>>, a.at) # "UnknownSigner"

(* BrokerLimits.grace_versions: versions "older than the window stop       *)
(* decrypting/verifying while the in-window ones still do".  Verify names  *)
(* version one, so a later version in the window does not verify.          *)
InWindowVerifies ==
  Plays("mint") => \A t \in answers : \A v \in 1..Latest(t.k) :
    InGrace(t.k, v) /\ tk[t.k].mat[v] = t.by => Confirms(t.k, t.by)

(* seal_and_store: "the use path validates the KV record version equals    *)
(* this on read".  The second NewKey of a software-custody key writes      *)
(* record version one as KV version two, and no use of the key succeeds.   *)
FreshRecordReadable ==
  \A k \in Active : Entry[k].custody = "software" /\ HasKv(k) => RecordOk(k)
=============================================================================

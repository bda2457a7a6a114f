-------------------------------- MODULE Cose --------------------------------
(* The COSE profile of basil-cose: the protected headers and their one     *)
(* accepted encoding, the claims and their roles, and the sealed and       *)
(* signed messages.  A message's bytes are the items the codec reads: a    *)
(* header is the sequence of its label-value entries.  Signatures and      *)
(* ciphertexts are symbolic: they are made by one key over one content.    *)
EXTENDS Integers, Sequences, FiniteSets, SequencesExt, Positions

CONSTANTS None,      \* an absent optional value
          Bad,       \* a value of a wrong type, length or form
          SealedBytes, \* the length of a message's payload
          Edge32     \* 2^32, the first argument that needs eight bytes: any larger integer stands for it

ASSUME EdgeAssumption == Edge32 \in Nat /\ Edge32 > 65536

Alg == 1
Crit == 2
ContentTypeL == 3
Kid == 4
Iv == 5
Cwt == 15
EphemeralKey == -1
PartyU == -21
PartyV == -24
InReplyTo == -70001
RequestHashL == -70002
SenderKeyId == -70003
ResponseKeyId == -70004
ResponseSubject == -70005
SignerCertificates == -70006
SignerPublicKey == -70007
Freshness == -70008
ResponsePublicKey == -70009
OperationTarget == -70010
Iss == 1
Aud == 3
Exp == 4
Iat == 6
Cti == 7

BasilLabels ==
  {InReplyTo, RequestHashL, SenderKeyId, ResponseKeyId, ResponseSubject, Freshness, ResponsePublicKey}
ProofLabels == {SignerCertificates, SignerPublicKey, OperationTarget}
CwtLabels == {Iss, Aud, Exp, Iat, Cti}

(***************************************************************************)
(* CBOR heads: the width an argument is written with, and the widths the   *)
(* two decoders accept.                                                    *)
(***************************************************************************)
HeadMinimum == [w \in {0, 1, 2, 4, 8} |-> CASE w = 0 -> 0 [] w = 1 -> 24 [] w = 2 -> 256
                                             [] w = 4 -> 65536 [] OTHER -> Edge32]
HeadRoom == [w \in {0, 1, 2, 4, 8} |-> CASE w = 0 -> 23 [] w = 1 -> 255 [] w = 2 -> 65535
                                          [] w = 4 -> Edge32 - 1 [] OTHER -> 2 * Edge32]
EncodeHead(value) ==
  CHOOSE w \in {0, 1, 2, 4, 8} :
    /\ value <= HeadRoom[w]
    /\ \A v \in {0, 1, 2, 4, 8} : value <= HeadRoom[v] => w <= v
(* The scan before a COSE message is decoded, simple values excepted. *)
ScanHead(w, value) == value >= HeadMinimum[w]
(* The decoder of an invocation's body. *)
LenValue(w, value) == value >= HeadMinimum[w]

(* The heads of a message of three parts around its payload. *)
Heads(payloadBytes) == [i \in 1..2 |-> LET v == <<4, payloadBytes>>[i] IN [value |-> v, width |-> EncodeHead(v)]]
(* Faulty form of Precheck: only the outermost head is looked at. *)
Precheck_Outer(heads) == ScanHead(heads[1].width, heads[1].value)
Precheck(heads) == \A i \in DOMAIN heads : ScanHead(heads[i].width, heads[i].value)

(***************************************************************************)
(* Label order.                                                            *)
(***************************************************************************)
CanonicalSortKey(label) == IF label >= 0 THEN <<0, label>> ELSE <<1, -1 - label>>
Before(a, b) ==
  LET x == CanonicalSortKey(a)
      y == CanonicalSortKey(b)
  IN x[1] < y[1] \/ (x[1] = y[1] /\ x[2] < y[2])
CheckOrder(entries) ==
  \A i \in 1..Len(entries) - 1 : Before(entries[i][1], entries[i + 1][1])

(***************************************************************************)
(* Protected headers.  A header is a function from labels to values; under *)
(* Cwt it holds the function of the CWT claims.                            *)
(***************************************************************************)
Allowed(layer) ==
  CASE layer = "bare"  -> {Alg, Crit, ContentTypeL, Kid, Cwt} \cup BasilLabels \cup ProofLabels
    [] layer = "outer" -> {Alg, Crit, Kid} \cup ProofLabels
    [] layer = "inner" -> {Alg, Crit, ContentTypeL, Cwt} \cup BasilLabels
    [] OTHER           -> {Alg, Crit, PartyU, PartyV}
CritCapable(layer) ==
  CASE layer = "outer" -> ProofLabels
    [] layer = "parties" -> {PartyU, PartyV}
    [] OTHER -> {ContentTypeL, Cwt} \cup BasilLabels \cup ProofLabels
(* The order the encoder writes a header in. *)
WriteOrder ==
  <<Alg, Crit, ContentTypeL, Kid, Cwt, PartyU, PartyV, InReplyTo, RequestHashL, SenderKeyId, ResponseKeyId,
    ResponseSubject, SignerCertificates, SignerPublicKey, Freshness, ResponsePublicKey, OperationTarget>>
Select(order, labels) == AtPositions(order, {i \in DOMAIN order : order[i] \in labels})
CritLabels(layer, h) == SortSeq(Select(WriteOrder, DOMAIN h \cap CritCapable(layer)), Before)
CwtOrder == <<Iss, Aud, Exp, Iat, Cti>>
WriteCwtMap(claims) ==
  LET order == Select(CwtOrder, DOMAIN claims)
  IN [i \in 1..Len(order) |-> <<order[i], claims[order[i]]>>]

(* A response key published in the request must be the one its id names:   *)
(* the id is the key's thumbprint.                                         *)
Thumbprint(public) == <<"thumb", public>>
ResponseKeyBinding(h) ==
  {ResponseKeyId, ResponsePublicKey} \subseteq DOMAIN h =>
    h[ResponseKeyId] = Thumbprint(h[ResponsePublicKey])

EncodeProtected(layer, h) ==
  LET crit == CritLabels(layer, h)
      order == Select(WriteOrder, DOMAIN h \cup IF crit = << >> THEN {} ELSE {Crit})
      Value(l) == IF l = Crit THEN crit ELSE IF l = Cwt THEN WriteCwtMap(h[l]) ELSE h[l]
  IN [i \in 1..Len(order) |-> <<order[i], Value(order[i])>>]

Labels(entries) == {e[1] : e \in Range(entries)}
Entries(entries) == [l \in Labels(entries) |-> (CHOOSE e \in Range(entries) : e[1] = l)[2]]
HeaderOf(entries) ==
  LET all == Entries(entries)
  IN [l \in DOMAIN all \ {Crit} |-> IF l = Cwt THEN Entries(all[l]) ELSE all[l]]

(* The critical labels are listed completely, in order, or not at all when *)
(* there are none.                                                         *)
CheckCrit(layer, h, entries) ==
  LET expected == CritLabels(layer, h)
  IN {e[2] : e \in {x \in Range(entries) : x[1] = Crit}} = IF expected = << >> THEN {} ELSE {expected}

ParseCwtMap(entries) ==
  /\ CheckOrder(entries)
  /\ \A e \in Range(entries) : e[1] \in CwtLabels /\ e[2] # Bad
(* Claims need the CWT map, and it needs an issue time and an id. *)
IntoClaims(h) ==
  IF Cwt \notin DOMAIN h THEN DOMAIN h \cap BasilLabels = {}
  ELSE {Iat, Cti} \subseteq DOMAIN h[Cwt] /\ ResponseKeyBinding(h)
FinishClaims(layer, h, claims) ==
  layer \in {"bare", "inner"} =>
    /\ ContentTypeL \in DOMAIN h
    /\ claims = "required" => Cwt \in DOMAIN h
    /\ claims = "forbidden" => Cwt \notin DOMAIN h
Algorithms(layer) ==
  CASE layer = "inner" -> {3, 24}
    [] layer = "parties" -> {-25}
    [] OTHER -> {-8, -7}

(* A header map is taken in its one encoding only: known labels in order,  *)
(* values of their types, complete, and equal to its own re-encoding.      *)
DecodeProtected(layer, entries, claims) ==
  LET h == HeaderOf(entries) IN
  /\ CheckOrder(entries)
  /\ \A e \in Range(entries) :
       /\ e[1] \in Allowed(layer) /\ e[2] # Bad
       /\ e[1] = Cwt => ParseCwtMap(e[2])
  /\ Alg \in DOMAIN h /\ h[Alg] \in Algorithms(layer)
  /\ layer \in {"outer", "bare"} => Kid \in DOMAIN h
  /\ layer = "bare" => ResponsePublicKey \notin DOMAIN h
  /\ IntoClaims(h) /\ FinishClaims(layer, h, claims)
  /\ CheckCrit(layer, h, entries)
  /\ EncodeProtected(layer, h) = entries

(* The unprotected map: exactly the expected entries, never a claim. *)
CheckUnprotected(entries, expected) ==
  /\ CheckOrder(entries)
  /\ Labels(entries) = expected
  /\ \A e \in Range(entries) : e[2] # Bad

(***************************************************************************)
(* Messages.                                                               *)
(***************************************************************************)
SigStructure(protected, aad, payload) == <<"Signature1", protected, aad, payload>>
EncStructure(protected, aad) == <<"Encrypt", protected, aad>>
KdfContext(alg, recipient) == <<alg, recipient>>

(* X25519, HKDF and the AEAD: the ciphertext opens with the private key of *)
(* the public key it was made for, under the same context and aad.         *)
SealTo(public, context, aad, plaintext) ==
  [to |-> public, context |-> context, aad |-> aad, plaintext |-> plaintext]
Opens(ciphertext, public, context, aad) ==
  ciphertext.to = public /\ ciphertext.context = context /\ ciphertext.aad = aad

BuildEncrypt(h, plaintext, recipient, parties, aad) ==
  LET protected == EncodeProtected("inner", h)
      partiesP == EncodeProtected("parties", parties)
  IN [tag |-> 96, protected |-> protected, unprotected |-> << <<Iv, "iv">> >>,
      recipients |-> <<[protected |-> partiesP,
                        unprotected |-> << <<Kid, recipient.id>>,
                                          <<EphemeralKey, "x">> >>,
                        ciphertext |-> None]>>,
      ciphertext |-> SealTo(recipient.public, KdfContext(h[Alg], partiesP),
                            EncStructure(protected, aad), plaintext)]

(* Exactly one recipient, with its key id and the ephemeral key. *)
DecodeEncrypt(bytes, claims) ==
  /\ bytes.tag = 96 /\ bytes.ciphertext # None
  /\ CheckUnprotected(bytes.unprotected, {Iv})
  /\ Len(bytes.recipients) = 1
  /\ LET r == Head(bytes.recipients) IN
       /\ r.ciphertext = None
       /\ CheckUnprotected(r.unprotected, {Kid, EphemeralKey})
       /\ DecodeProtected("parties", r.protected, "optional")
  /\ DecodeProtected("inner", bytes.protected, claims)
DecodeSign1(bytes, layer) ==
  /\ Precheck(bytes.heads)
  /\ bytes.tag = 18 /\ bytes.payload # None /\ bytes.signature # None
  /\ CheckUnprotected(bytes.unprotected, {})
  /\ DecodeProtected(layer, bytes.protected, "optional")

(* What a role must and must not carry. *)
ValidateRole(h, role) ==
  LET need == CASE role = "request"  -> {SenderKeyId, ResponseKeyId}
                [] role = "response" -> {InReplyTo, RequestHashL}
                [] OTHER             -> {SenderKeyId}
      never == CASE role = "request"  -> {InReplyTo, RequestHashL}
                 [] role = "response" -> {ResponseKeyId, ResponseSubject, Freshness, ResponsePublicKey}
                 [] OTHER             -> BasilLabels \ {SenderKeyId}
  IN IF ~ResponseKeyBinding(h) THEN "ResponseKeyIdMismatch"
     ELSE IF ~(need \subseteq DOMAIN h) THEN "MissingClaim"
     ELSE IF DOMAIN h \cap never # {} THEN "ForbiddenClaim"
     ELSE "ok"

Validate(h, p) ==
  LET c == h[Cwt]
      until == IF Exp \in DOMAIN c THEN c[Exp] ELSE c[Iat] + p.defaultTtl
  IN IF c[Iat] > p.now + p.skew THEN "IssuedInFuture"
     ELSE IF Exp \in DOMAIN c /\ c[Exp] <= c[Iat] THEN "NonPositiveTtl"
     ELSE IF Exp \in DOMAIN c /\ c[Exp] - c[Iat] > p.maxTtl THEN "TtlTooLong"
     ELSE IF p.now > until + p.skew THEN "Expired"
     ELSE IF p.audiences # {} /\ Aud \in DOMAIN c /\ c[Aud] \notin p.audiences THEN "AudienceRejected"
     ELSE ValidateRole(h, p.role)

(* A private key signs with the algorithm of its kind; the verifier knows  *)
(* the public keys of some ids.                                            *)
SignWith(signer, structure) == [by |-> signer.key, over |-> structure]
Verify(keys, h, structure, signature) ==
  /\ h[Kid] \in DOMAIN keys
  /\ keys[h[Kid]].alg = h[Alg]
  /\ signature = [by |-> keys[h[Kid]].key, over |-> structure]

CheckSealClaims(h, role, signer) ==
  IF ValidateRole(h, role) # "ok" THEN "RoleShape"
  ELSE IF SenderKeyId \notin DOMAIN h \/ h[SenderKeyId] # signer.id THEN "SenderKeyMismatch"
  ELSE "ok"
OuterHeader(signer, proof) ==
  [l \in {Alg, Kid} \cup DOMAIN proof |->
     IF l = Alg THEN signer.alg ELSE IF l = Kid THEN signer.id ELSE proof[l]]
BuildSealed(h, role, plaintext, recipient, parties, proof, signer) ==
  LET inner == BuildEncrypt(h, plaintext, recipient, parties, << >>)
      protected == EncodeProtected("outer", OuterHeader(signer, proof))
  IN [tag |-> 18, heads |-> Heads(SealedBytes), protected |-> protected, unprotected |-> << >>, payload |-> inner,
      signature |-> SignWith(signer, SigStructure(protected, << >>, inner))]

(* The outer signature is by the key the sealed claims name as the sender. *)
SealedHeader(bytes) == HeaderOf(bytes.payload.protected)
VerifySealed(bytes, keys, p) ==
  IF ~DecodeSign1(bytes, "outer") THEN "Codec"
  ELSE IF ~DecodeEncrypt(bytes.payload, "required") THEN "Codec"
  ELSE IF ~Verify(keys, HeaderOf(bytes.protected), SigStructure(bytes.protected, << >>, bytes.payload), bytes.signature)
       THEN "Signature"
  ELSE IF LET h == SealedHeader(bytes)
          IN SenderKeyId \notin DOMAIN h \/ h[SenderKeyId] # HeaderOf(bytes.protected)[Kid]
       THEN "SenderKeyMismatch"
  ELSE Validate(SealedHeader(bytes), p)

(* Opening a verified message with a recipient's key. *)
OpenSealed(bytes, recipient, parties) ==
  LET r == Head(bytes.payload.recipients) IN
  IF recipient.id # Entries(r.unprotected)[Kid] THEN "RecipientKeyMismatch"
  ELSE IF parties # HeaderOf(r.protected) THEN "PartyMismatch"
  ELSE IF ~Opens(bytes.payload.ciphertext, recipient.public, KdfContext(SealedHeader(bytes)[Alg], r.protected),
                 EncStructure(bytes.payload.protected, << >>))
       THEN "OpenFailed"
  ELSE "ok"

(* A signed message that is not sealed. *)
BuildSigned(h, payload, proof, signer) ==
  LET all == [l \in {Alg, Kid} \cup DOMAIN h \cup DOMAIN proof |->
                IF l = Alg THEN signer.alg ELSE IF l = Kid THEN signer.id
                ELSE IF l \in DOMAIN h THEN h[l] ELSE proof[l]]
      protected == EncodeProtected("bare", all)
  IN [tag |-> 18, heads |-> Heads(SealedBytes), protected |-> protected, unprotected |-> << >>, payload |-> payload,
      signature |-> SignWith(signer, SigStructure(protected, << >>, payload))]
SignedBuildOk(h, signer) ==
  IF SenderKeyId \in DOMAIN h /\ h[SenderKeyId] # signer.id THEN "SenderKeyMismatch"
  ELSE IF ResponseKeyId \in DOMAIN h /\ h[ResponseKeyId] = Bad THEN "ResponseKeyNotText"
  ELSE IF ResponsePublicKey \in DOMAIN h THEN "ResponsePublicKeyRequiresEncryption"
  ELSE IF ~ResponseKeyBinding(h) THEN "Codec"
  ELSE "ok"
VerifySigned(bytes, keys, p) ==
  LET h == HeaderOf(bytes.protected) IN
  IF ~DecodeSign1(bytes, "bare") THEN "Codec"
  ELSE IF ~Verify(keys, h, SigStructure(bytes.protected, << >>, bytes.payload), bytes.signature) THEN "Signature"
  ELSE IF (p = None) # (Cwt \notin DOMAIN h) THEN "ClaimsPresenceMismatch"
  ELSE IF p = None THEN "ok"
  ELSE IF SenderKeyId \in DOMAIN h /\ h[SenderKeyId] # h[Kid] THEN "SenderKeyMismatch"
  ELSE Validate(h, p)

RequestHash(message) == <<"sha3", message>>
=============================================================================

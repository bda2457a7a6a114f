------------------------------- MODULE Relay -------------------------------
(* The client's side of a sealed invocation (basil-client's                *)
(* sealed_invocation): a CarrierSigner seals its request for the broker,   *)
(* hands it to a carrier it does not trust, and signs with the answer the  *)
(* carrier brings back.  The carrier may lose, delay, repeat, exchange and *)
(* re-encode messages.                                                     *)
EXTENDS Cose

CONSTANTS RelayCalls,      \* signing calls in progress
          OptionsOf,       \* the options of each: [kind, target, message, proof, publicBytes, granted]
          Caller,          \* the key that signs requests: [id, key, alg]
          OtherCaller,     \* another key the broker trusts
          BrokerKey,       \* the broker's response signing key
          BrokerBox,       \* the broker's request encryption key: [id, public]
          ResponseBox,     \* the catalog key that answers are sealed to
          Skew, RequestTtl, ResponseTtl, MaxTtl, DefaultTtl,
          MaxClock, MaxAltered

VARIABLES clock, calls,
          wire,      \* requests the carrier has: [call, at, form]
          mail,      \* answers the carrier has: [to, at, form]
          verdict,   \* the last message a receiver checked, and the error it found
          altered

relayVars == <<clock, calls, wire, mail, verdict, altered>>

ASSUME RelayAssumption ==
  /\ Skew \in Nat /\ RequestTtl \in Nat \ {0} /\ ResponseTtl \in Nat \ {0}
  /\ MaxTtl \in Nat /\ DefaultTtl \in Nat /\ MaxClock \in Nat /\ MaxAltered \in Nat
  /\ None # "Ok"
(* The keys are of the two signature algorithms, another caller has another *)
(* key, no time to live is longer than its receiver allows, a message has  *)
(* less than 4 GiB, and a proof is what ProtectedHeaders holds.            *)
ASSUME PartiesAssumption ==
  /\ {Caller.alg, OtherCaller.alg, BrokerKey.alg} \subseteq {-8, -7}
  /\ OtherCaller.key \notin {Caller.key, BrokerKey.key}
  /\ RequestTtl <= MaxTtl /\ ResponseTtl <= MaxTtl
  /\ SealedBytes \in Nat /\ SealedBytes < Edge32
  /\ \A c \in RelayCalls : DOMAIN OptionsOf[c].proof \subseteq {SignerCertificates, SignerPublicKey}

(* The keys a receiver has pinned, by their ids. *)
Pinned(key) == [key |-> key.key, alg |-> key.alg]
CallerKeys == [id \in {Caller.id, OtherCaller.id} |-> Pinned(IF id = Caller.id THEN Caller ELSE OtherCaller)]
BrokerKeys == [id \in {BrokerKey.id} |-> Pinned(BrokerKey)]
NoParties == [l \in {Alg} |-> -25]

(* An ephemeral call makes its own response key and names it by its        *)
(* thumbprint; a catalog call names a key the broker holds.                *)
Ephemeral(c) == OptionsOf[c].kind = "ephemeral"
EphemeralBox(c) == [id |-> Thumbprint(c), public |-> c]
BoxOf(c) == IF Ephemeral(c) THEN EphemeralBox(c) ELSE ResponseBox
PrepareError(o) ==
  IF o.kind = "ephemeral" /\ DOMAIN o.proof # {SignerCertificates, SignerPublicKey}
    THEN "MissingProviderProofHeaders"
  ELSE IF o.publicBytes # 32 THEN "RecipientPublicKeyLength"
  ELSE "ok"
RequestClaims(c, now) ==
  [l \in CwtLabels |-> CASE l = Iss -> "caller" [] l = Aud -> "broker" [] l = Iat -> now
                         [] l = Exp -> now + RequestTtl [] OTHER -> <<c, now>>]
RequestHeader(c, now) ==
  [l \in {Alg, ContentTypeL, Cwt, SenderKeyId, ResponseKeyId}
           \cup (IF Ephemeral(c) THEN {Freshness, ResponsePublicKey} ELSE {}) |->
     CASE l = Alg -> 3 [] l = ContentTypeL -> "sign-request" [] l = Cwt -> RequestClaims(c, now)
       [] l = SenderKeyId -> Caller.id [] l = ResponseKeyId -> BoxOf(c).id
       [] l = Freshness -> "challenge" [] OTHER -> c]
RequestProof(c) ==
  LET o == OptionsOf[c] IN
  [l \in IF Ephemeral(c) THEN DOMAIN o.proof \cup {OperationTarget} ELSE {} |->
     IF l = OperationTarget THEN o.target ELSE o.proof[l]]
Request(c, now) ==
  BuildSealed(RequestHeader(c, now), "request", [key_id |-> OptionsOf[c].target, message |-> OptionsOf[c].message],
              BrokerBox, NoParties, RequestProof(c), Caller)

(* A message is named by what was sealed and when, and by what the carrier *)
(* made of it; its bytes follow from that.                                 *)
RelayForms == {"built", "wide", "entry", "claim", "tagged", "parties", "rewrapped"}
Wider == [w \in {0, 1, 2, 4} |-> CASE w = 0 -> 1 [] w = 1 -> 2 [] w = 2 -> 4 [] OTHER -> 8]
InForm(m, form) ==
  CASE form = "built"     -> m
    [] form = "wide"      -> [m EXCEPT !.heads[2].width = Wider[@]]
    [] form = "entry"     -> [m EXCEPT !.unprotected = << <<Kid, "v">> >>]
    [] form = "claim"     -> [m EXCEPT !.unprotected = << <<Cwt, << >> >> >>]
    [] form = "tagged"    -> [m EXCEPT !.tag = 98]
    [] form = "parties"   -> [m EXCEPT !.payload.recipients[1].protected = << >>]
    [] OTHER -> LET p == EncodeProtected("outer", OuterHeader(OtherCaller, << >>))
                IN [m EXCEPT !.protected = p, !.signature = SignWith(OtherCaller, SigStructure(p, << >>, m.payload))]
Times == 0..MaxClock
WireMessages == [call : {c \in RelayCalls : PrepareError(OptionsOf[c]) = "ok"}, at : Times, form : RelayForms]
RequestBytes == [m \in WireMessages |-> InForm(Request(m.call, m.at), m.form)]

(* The broker's answer, sealed to the response key the request names. *)
SignatureOf(key, message) == <<"signature", key, message>>
Body(plaintext, granted) ==
  IF granted THEN [code |-> "Ok", signature |-> SignatureOf(plaintext.key_id, plaintext.message)]
  ELSE [code |-> "PermissionDenied", signature |-> None]
ResponseClaims(at) ==
  [l \in {Iss, Iat, Exp, Cti} |-> CASE l = Iss -> "broker" [] l = Iat -> at [] l = Exp -> at + ResponseTtl
                                    [] OTHER -> <<"answer", at>>]
ResponseHeader(request, header, at) ==
  [l \in {Alg, ContentTypeL, Cwt, SenderKeyId, InReplyTo, RequestHashL} |->
     CASE l = Alg -> 3 [] l = ContentTypeL -> "sign-response" [] l = Cwt -> ResponseClaims(at)
       [] l = SenderKeyId -> BrokerKey.id [] l = InReplyTo -> header[Cwt][Cti] [] OTHER -> RequestHash(request)]
RecipientOf(header) ==
  IF ResponsePublicKey \in DOMAIN header
  THEN [id |-> header[ResponseKeyId], public |-> header[ResponsePublicKey]] ELSE ResponseBox
Answer(request, granted, at) ==
  BuildSealed(ResponseHeader(request, SealedHeader(request), at), "response",
              Body(request.payload.ciphertext.plaintext, granted), RecipientOf(SealedHeader(request)),
              NoParties, << >>, BrokerKey)
MailMessages == [to : WireMessages, at : Times, form : RelayForms]
AnswerBytes == [m \in MailMessages |-> InForm(Answer(RequestBytes[m.to], OptionsOf[m.to.call].granted, m.at), m.form)]

(* None and Bad stand for nothing that a message carries. *)
NoneBad(entries) == \A e \in Range(entries) : e[2] # Bad
Proper(m) ==
  /\ m.payload # None /\ m.signature # None /\ m.payload.ciphertext # None
  /\ NoneBad(m.protected) /\ NoneBad(m.payload.protected) /\ NoneBad(Entries(m.payload.protected)[Cwt])
  /\ NoneBad(m.payload.unprotected)
  /\ LET r == Head(m.payload.recipients) IN NoneBad(r.protected) /\ NoneBad(r.unprotected)
ASSUME ValuesAssumption ==
  /\ \A m \in WireMessages : m.form = "built" => Proper(RequestBytes[m])
  /\ \A m \in MailMessages : m.form = "built" => Proper(AnswerBytes[m])
  /\ \A c \in RelayCalls : SignatureOf(OptionsOf[c].target, OptionsOf[c].message) # None

RelayIdle == [stage |-> "idle", now |-> 0, outcome |-> None, signature |-> None]
Sent(c, now) == [call |-> c, at |-> now, form |-> "built"]
Ended(c, outcome, signature) ==
  calls' = [calls EXCEPT ![c].stage = "done", ![c].outcome = outcome, ![c].signature = signature]

(* The clock is read once, before the round trip. *)
Prepare(c) ==
  /\ calls[c].stage = "idle"
  /\ \/ /\ PrepareError(OptionsOf[c]) # "ok"
        /\ Ended(c, PrepareError(OptionsOf[c]), None) /\ UNCHANGED wire
     \/ /\ PrepareError(OptionsOf[c]) = "ok"
        /\ CheckSealClaims(RequestHeader(c, clock), "request", Caller) = "ok"
        /\ calls' = [calls EXCEPT ![c].stage = "sent", ![c].now = clock]
        /\ wire' = wire \cup {Sent(c, clock)}
  /\ UNCHANGED <<clock, mail, verdict, altered>>

(* The broker verifies and opens the request, and runs it or refuses it.   *)
RequestParams(now) ==
  [now |-> now, skew |-> Skew, maxTtl |-> MaxTtl, defaultTtl |-> DefaultTtl, audiences |-> {"broker"},
   role |-> "request"]
OpenRequest(v, bytes) == IF v = "ok" THEN OpenSealed(bytes, BrokerBox, NoParties) ELSE v
CheckRequest(bytes, now) == OpenRequest(VerifySealed(bytes, CallerKeys, RequestParams(now)), bytes)
BrokerCheck == [m \in WireMessages |-> [now \in Times |-> CheckRequest(RequestBytes[m], now)]]
Serve(m) ==
  /\ m \in wire
  /\ verdict' = [message |-> m, error |-> BrokerCheck[m][clock]]
  /\ mail' = IF verdict'.error = "ok" THEN mail \cup {[to |-> m, at |-> clock, form |-> "built"]} ELSE mail
  /\ UNCHANGED <<clock, calls, wire, altered>>

(* The carrier re-encodes a message, or another key the receiver trusts    *)
(* signs its content.                                                      *)
Alter(m, form) ==
  /\ altered < MaxAltered /\ altered' = altered + 1
  /\ \/ m \in wire /\ wire' = wire \cup {[m EXCEPT !.form = form]} /\ UNCHANGED mail
     \/ m \in mail /\ mail' = mail \cup {[m EXCEPT !.form = form]} /\ UNCHANGED wire
  /\ UNCHANGED <<clock, calls, verdict>>

(* The answer must verify under a pinned broker key at the time the        *)
(* request was made, and be the answer to this very request.               *)
BoundTo_Any(header, request) == TRUE
BoundTo(header, request) ==
  /\ header[InReplyTo] = SealedHeader(request)[Cwt][Cti]
  /\ header[RequestHashL] = RequestHash(request)
ResponseParams(now) ==
  [now |-> now, skew |-> Skew, maxTtl |-> MaxTtl, defaultTtl |-> DefaultTtl, audiences |-> {},
   role |-> "response"]
ResponseBody(body) == (body.code = "Ok") = (body.signature # None)
OpenAnswer(c, bytes) ==
  LET opened == OpenSealed(bytes, BoxOf(c), NoParties) IN
  IF opened # "ok" THEN opened
  ELSE IF SealedHeader(bytes)[ContentTypeL] # "sign-response" THEN "UnexpectedContentType"
  ELSE IF ~ResponseBody(bytes.payload.ciphertext.plaintext) THEN "SignResponseBody"
  ELSE "ok"
OpenBound(v, sent, bytes) ==
  IF v # "ok" THEN v
  ELSE IF ~BoundTo(SealedHeader(bytes), RequestBytes[sent]) THEN "RequestMismatch"
  ELSE OpenAnswer(sent.call, bytes)
CheckAnswer(sent, bytes) == OpenBound(VerifySealed(bytes, BrokerKeys, ResponseParams(sent.at)), sent, bytes)
VerifyAndOpen ==
  [sent \in {m \in WireMessages : m.form = "built"} |-> [m \in MailMessages |-> CheckAnswer(sent, AnswerBytes[m])]]
Receive(c, m) ==
  /\ calls[c].stage = "sent" /\ m \in mail
  /\ verdict' = [message |-> m,
                 error |-> VerifyAndOpen[Sent(c, calls[c].now)][m]]
  /\ LET body == AnswerBytes[m].payload.ciphertext.plaintext
     IN IF verdict'.error = "ok" THEN Ended(c, body.code, body.signature) ELSE Ended(c, verdict'.error, None)
  /\ UNCHANGED <<clock, wire, mail, altered>>
CarrierFails(c) ==
  /\ calls[c].stage = "sent"
  /\ Ended(c, "carrier", None)
  /\ UNCHANGED <<clock, wire, mail, verdict, altered>>
RelayTick ==
  /\ clock < MaxClock /\ clock' = clock + 1
  /\ UNCHANGED <<calls, wire, mail, verdict, altered>>

RelayInit ==
  /\ clock = 0 /\ calls = [c \in RelayCalls |-> RelayIdle]
  /\ wire = {} /\ mail = {} /\ verdict = None /\ altered = 0
RelayNext(active, forms) ==
  \/ \E c \in active : Prepare(c) \/ CarrierFails(c) \/ \E m \in mail : Receive(c, m)
  \/ \E m \in wire : Serve(m)
  \/ \E m \in wire \cup mail, form \in forms : Alter(m, form)
  \/ RelayTick
RelaySpec == RelayInit /\ [][RelayNext(RelayCalls, RelayForms)]_relayVars

(***************************************************************************)
(* Properties.                                                             *)
(***************************************************************************)
(* A call succeeds only with the broker's signature over its own message,  *)
(* whatever answers the carrier exchanged, repeated or delayed             *)
(* (verify_and_open_sign_response).                                        *)
AnswerBound ==
  \A c \in RelayCalls :
    calls[c].outcome = "Ok" => calls[c].signature = SignatureOf(OptionsOf[c].target, OptionsOf[c].message)

(* The encoder's messages are in the one encoding the strict decoder takes *)
(* and carry what their role needs: a message a key holder built is        *)
(* refused only for its time or as the answer to another call.             *)
EncodingAccepted ==
  verdict # None /\ verdict.message.form = "built" =>
    verdict.error \in {"ok", "Expired", "IssuedInFuture", "RequestMismatch", "RecipientKeyMismatch"}

(* A message has no second form: what a receiver accepts is, byte for      *)
(* byte, what a key holder built, so that the request hash and the replay  *)
(* table name one request (precheck, decode_sign1_strict, verify_sealed).  *)
NoSecondForm == verdict # None /\ verdict.error = "ok" => verdict.message.form = "built"

(* The strict codec accepts what the encoder writes and nothing else.      *)
CodecExact == EncodingAccepted /\ NoSecondForm
=============================================================================

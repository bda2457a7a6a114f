----------------------------- MODULE MCRelay -----------------------------
(* Two calls to a signing client; two connections behind a trusted proxy, two bridges of one subject.   *)
EXTENDS Courier, Relay

Good(route) ==
  [size |-> "ok", target |-> "origin", count |-> 1, framing |-> "length", forwarded |-> FALSE, source |-> "s1",
   peer |-> "proxy", trusted |-> TRUE, route |-> route, method |-> "POST", encoded |-> FALSE,
   type |-> IF route = "challenge" THEN "protobuf" ELSE "cose", length |-> 10, auth |-> "token",
   body |-> "ok", answer |-> "ok"]
Invoke == Good("invoke")
Ask == Good("challenge")
MCHeadsOf ==
  [r1 |-> {Invoke},
   r2 |-> {Ask, [Ask EXCEPT !.body = "undecodable"], [Invoke EXCEPT !.body = "short"], [Invoke EXCEPT !.answer = "large"],
           [Ask EXCEPT !.answer = "subject"], [Invoke EXCEPT !.size = "large"], [Invoke EXCEPT !.target = "absolute"],
           [Invoke EXCEPT !.count = 99], [Invoke EXCEPT !.framing = "chunked"], [Invoke EXCEPT !.source = "twice"],
           [Invoke EXCEPT !.auth = "other"], [Invoke EXCEPT !.route = "admin"], [Invoke EXCEPT !.method = "GET"],
           [Invoke EXCEPT !.type = "protobuf"], [Invoke EXCEPT !.encoded = TRUE], [Invoke EXCEPT !.length = -1],
           [Ask EXCEPT !.length = 9999], [Invoke EXCEPT !.trusted = FALSE]},
   r3 |-> {[Invoke EXCEPT !.route = "admin"]}]
MCConfig ==
  [limits |-> [challenge_body |-> 256, invocation_request |-> 1048576, invocation_response |-> 1048576,
               header_count |-> 32, header_bytes |-> 16384, connections |-> 3, in_flight |-> 2,
               source_buckets |-> 2, per_source_rate |-> 1, per_source_burst |-> 2, global_rate |-> 1,
               global_burst |-> 3, io_deadline |-> 5, challenge_deadline |-> 3, invocation_deadline |-> 30],
   listener |-> "proxy", loopback |-> TRUE, bearer |-> "token"]
MCPolicy ==
  [path |-> "normal", service_owner |-> 1, directory_owner |-> 1, directory_mode |-> 488,   \* 0o750
   socket_owner |-> 2, socket_mode |-> 432, expected_peer |-> 2]                          \* 0o660
Courier1 == [profile |-> "courier", challenge |-> TRUE, version |-> 1]
MCShows == {Courier1, [Courier1 EXCEPT !.profile = "host", !.challenge = FALSE]}
Node(id, uid, peer, listening, isBroker, shown) ==
  [id |-> id, ancestors |-> "owned", dir_uid |-> 1, dir_mode |-> 488, kind |-> "socket", uid |-> uid, mode |-> 432,
   peer |-> peer, listening |-> listening, broker |-> isBroker, shown |-> shown]
(* The broker's socket; another user's listener behind a socket that looks *)
(* the same; a stale file; and another listener of the broker's user.      *)
MCSockets ==
  {Node(1, 2, 2, TRUE, TRUE, Courier1), Node(2, 2, 9, TRUE, FALSE, Courier1), Node(3, 9, 2, FALSE, FALSE, Courier1),
   Node(4, 2, 2, TRUE, FALSE, [Courier1 EXCEPT !.version = 0])}
Federated ==
  [request_subject |-> "rs", challenge_subject |-> "cs", source_partition |-> "p", lease_bucket |-> "lb",
   queue_group |-> NoOne, concurrency |-> 1, challenge_concurrency |-> 1, max_message |-> 1048576]
Local == [Federated EXCEPT !.challenge_subject = NoOne, !.source_partition = NoOne, !.lease_bucket = NoOne]
MCBridgeConfigs == {Federated, Local, [Local EXCEPT !.queue_group = "q"]}
MCNotes ==
  {[id |-> 1, kind |-> "invoke", reply |-> TRUE, size |-> 1], [id |-> 2, kind |-> "invoke", reply |-> TRUE, size |-> 2],
   [id |-> 3, kind |-> "challenge", reply |-> TRUE, size |-> 9999]}

Signs(kind, message) ==
  [kind |-> kind, target |-> "k", message |-> message, publicBytes |-> 32, granted |-> TRUE,
   proof |-> IF kind = "ephemeral" THEN (SignerCertificates :> "chain") @@ (SignerPublicKey :> "key") ELSE << >>]
MCOptionsOf ==
  [c1 |-> Signs("catalog", "m1"), c2 |-> Signs("catalog", "m2"), c3 |-> Signs("ephemeral", "m3"),
   c4 |-> [Signs("ephemeral", "m4") EXCEPT !.proof = SignerPublicKey :> "key"], c5 |-> [Signs("catalog", "m5") EXCEPT !.publicBytes = 31],
   c6 |-> [Signs("catalog", "m6") EXCEPT !.granted = FALSE]]
MCCaller == [id |-> "caller", key |-> "ck", alg |-> -8]
MCOtherCaller == [id |-> "other", key |-> "ok", alg |-> -7]
MCBrokerKey == [id |-> "broker", key |-> "bk", alg |-> -8]
MCBrokerBox == [id |-> "bx", public |-> "bxp"]
MCResponseBox == [id |-> "rx", public |-> "rxp"]

(* Every length has one accepted head, in both decoders. *)
ASSUME OneHead ==
  \A v \in {0, 23, 24, 255, 256, 65535, 65536, Edge32 - 1, Edge32} :
    LET fits == {w \in DOMAIN HeadRoom : v <= HeadRoom[w]}
    IN {w \in fits : ScanHead(w, v)} = {EncodeHead(v)} /\ {w \in fits : LenValue(w, v)} = {EncodeHead(v)}

(* What build_signed makes, verify_signed takes. *)
SignedHeaders ==
  LET claims == (Iat :> 0) @@ (Cti :> "id") IN
  {(ContentTypeL :> "t"), (ContentTypeL :> "t") @@ (Cwt :> claims),
   (ContentTypeL :> "t") @@ (Cwt :> claims) @@ (SenderKeyId :> "caller") @@ (Freshness :> "f"),
   (ContentTypeL :> "t") @@ (Cwt :> claims) @@ (SenderKeyId :> "other"),
   (ContentTypeL :> "t") @@ (Cwt :> claims) @@ (ResponseKeyId :> Bad)}
ASSUME SignedTaken ==
  \A h \in SignedHeaders : SignedBuildOk(h, MCCaller) = "ok" =>
    LET p == IF Cwt \in DOMAIN h THEN RequestParams(0) ELSE None IN
    VerifySigned(BuildSigned(h, "payload", (SignerPublicKey :> "key"), MCCaller), CallerKeys, p)
      = IF p = None THEN "ok" ELSE Validate(h, p)

(* "crowd" has one connection more than the courier serves; in "swap" the  *)
(* socket is replaced and put back during one call; "sign" has two         *)
(* calls with one response key, "ephemeral" one with its own and a carrier *)
(* that re-encodes, "refusals" calls that fail.                            *)
Scenes == {"http", "crowd", "swap", "nats", "sign", "ephemeral", "refusals"}
VARIABLE scene
Init ==
  /\ scene \in Scenes /\ HttpInit /\ NatsInit /\ RelayInit
  /\ scene # "http" => http.r2.head = Ask
  /\ scene # "nats" => setup = Federated
Next ==
  /\ \/ scene = "http" /\ HttpNext({"r1", "r2"}) /\ swaps' <= 1 /\ UNCHANGED <<natsVars, relayVars>>
     \/ scene = "swap" /\ HttpNext({"r1"}) /\ UNCHANGED <<natsVars, relayVars>>
     \/ scene = "crowd" /\ HttpNext(Requests) /\ swaps' <= 1 /\ UNCHANGED <<natsVars, relayVars>>
     \/ scene = "nats" /\ NatsNext /\ UNCHANGED <<httpVars, relayVars>>
     \/ scene = "sign" /\ RelayNext({"c1", "c2"}, {}) /\ UNCHANGED courierVars
     \/ scene = "ephemeral" /\ RelayNext({"c3"}, RelayForms \ {"built"}) /\ UNCHANGED courierVars
     \/ scene = "refusals" /\ RelayNext({"c4", "c5", "c6"}, {}) /\ UNCHANGED courierVars
  /\ UNCHANGED scene
Spec == Init /\ [][Next]_<<scene, courierVars, relayVars>>
=============================================================================

------------------------------ MODULE Courier ------------------------------
(* The couriers that carry sealed invocations to a broker's local socket:  *)
(* the courier client (basil-courier), the HTTPS courier in front of it    *)
(* (basil-https-courier) and the NATS bridge with its lease                *)
(* (basil-nats-bridge).  Opaque messages are model values; a request is    *)
(* followed from the accepted connection to its answer, and every await is *)
(* a step at which a deadline, a broker restart or another request may     *)
(* intervene.                                                              *)
EXTENDS Integers, Sequences, FiniteSets

CONSTANTS Requests,      \* HTTP connections
          HeadsOf,       \* the requests each connection may send
          Config,        \* the HTTPS courier's configuration
          Policy,        \* the trusted socket: owner uids, modes, the expected peer
          Sockets,       \* the nodes the socket's path may name over time: their file, who listens, what it shows
          Shows,         \* the capabilities a started broker may show: [profile, challenge, version]
          Bridges,       \* NATS bridge processes
          Notes,         \* messages published on the bridges' subjects: [id, kind, reply, size]
          BridgeConfigs, \* the configurations they may be deployed with
          MaxTicks, MaxRestarts, MaxSwaps, MaxRevision   \* bounds of the model

VARIABLES http,      \* the connections: their request, stage, permits, answer, and what they connected to
          buckets,   \* token buckets: [global, sources]
          sock,      \* the node at the socket path, and the listener behind it
          broker,    \* [instance, shown, reached]
          ticks, swaps,
          lease,     \* the key of the lease bucket: [owner, rev, age] or no owner
          setup,     \* the bridges' configuration
          bridges,   \* the bridge processes
          posted,    \* messages published so far
          forwarded  \* pairs of a bridge and a message it handed to the broker

httpVars == <<http, buckets, sock, broker, ticks, swaps>>
natsVars == <<setup, lease, bridges, posted, forwarded>>
courierVars == <<httpVars, natsVars>>

NoOne == "no one"

(***************************************************************************)
(* Configuration.                                                          *)
(***************************************************************************)
ValidateLimit(value, maximum) == value # 0 /\ value <= maximum
LimitMaxima ==
  [challenge_body |-> 4096, invocation_request |-> 4194304, invocation_response |-> 4194304,
   header_count |-> 64, header_bytes |-> 32768, connections |-> 1024, in_flight |-> 256,
   source_buckets |-> 65536, per_source_rate |-> 1024, per_source_burst |-> 2048, global_rate |-> 4096,
   global_burst |-> 8192, io_deadline |-> 30, challenge_deadline |-> 30, invocation_deadline |-> 120]
LimitsValidate(limits) == \A l \in DOMAIN LimitMaxima : ValidateLimit(limits[l], LimitMaxima[l])
Writable(mode) == (mode \div 16) % 2 = 1 \/ (mode \div 2) % 2 = 1   \* by group or others
PolicyValidate(p) ==
  /\ p.path = "normal"
  /\ p.directory_mode <= 4095 /\ p.socket_mode <= 4095 /\ ~Writable(p.directory_mode)
  /\ p.directory_owner \in {0, p.service_owner}
  /\ p.socket_owner = p.expected_peer
ConfigValidate(c) ==
  /\ LimitsValidate(c.limits)
  /\ PolicyValidate(Policy)
  /\ c.listener = "proxy" => c.loopback /\ c.bearer # NoOne

(* The bridge's: federation is all of its fields or none, on its own       *)
(* subject; without it the bridge is a local one, in the legacy mode.      *)
BridgeValidate(b) ==
  /\ b.challenge_subject # b.request_subject
  /\ (b.challenge_subject # NoOne) = (b.source_partition # NoOne)
  /\ (b.challenge_subject # NoOne) = (b.lease_bucket # NoOne)
  /\ b.challenge_subject # NoOne => b.queue_group = NoOne
  /\ b.concurrency \in 1..256 /\ b.challenge_concurrency \in 1..256 /\ b.max_message \in 1..4194304

ASSUME CourierAssumption ==
  /\ ConfigValidate(Config) /\ \A b \in BridgeConfigs : BridgeValidate(b)
  /\ NoOne \notin Bridges
  /\ {MaxTicks, MaxRestarts, MaxSwaps, MaxRevision} \subseteq Nat

(***************************************************************************)
(* What the courier tells its caller.                                      *)
(***************************************************************************)
CallErrors ==
  {"InvalidRequest", "CapabilityMismatch", "UnavailableBeforeForward", "UnavailableAfterForward",
   "DeadlineBeforeForward", "DeadlineAfterForward", "ChallengeDeclined", "BrokerRejected"}
Retryable(error) == error \in {"UnavailableBeforeForward", "DeadlineBeforeForward", "ChallengeDeclined"}
Problem(code, retryable) == [code |-> code, retryable |-> retryable]
Malformed == Problem("MALFORMED_REQUEST", FALSE)
Unauthenticated == Problem("UNAUTHENTICATED", FALSE)
NotFound == Problem("NOT_FOUND", FALSE)
MethodNotAllowed == Problem("METHOD_NOT_ALLOWED", FALSE)
TooLarge == Problem("MESSAGE_TOO_LARGE", FALSE)
UnsupportedMedia == Problem("UNSUPPORTED_MEDIA_TYPE", FALSE)
Overloaded == Problem("OVERLOADED", TRUE)
Internal == Problem("INTERNAL", FALSE)
TimeoutBefore == Problem("TIMEOUT", TRUE)
Success == Problem("OK", FALSE)
CodeOf(error) ==
  CASE error = "InvalidRequest" -> "MALFORMED_REQUEST"
    [] error = "CapabilityMismatch" -> "CAPABILITY_MISMATCH"
    [] error \in {"UnavailableBeforeForward", "UnavailableAfterForward"} -> "BASIL_UNAVAILABLE"
    [] error \in {"DeadlineBeforeForward", "DeadlineAfterForward"} -> "TIMEOUT"
    [] error = "ChallengeDeclined" -> "CHALLENGE_ISSUANCE_DECLINED"
    [] OTHER -> "BASIL_REJECTED"
FromCourier(error) == Problem(CodeOf(error), Retryable(error))

ClassifyPreForward(status) ==
  CASE status = "DeadlineExceeded" -> "DeadlineBeforeForward"
    [] status = "Unavailable" -> "UnavailableBeforeForward"
    [] OTHER -> "CapabilityMismatch"
ClassifyChallenge(status) ==
  CASE status = "Declined" -> "ChallengeDeclined"
    [] status = "DeadlineExceeded" -> "DeadlineBeforeForward"
    [] status = "Unavailable" -> "UnavailableBeforeForward"
    [] status = "InvalidArgument" -> "InvalidRequest"
    [] OTHER -> "BrokerRejected"
(* A bug: a lost broker reported as if nothing had been forwarded. *)
ClassifyInvoke_Before(status) ==
  CASE status = "DeadlineExceeded" -> "DeadlineAfterForward"
    [] status = "Unavailable" -> "UnavailableBeforeForward"
    [] OTHER -> "BrokerRejected"
ClassifyInvoke(status) ==
  CASE status = "DeadlineExceeded" -> "DeadlineAfterForward"
    [] status = "Unavailable" -> "UnavailableAfterForward"
    [] OTHER -> "BrokerRejected"
Classify(route, status) == IF route = "challenge" THEN ClassifyChallenge(status) ELSE ClassifyInvoke(status)

(***************************************************************************)
(* Rates: a bucket is [tokens, last]; time is counted in whole ticks.      *)
(***************************************************************************)
NewBucket(burst, now) == [tokens |-> burst, last |-> now]
Least(a, b) == IF a <= b THEN a ELSE b
Refilled(b, rate, burst, now) == Least(b.tokens + rate * (now - b.last), burst)
Available(b, rate, burst, now, reserve) == Refilled(b, rate, burst, now) >= reserve + 1
Consume(b, rate, burst, now) == [tokens |-> Refilled(b, rate, burst, now) - 1, last |-> now]

(* A challenge leaves one token, one source slot and one forwarding slot   *)
(* to invocations.                                                         *)
L == Config.limits
Admit(route, source, now) ==
  LET reserve == IF route = "challenge" THEN 1 ELSE 0
      slots == IF route = "challenge" THEN L.source_buckets - 1 ELSE L.source_buckets
      known == source \in DOMAIN buckets.sources
      mine == IF known THEN buckets.sources[source] ELSE NewBucket(L.per_source_burst, now)
  IN /\ known \/ Cardinality(DOMAIN buckets.sources) < slots
     /\ Available(mine, L.per_source_rate, L.per_source_burst, now, reserve)
     /\ Available(buckets.global, L.global_rate, L.global_burst, now, reserve)
Charged(source, now) ==
  LET mine == IF source \in DOMAIN buckets.sources THEN buckets.sources[source]
              ELSE NewBucket(L.per_source_burst, now)
  IN [global |-> Consume(buckets.global, L.global_rate, L.global_burst, now),
      sources |-> [s \in DOMAIN buckets.sources \cup {source} |->
                     IF s = source THEN Consume(mine, L.per_source_rate, L.per_source_burst, now)
                     ELSE buckets.sources[s]]]
Holding(route) == {r \in Requests : http[r].slot /\ http[r].head.route = route}
(* The two semaphores of ForwardAdmission. *)
ForwardRoom(route) ==
  /\ Cardinality(Holding("challenge") \cup Holding("invoke")) < L.in_flight
  /\ route = "challenge" => Cardinality(Holding("challenge")) < L.in_flight - 1

OverloadSlots == IF L.connections > 1 /\ Config.listener = "proxy" THEN 1 ELSE 0
RequestSlots == L.connections - OverloadSlots
Connected(kind) == {r \in Requests : http[r].conn = kind}

(***************************************************************************)
(* One HTTP request.                                                       *)
(***************************************************************************)
ReadRequestHead(h) ==
  IF h.size = "large" THEN TooLarge
  ELSE IF h.target # "origin" THEN Malformed
  ELSE Success
ValidateHeaders(h) ==
  IF h.count > L.header_count THEN TooLarge
  ELSE IF h.framing \in {"chunked", "upgrade"} THEN Malformed
  ELSE Success
DeriveSource(h) ==
  IF Config.listener = "direct"
  THEN IF h.forwarded \/ h.source # NoOne THEN NoOne ELSE h.peer
  ELSE IF h.forwarded \/ h.source \in {"bad", "twice"} THEN NoOne ELSE h.source
ClassifyRoute(h) ==
  IF h.route \notin {"challenge", "invoke"} THEN NotFound
  ELSE IF h.method # "POST" THEN MethodNotAllowed
  ELSE Success
ValidateMedia(h) ==
  IF h.encoded THEN UnsupportedMedia
  ELSE IF h.type # (IF h.route = "challenge" THEN "protobuf" ELSE "cose") THEN UnsupportedMedia
  ELSE IF h.length < 0 THEN Malformed
  ELSE IF h.length > (IF h.route = "challenge" THEN L.challenge_body ELSE L.invocation_request) THEN TooLarge
  ELSE Success
VerifyBearer(h) == IF Config.bearer = NoOne \/ h.auth = Config.bearer THEN Success ELSE Unauthenticated
PrepareRequest(h) ==
  IF ReadRequestHead(h) # Success THEN ReadRequestHead(h)
  ELSE IF ValidateHeaders(h) # Success THEN ValidateHeaders(h)
  ELSE IF DeriveSource(h) = NoOne THEN Malformed
  ELSE IF VerifyBearer(h) # Success THEN VerifyBearer(h)
  ELSE IF ClassifyRoute(h) # Success THEN ClassifyRoute(h)
  ELSE ValidateMedia(h)

Fresh(h) == [head |-> h, stage |-> "new", conn |-> NoOne, slot |-> FALSE, problem |-> Success, instance |-> 0, opened |-> NoOne,
             node |-> NoOne]
Answered(r, problem) ==
  http' = [http EXCEPT ![r].stage = "write", ![r].slot = FALSE, ![r].problem = problem]
Goes(r, stage) == http' = [http EXCEPT ![r].stage = stage]
AtStage(r, stage) == http[r].stage = stage

(* The answer is written, within the deadline, before the connection's     *)
(* permit is released.                                                     *)
WriteResponse(r) ==
  /\ AtStage(r, "write")
  /\ http' = [http EXCEPT ![r].stage = "done", ![r].conn = NoOne]
  /\ UNCHANGED <<buckets, sock, broker, ticks, swaps>>

(* Accept: a connection permit, or one overload slot for the trusted proxy *)
(* to tell the caller it is refused; otherwise the socket is closed.       *)
Accept(r) ==
  /\ AtStage(r, "new")
  /\ \/ /\ Config.listener = "proxy" /\ ~http[r].head.trusted
        /\ Cardinality(Connected("request")) < RequestSlots
        /\ Goes(r, "closed")
     \/ /\ Config.listener = "proxy" => http[r].head.trusted
        /\ Cardinality(Connected("request")) < RequestSlots
        /\ http' = [http EXCEPT ![r].stage = "head", ![r].conn = "request"]
     \/ /\ Cardinality(Connected("request")) >= RequestSlots
        /\ IF http[r].head.trusted /\ Cardinality(Connected("overload")) < OverloadSlots
           THEN http' = [http EXCEPT ![r].stage = "refuse", ![r].conn = "overload"]
           ELSE Goes(r, "closed")
  /\ UNCHANGED <<buckets, sock, broker, ticks, swaps>>
(* The refused connection is drained, within the deadline, and answered. *)
Refuse(r) ==
  /\ AtStage(r, "refuse")
  /\ \/ ReadRequestHead(http[r].head) = Success /\ http[r].head.length >= 0 /\ Answered(r, Overloaded)
     \/ http' = [http EXCEPT ![r].stage = "closed", ![r].conn = NoOne]
  /\ UNCHANGED <<buckets, sock, broker, ticks, swaps>>

ServeHead(r) ==
  /\ AtStage(r, "head")
  /\ \/ Answered(r, TimeoutBefore) /\ UNCHANGED buckets
     \/ /\ PrepareRequest(http[r].head) # Success
        /\ Answered(r, PrepareRequest(http[r].head)) /\ UNCHANGED buckets
     \/ /\ PrepareRequest(http[r].head) = Success
        /\ LET route == http[r].head.route
               source == DeriveSource(http[r].head)
           IN IF ForwardRoom(route) /\ Admit(route, source, ticks)
              THEN /\ http' = [http EXCEPT ![r].stage = "body", ![r].slot = TRUE]
                   /\ buckets' = Charged(source, ticks)
              ELSE Answered(r, Overloaded) /\ UNCHANGED buckets
  /\ UNCHANGED <<sock, broker, ticks, swaps>>

(* A challenge's body is decoded here; it must not name a source itself. *)
ServeBody(r) ==
  /\ AtStage(r, "body")
  /\ \/ Answered(r, TimeoutBefore)
     \/ /\ http[r].head.body = "short" /\ Answered(r, Malformed)
     \/ /\ http[r].head.body = "undecodable" /\ http[r].head.route = "challenge" /\ Answered(r, Malformed)
     \/ /\ ~(http[r].head.body = "short" \/ (http[r].head.body = "undecodable" /\ http[r].head.route = "challenge"))
        /\ Goes(r, "connect")
  /\ UNCHANGED <<buckets, sock, broker, ticks, swaps>>

(***************************************************************************)
(* The courier client's call: a verified connection, the capabilities of   *)
(* the listener behind it, and the operation on that same connection.      *)
(***************************************************************************)
OpenVerifiedPath(s) ==
  /\ s.ancestors = "owned"
  /\ s.dir_uid = Policy.directory_owner /\ s.dir_mode = Policy.directory_mode
  /\ s.kind = "socket" /\ s.uid = Policy.socket_owner /\ s.mode = Policy.socket_mode
Fails(r, error) == Answered(r, FromCourier(error))
(* The deadline covers every await of the call. *)
DeadlineBefore(r) ==
  /\ http[r].stage \in {"connect", "opened", "connected", "checked"}
  /\ Fails(r, "DeadlineBeforeForward")
  /\ UNCHANGED <<buckets, sock, broker, ticks, swaps>>
ConnectOpen(r) ==
  /\ AtStage(r, "connect")
  /\ IF OpenVerifiedPath(sock)
     THEN http' = [http EXCEPT ![r].stage = "opened", ![r].opened = sock.id]
     ELSE Fails(r, "UnavailableBeforeForward")
  /\ UNCHANGED <<buckets, sock, broker, ticks, swaps>>
(* connect() goes through the pinned directory: to whatever node is there, *)
(* and to whoever listens on it.                                           *)
ConnectSocket(r) ==
  /\ AtStage(r, "opened")
  /\ IF sock.listening
     THEN http' = [http EXCEPT ![r].stage = "connected", ![r].node = sock, ![r].instance = broker.instance]
     ELSE Fails(r, "UnavailableBeforeForward")
  /\ UNCHANGED <<buckets, sock, broker, ticks, swaps>>
(* The path is looked at again; the peer is the connected stream's. *)
VerifyAfterConnect(r) ==
  OpenVerifiedPath(sock) /\ sock.id = http[r].opened /\ http[r].node.peer = Policy.expected_peer
ConnectVerify(r) ==
  /\ AtStage(r, "connected")
  /\ IF VerifyAfterConnect(r) THEN Goes(r, "checked") ELSE Fails(r, "UnavailableBeforeForward")
  /\ UNCHANGED <<buckets, sock, broker, ticks, swaps>>
ProtocolVersion == 1
CapabilitiesOk(shown) == shown.profile = "courier" /\ shown.challenge /\ shown.version = ProtocolVersion
(* What the listener at the other end of the connection is, and whether it *)
(* is still there: the broker, or another process on another node.         *)
Shown(r) == IF http[r].node.broker THEN broker.shown ELSE http[r].node.shown
Live(r) == http[r].node.broker => http[r].instance = broker.instance
Capabilities(r) ==
  /\ AtStage(r, "checked")
  /\ IF ~Live(r) THEN Fails(r, ClassifyPreForward("Unavailable"))
     ELSE IF ~CapabilitiesOk(Shown(r)) THEN Fails(r, "CapabilityMismatch")
     ELSE Goes(r, "forward")
  /\ UNCHANGED <<buckets, sock, broker, ticks, swaps>>
(* The channel's connector works once: a broken connection is not replaced *)
(* by one whose listener was never checked.                                *)
Reconnects == FALSE
Forward(r) ==
  /\ AtStage(r, "forward")
  /\ \/ /\ Live(r) \/ Reconnects
        /\ Goes(r, "waiting")
        /\ broker' = [broker EXCEPT !.reached = @ \cup {[req |-> r, peer |-> http[r].node.peer, shown |-> Shown(r)]}]
     \/ ~Live(r) /\ ~Reconnects /\ Fails(r, Classify(http[r].head.route, "Unavailable")) /\ UNCHANGED broker
     \/ Fails(r, Classify(http[r].head.route, "DeadlineExceeded")) /\ UNCHANGED broker
  /\ UNCHANGED <<buckets, sock, ticks, swaps>>
(* The broker's answer, or the deadline, or the broker's end. *)
Reply(r) ==
  /\ AtStage(r, "waiting")
  /\ \/ /\ Live(r)
        /\ Answered(r, IF http[r].head.answer = "large" /\ http[r].head.route = "invoke" THEN TooLarge
                       ELSE IF http[r].head.answer # "ok" THEN Internal
                       ELSE Success)
     \/ \E status \in {"Declined", "InvalidArgument", "PermissionDenied"} :
          /\ Live(r) /\ (status = "Declined" => http[r].head.route = "challenge")
          /\ Fails(r, Classify(http[r].head.route, status))
     \/ ~Live(r) /\ Fails(r, Classify(http[r].head.route, "Unavailable"))
     \/ Fails(r, Classify(http[r].head.route, "DeadlineExceeded"))
  /\ UNCHANGED <<buckets, sock, broker, ticks, swaps>>

(* The broker restarts, possibly with another listener profile, and binds  *)
(* its path anew unless something else is there.                           *)
Restart(shown) ==
  /\ broker.instance < MaxRestarts
  /\ broker' = [broker EXCEPT !.instance = @ + 1, !.shown = shown]
  /\ sock' \in IF sock.broker THEN {n \in Sockets : n.broker} ELSE {sock}
  /\ UNCHANGED <<http, buckets, ticks, swaps>>
Swap(node) ==
  /\ swaps < MaxSwaps /\ node # sock
  /\ sock' = node /\ swaps' = swaps + 1
  /\ UNCHANGED <<http, buckets, broker, ticks>>
Tick ==
  /\ ticks < MaxTicks /\ ticks' = ticks + 1
  /\ UNCHANGED <<http, buckets, sock, broker, swaps>>

HttpInit ==
  /\ http \in {f \in [Requests -> {Fresh(h) : h \in UNION {HeadsOf[r] : r \in Requests}}] :
               \A r \in Requests : f[r].head \in HeadsOf[r]}
  /\ buckets = [global |-> NewBucket(L.global_burst, 0), sources |-> << >>]
  /\ sock \in Sockets /\ OpenVerifiedPath(sock) /\ sock.broker /\ sock.peer = Policy.expected_peer
  /\ \E shown \in Shows : CapabilitiesOk(shown) /\ broker = [instance |-> 0, shown |-> shown, reached |-> {}]
  /\ ticks = 0 /\ swaps = 0
HttpNext(active) ==
  \/ \E r \in active :
       \/ Accept(r) \/ WriteResponse(r) \/ Refuse(r) \/ ServeHead(r) \/ ServeBody(r) \/ DeadlineBefore(r) \/ ConnectOpen(r)
       \/ ConnectSocket(r) \/ ConnectVerify(r) \/ Capabilities(r) \/ Forward(r) \/ Reply(r)
  \/ \E shown \in Shows : Restart(shown)
  \/ \E n \in Sockets : Swap(n)
  \/ Tick

(***************************************************************************)
(* The NATS bridges.  The bucket keeps one revision of the lease and drops *)
(* it when it has not been renewed for its maximum age.  A local bridge    *)
(* has no lease and no challenges; it may be a member of a queue group.    *)
(***************************************************************************)
LeaseMaxAge == 3
LeaseRenewInterval == 1
Leased == setup.lease_bucket # NoOne
Free == [owner |-> NoOne, rev |-> lease.rev, age |-> 0]
LeaseAcquire(b) ==
  /\ Leased /\ bridges[b].st = "down" /\ lease.owner = NoOne
  /\ lease' = [owner |-> b, rev |-> lease.rev + 1, age |-> 0]
  /\ bridges' = [bridges EXCEPT ![b].st = "leased", ![b].rev = lease.rev + 1]
  /\ UNCHANGED <<posted, forwarded>>
Subscribe(b) ==
  /\ bridges[b].st = (IF Leased THEN "leased" ELSE "down")
  /\ bridges' = [bridges EXCEPT ![b].st = "up"]
  /\ UNCHANGED <<lease, posted, forwarded>>
Holds(b) == lease.owner = b /\ lease.rev = bridges[b].rev
Renewed(b) == [owner |-> b, rev |-> lease.rev + 1, age |-> 0]
(* Every worker is aborted before the process ends. *)
Dead == [st |-> "dead", rev |-> 0, inbox |-> << >>, tasks |-> {}]
Terminate(b) == bridges' = [bridges EXCEPT ![b] = Dead]
(* A subject delivers to every subscriber, or to one of a queue group. *)
Subscribers(n) ==
  {b \in Bridges : bridges[b].st = "up" /\ (n.kind = "challenge" => setup.challenge_subject # NoOne)}
Deliveries(n) ==
  IF setup.queue_group # NoOne /\ Subscribers(n) # {} THEN {{b} : b \in Subscribers(n)} ELSE {Subscribers(n)}
Publish(n) ==
  /\ n \notin posted
  /\ posted' = posted \cup {n}
  /\ \E to \in Deliveries(n) :
       bridges' = [b \in Bridges |-> IF b \in to THEN [bridges[b] EXCEPT !.inbox = Append(@, n)] ELSE bridges[b]]
  /\ UNCHANGED <<lease, forwarded>>
Overfull(b, n) ==
  Cardinality({t \in bridges[b].tasks : t.kind = n.kind})
    >= (IF n.kind = "challenge" THEN setup.challenge_concurrency ELSE setup.concurrency)
(* What a worker refuses without the broker. *)
Refused(n) ==
  ~n.reply \/ n.size > (IF n.kind = "challenge" THEN 4096 ELSE setup.max_message)
(* A lease is renewed for every message, before its worker is spawned. *)
TakeAdmits_Unleased(b) == TRUE
TakeAdmits(b) == Leased => Holds(b)
Take(b) ==
  /\ bridges[b].st = "up" /\ bridges[b].inbox # << >>
  /\ LET n == Head(bridges[b].inbox)
         rest == [bridges[b] EXCEPT !.inbox = Tail(@)]
     IN IF Overfull(b, n)
        THEN bridges' = [bridges EXCEPT ![b] = rest] /\ UNCHANGED lease
        ELSE IF TakeAdmits(b)
             THEN /\ bridges' = [bridges EXCEPT ![b] = [rest EXCEPT !.tasks = @ \cup {n},
                                                                  !.rev = IF Holds(b) THEN lease.rev + 1 ELSE @]]
                  /\ lease' = IF Holds(b) THEN Renewed(b) ELSE lease
             ELSE Terminate(b) /\ UNCHANGED lease
  /\ UNCHANGED <<posted, forwarded>>
(* A renewal fails - one that the server applied may still be reported so - *)
(* or a worker panics, or the subscription ends.                           *)
RenewFails(b) ==
  /\ bridges[b].st = "up"
  /\ Terminate(b)
  /\ lease' \in {lease} \cup (IF Holds(b) THEN {Renewed(b)} ELSE {})
  /\ UNCHANGED <<posted, forwarded>>
Heartbeat(b) ==
  /\ Leased /\ bridges[b].st = "up"
  /\ lease.owner = b => lease.age >= LeaseRenewInterval
  /\ IF Holds(b) THEN lease' = Renewed(b) /\ bridges' = [bridges EXCEPT ![b].rev = lease.rev + 1]
     ELSE Terminate(b) /\ UNCHANGED lease
  /\ UNCHANGED <<posted, forwarded>>
WorkerForwards(b, n) ==
  /\ n \in bridges[b].tasks /\ <<b, n>> \notin forwarded /\ ~Refused(n)
  /\ forwarded' = forwarded \cup {<<b, n>>}
  /\ UNCHANGED <<lease, bridges, posted>>
WorkerReplies(b, n) ==
  /\ n \in bridges[b].tasks /\ (<<b, n>> \in forwarded \/ Refused(n))
  /\ bridges' = [bridges EXCEPT ![b].tasks = @ \ {n}]
  /\ UNCHANGED <<lease, posted, forwarded>>
Shutdown(b) ==
  /\ bridges[b].st = "up"
  /\ Terminate(b)
  /\ lease' = IF Holds(b) THEN [Free EXCEPT !.rev = @ + 1] ELSE lease
  /\ UNCHANGED <<posted, forwarded>>
Respawn(b) ==
  /\ bridges[b].st = "dead"
  /\ bridges' = [bridges EXCEPT ![b].st = "down"]
  /\ UNCHANGED <<lease, posted, forwarded>>
LeaseAges ==
  /\ lease.owner # NoOne
  /\ lease' = IF lease.age < LeaseMaxAge THEN [lease EXCEPT !.age = @ + 1] ELSE Free
  /\ UNCHANGED <<bridges, posted, forwarded>>

NatsInit ==
  /\ setup \in BridgeConfigs
  /\ lease = [owner |-> NoOne, rev |-> 0, age |-> 0]
  /\ bridges = [b \in Bridges |-> [Dead EXCEPT !.st = "down"]]
  /\ posted = {} /\ forwarded = {}
NatsNext ==
  /\ \/ \E b \in Bridges :
          \/ (lease.rev < MaxRevision) /\ (LeaseAcquire(b) \/ Heartbeat(b) \/ Take(b) \/ RenewFails(b) \/ Shutdown(b))
          \/ Subscribe(b) \/ Respawn(b)
          \/ \E n \in Notes : WorkerForwards(b, n) \/ WorkerReplies(b, n)
     \/ \E n \in Notes : Publish(n)
     \/ LeaseAges
  /\ UNCHANGED setup

(* The couriers run apart. *)
HttpSpec == HttpInit /\ [][HttpNext(Requests)]_httpVars
NatsSpec == NatsInit /\ [][NatsNext]_natsVars

(***************************************************************************)
(* Properties.                                                             *)
(***************************************************************************)
(* An answer marked retryable means the sealed invocation never reached    *)
(* the broker: the caller may send the identical request again without     *)
(* running it twice (CourierCallError::retryable, "the identical public    *)
(* request is safe to retry").                                             *)
RetrySafe ==
  \A r \in Requests :
    /\ http[r].stage \in {"write", "done"} /\ http[r].problem.retryable /\ http[r].head.route = "invoke"
    => \A m \in broker.reached : m.req # r

(* Whoever receives an operation from the courier listens as the expected  *)
(* peer and is, when it receives it, a courier listener that requires      *)
(* challenges: a restart between the check and the call, or a socket       *)
(* replaced under the path between the look, the connect and the second    *)
(* look, never sends an operation to a listener that was not checked.      *)
CheckedListener ==
  \A m \in broker.reached : m.peer = Policy.expected_peer /\ CapabilitiesOk(m.shown)

(* A courier sends an operation only to a listener it has checked, and says *)
(* of an answer it lost whether the operation may have run.                *)
SubmissionSafe == RetrySafe /\ CheckedListener

(* Two bridges of one subject never forward the same message, whatever     *)
(* happens to the lease between a message's arrival and its worker, or, in *)
(* the legacy mode, when they share a queue group.  Legacy bridges without *)
(* a group all forward what they hear.                                     *)
OneForwarder ==
  Leased \/ setup.queue_group # NoOne =>
    \A n \in Notes : Cardinality({b \in Bridges : <<b, n>> \in forwarded}) <= 1
=============================================================================

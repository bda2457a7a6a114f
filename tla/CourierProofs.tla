--------------------------- MODULE CourierProofs ---------------------------
(***************************************************************************)
(* The couriers, for any number of connections, bridges and messages, any  *)
(* configuration that validates, and any number of broker restarts, socket *)
(* replacements and lease revisions; and the client whose sealed messages  *)
(* they carry, with the codec that both its ends use.                      *)
(***************************************************************************)
EXTENDS Courier, Relay, FiniteSetTheorems, SequenceTheorems, FunctionTheorems, TLAPS

-----------------------------------------------------------------------------
(* The HTTPS courier.                                                      *)

Reached(r) == \E m \in broker.reached : m.req = r

HttpStages ==
  {"new", "head", "refuse", "closed", "body", "connect", "opened", "connected", "checked",
   "forward", "waiting", "write", "done"}
HttpTypeOK ==
  /\ DOMAIN http = Requests
  /\ \A r \in Requests :
       /\ DOMAIN http[r] = {"head", "stage", "conn", "slot", "problem", "instance", "opened", "node"}
       /\ http[r].stage \in HttpStages /\ http[r].instance \in Nat
  /\ DOMAIN broker = {"instance", "shown", "reached"}
  /\ broker.instance \in Nat

(* A connection is never of a later process than the one that runs, one    *)
(* that was verified is to the expected peer, and a listener that was      *)
(* found to be a courier's is one while the connection lives.              *)
ConnectionKnown ==
  \A r \in Requests :
    /\ http[r].instance <= broker.instance
    /\ http[r].stage \in {"checked", "forward"} => http[r].node.peer = Policy.expected_peer
    /\ http[r].stage = "forward" /\ Live(r) => CapabilitiesOk(Shown(r))

(* What has reached the broker waits for its answer, or has one that does  *)
(* not invite the caller to try again.                                     *)
ForwardKnown ==
  \A r \in Requests : Reached(r) =>
    /\ http[r].stage \in {"waiting", "write", "done"}
    /\ http[r].stage # "waiting" /\ http[r].head.route = "invoke" => ~http[r].problem.retryable

HttpInv == HttpTypeOK /\ ConnectionKnown /\ ForwardKnown /\ CheckedListener

(* Once an invocation may have been forwarded no error is retryable. *)
LEMMA InvokeErrorsFinal ==
  ASSUME NEW status \in {"Unavailable", "DeadlineExceeded", "InvalidArgument", "PermissionDenied"}
  PROVE  ~FromCourier(Classify("invoke", status)).retryable
  BY DEF FromCourier, Classify, ClassifyInvoke, Problem, Retryable

(* The initial states of the courier satisfy the invariant. *)
LEMMA HttpInitInv == HttpInit => HttpInv
  BY DEF HttpInit, HttpInv, HttpTypeOK, HttpStages, ConnectionKnown, ForwardKnown, Reached,
         CheckedListener, Fresh

(* What an assignment to fields of one connection changes. *)
Touches(r) ==
  /\ DOMAIN http' = Requests
  /\ \A q \in Requests : q # r => http'[q] = http[q]
  /\ DOMAIN http'[r] = DOMAIN http[r] /\ http'[r].head = http[r].head

LEMMA AnsweredTouches ==
  ASSUME HttpTypeOK, NEW r \in Requests, NEW problem, Answered(r, problem)
  PROVE  /\ Touches(r)
         /\ http'[r].stage = "write" /\ http'[r].problem = problem
         /\ http'[r].instance = http[r].instance /\ http'[r].node = http[r].node
  BY DEF HttpTypeOK, Answered, Touches

LEMMA GoesTouches ==
  ASSUME HttpTypeOK, NEW r \in Requests, NEW s, Goes(r, s)
  PROVE  /\ Touches(r)
         /\ http'[r].stage = s /\ http'[r].problem = http[r].problem
         /\ http'[r].instance = http[r].instance /\ http'[r].node = http[r].node
  BY DEF HttpTypeOK, Goes, Touches

(* A step of one connection, before its call is sent, that leaves the      *)
(* broker alone.                                                           *)
LEMMA EarlyStep ==
  ASSUME HttpInv, NEW r \in Requests, broker' = broker, Touches(r),
         http[r].stage \notin {"waiting", "write", "done"},
         http'[r].stage \in HttpStages, http'[r].instance \in Nat,
         http'[r].instance <= broker.instance,
         http'[r].stage \in {"checked", "forward"} => http'[r].node.peer = Policy.expected_peer,
         http'[r].stage = "forward" /\ Live(r)' => CapabilitiesOk(Shown(r)')
  PROVE  HttpInv'
<1>1. ~Reached(r)
  BY DEF HttpInv, ForwardKnown
<1>2. HttpTypeOK'
  BY DEF HttpInv, HttpTypeOK, Touches
<1>3. ConnectionKnown'
  BY DEF HttpInv, HttpTypeOK, ConnectionKnown, Touches, Live, Shown
<1>4. ForwardKnown'
  BY <1>1 DEF HttpInv, HttpTypeOK, ForwardKnown, Reached, Touches
<1> QED
  BY <1>2, <1>3, <1>4 DEF HttpInv, CheckedListener

(* A step that gives up before the call is sent. *)
LEMMA EarlyAnswer ==
  ASSUME HttpInv, NEW r \in Requests, broker' = broker, NEW problem, Answered(r, problem),
         http[r].stage \notin {"waiting", "write", "done"}
  PROVE  HttpInv'
<1>1. HttpTypeOK /\ http[r].instance <= broker.instance
  BY DEF HttpInv, ConnectionKnown
<1>2. Touches(r) /\ http'[r].stage = "write" /\ http'[r].instance = http[r].instance
  BY <1>1, AnsweredTouches
<1> QED
  BY <1>1, <1>2, EarlyStep DEF HttpTypeOK, HttpStages

(* A step that gets further, up to the check of the listener. *)
LEMMA EarlyGoes ==
  ASSUME HttpInv, NEW r \in Requests, broker' = broker, NEW s \in HttpStages, Goes(r, s),
         http[r].stage \notin {"waiting", "write", "done"},
         s \in {"checked", "forward"} => http[r].node.peer = Policy.expected_peer,
         s = "forward" /\ Live(r) => CapabilitiesOk(Shown(r))
  PROVE  HttpInv'
<1>1. HttpTypeOK /\ http[r].instance <= broker.instance
  BY DEF HttpInv, ConnectionKnown
<1>2. /\ Touches(r) /\ http'[r].stage = s /\ http'[r].instance = http[r].instance
      /\ http'[r].node = http[r].node
  BY <1>1, GoesTouches
<1>3. (Live(r)' <=> Live(r)) /\ Shown(r)' = Shown(r)
  BY <1>2 DEF Live, Shown
<1> QED
  BY <1>1, <1>2, <1>3, EarlyStep DEF HttpTypeOK

(* A step after the call that ends with an answer: not a retryable one for *)
(* an invocation that was sent.                                            *)
LEMMA LateAnswer ==
  ASSUME HttpInv, NEW r \in Requests, broker' = broker, NEW problem, Answered(r, problem),
         Reached(r) /\ http[r].head.route = "invoke" => ~problem.retryable
  PROVE  HttpInv'
<1>1. HttpTypeOK
  BY DEF HttpInv
<1>2. /\ Touches(r) /\ http'[r].stage = "write" /\ http'[r].problem = problem
      /\ http'[r].instance = http[r].instance
  BY <1>1, AnsweredTouches
<1>3. HttpTypeOK'
  BY <1>2 DEF HttpInv, HttpTypeOK, HttpStages, Touches
<1>4. ConnectionKnown'
  BY <1>2 DEF HttpInv, HttpTypeOK, ConnectionKnown, Touches, Live, Shown
<1>5. ForwardKnown'
  BY <1>2 DEF HttpInv, HttpTypeOK, ForwardKnown, Reached, Touches
<1> QED
  BY <1>3, <1>4, <1>5 DEF HttpInv, CheckedListener

-----------------------------------------------------------------------------
(* Every step keeps the invariant. *)

LEMMA AcceptInv ==
  ASSUME HttpInv, NEW r \in Requests, Accept(r) PROVE HttpInv'
<1>1. CASE Goes(r, "closed")
  BY <1>1, EarlyGoes DEF Accept, AtStage, HttpStages
<1>2. ASSUME NEW s \in {"head", "refuse"}, NEW conn,
             http' = [http EXCEPT ![r].stage = s, ![r].conn = conn]
      PROVE  HttpInv'
  <2>1. Touches(r) /\ http'[r].stage = s /\ http'[r].instance = http[r].instance
    BY <1>2 DEF HttpInv, HttpTypeOK, Touches
  <2>2. http[r].instance \in Nat /\ http[r].instance <= broker.instance
    BY DEF HttpInv, HttpTypeOK, ConnectionKnown
  <2> QED
    BY <2>1, <2>2, EarlyStep DEF Accept, AtStage, HttpStages
<1> QED
  BY <1>1, <1>2 DEF Accept

LEMMA RefuseInv ==
  ASSUME HttpInv, NEW r \in Requests, Refuse(r) PROVE HttpInv'
<1>1. CASE Answered(r, Overloaded)
  BY <1>1, EarlyAnswer DEF Refuse, AtStage
<1>2. CASE http' = [http EXCEPT ![r].stage = "closed", ![r].conn = NoOne]
  <2>1. Touches(r) /\ http'[r].stage = "closed" /\ http'[r].instance = http[r].instance
    BY <1>2 DEF HttpInv, HttpTypeOK, Touches
  <2>2. http[r].instance \in Nat /\ http[r].instance <= broker.instance
    BY DEF HttpInv, HttpTypeOK, ConnectionKnown
  <2> QED
    BY <2>1, <2>2, EarlyStep DEF Refuse, AtStage, HttpStages
<1> QED
  BY <1>1, <1>2 DEF Refuse

LEMMA ServeHeadInv ==
  ASSUME HttpInv, NEW r \in Requests, ServeHead(r) PROVE HttpInv'
<1>0. http[r].stage = "head" /\ broker' = broker
  BY DEF ServeHead, AtStage
<1>1. ASSUME NEW problem, Answered(r, problem) PROVE HttpInv'
  BY <1>0, <1>1, EarlyAnswer
<1>2. CASE http' = [http EXCEPT ![r].stage = "body", ![r].slot = TRUE]
  <2>1. Touches(r) /\ http'[r].stage = "body" /\ http'[r].instance = http[r].instance
    BY <1>2 DEF HttpInv, HttpTypeOK, Touches
  <2>2. http[r].instance \in Nat /\ http[r].instance <= broker.instance
    BY DEF HttpInv, HttpTypeOK, ConnectionKnown
  <2> QED
    BY <1>0, <2>1, <2>2, EarlyStep DEF HttpStages
<1> QED
  BY <1>1, <1>2 DEF ServeHead

LEMMA ServeBodyInv ==
  ASSUME HttpInv, NEW r \in Requests, ServeBody(r) PROVE HttpInv'
<1>0. http[r].stage = "body" /\ broker' = broker
  BY DEF ServeBody, AtStage
<1>1. ASSUME NEW problem, Answered(r, problem) PROVE HttpInv'
  BY <1>0, <1>1, EarlyAnswer
<1>2. CASE Goes(r, "connect")
  BY <1>0, <1>2, EarlyGoes DEF HttpStages
<1> QED
  BY <1>1, <1>2 DEF ServeBody

LEMMA DeadlineBeforeInv ==
  ASSUME HttpInv, NEW r \in Requests, DeadlineBefore(r) PROVE HttpInv'
  BY EarlyAnswer DEF DeadlineBefore, Fails

LEMMA ConnectOpenInv ==
  ASSUME HttpInv, NEW r \in Requests, ConnectOpen(r) PROVE HttpInv'
<1>0. http[r].stage = "connect" /\ broker' = broker
  BY DEF ConnectOpen, AtStage
<1>1. CASE Fails(r, "UnavailableBeforeForward")
  BY <1>0, <1>1, EarlyAnswer DEF Fails
<1>2. CASE http' = [http EXCEPT ![r].stage = "opened", ![r].opened = sock.id]
  <2>1. Touches(r) /\ http'[r].stage = "opened" /\ http'[r].instance = http[r].instance
    BY <1>2 DEF HttpInv, HttpTypeOK, Touches
  <2>2. http[r].instance \in Nat /\ http[r].instance <= broker.instance
    BY DEF HttpInv, HttpTypeOK, ConnectionKnown
  <2> QED
    BY <1>0, <2>1, <2>2, EarlyStep DEF HttpStages
<1> QED
  BY <1>1, <1>2 DEF ConnectOpen

LEMMA ConnectSocketInv ==
  ASSUME HttpInv, NEW r \in Requests, ConnectSocket(r) PROVE HttpInv'
<1>0. http[r].stage = "opened" /\ broker' = broker
  BY DEF ConnectSocket, AtStage
<1>1. CASE Fails(r, "UnavailableBeforeForward")
  BY <1>0, <1>1, EarlyAnswer DEF Fails
<1>2. CASE http' = [http EXCEPT ![r].stage = "connected", ![r].node = sock, ![r].instance = broker.instance]
  <2>1. Touches(r) /\ http'[r].stage = "connected" /\ http'[r].instance = broker.instance
    BY <1>2 DEF HttpInv, HttpTypeOK, Touches
  <2>2. broker.instance \in Nat
    BY DEF HttpInv, HttpTypeOK
  <2> QED
    BY <1>0, <2>1, <2>2, EarlyStep DEF HttpStages
<1> QED
  BY <1>1, <1>2 DEF ConnectSocket

LEMMA ConnectVerifyInv ==
  ASSUME HttpInv, NEW r \in Requests, ConnectVerify(r) PROVE HttpInv'
<1>0. http[r].stage = "connected" /\ broker' = broker
  BY DEF ConnectVerify, AtStage
<1>1. CASE Fails(r, "UnavailableBeforeForward")
  BY <1>0, <1>1, EarlyAnswer DEF Fails
<1>2. CASE Goes(r, "checked") /\ http[r].node.peer = Policy.expected_peer
  BY <1>0, <1>2, EarlyGoes DEF HttpStages
<1> QED
  BY <1>1, <1>2 DEF ConnectVerify, VerifyAfterConnect

LEMMA CapabilitiesInv ==
  ASSUME HttpInv, NEW r \in Requests, Capabilities(r) PROVE HttpInv'
<1>0. http[r].stage = "checked" /\ broker' = broker
  BY DEF Capabilities, AtStage
<1>1. ASSUME NEW error, Fails(r, error) PROVE HttpInv'
  BY <1>0, <1>1, EarlyAnswer DEF Fails
<1>2. CASE Goes(r, "forward") /\ CapabilitiesOk(Shown(r))
  <2>1. http[r].node.peer = Policy.expected_peer
    BY <1>0 DEF HttpInv, ConnectionKnown
  <2> QED
    BY <1>0, <1>2, <2>1, EarlyGoes DEF HttpStages
<1>3. \/ \E error : Fails(r, error)
      \/ Goes(r, "forward") /\ CapabilitiesOk(Shown(r))
  <2>1. CASE ~Live(r)
    BY <2>1 DEF Capabilities
  <2>2. CASE Live(r) /\ ~CapabilitiesOk(Shown(r))
    BY <2>2 DEF Capabilities
  <2>3. CASE Live(r) /\ CapabilitiesOk(Shown(r))
    BY <2>3 DEF Capabilities
  <2> QED
    BY <2>1, <2>2, <2>3
<1> QED
  BY <1>1, <1>2, <1>3

LEMMA ForwardInv ==
  ASSUME HttpInv, NEW r \in Requests, Forward(r) PROVE HttpInv'
<1>0. http[r].stage = "forward"
  BY DEF Forward, AtStage
<1>1. ASSUME NEW error, Fails(r, error), broker' = broker PROVE HttpInv'
  BY <1>0, <1>1, EarlyAnswer DEF Fails
<1> DEFINE m == [req |-> r, peer |-> http[r].node.peer, shown |-> Shown(r)]
<1>2. ASSUME Live(r), Goes(r, "waiting"), broker' = [broker EXCEPT !.reached = @ \cup {m}]
      PROVE  HttpInv'
  <2>1. Touches(r) /\ http'[r].stage = "waiting" /\ http'[r].instance = http[r].instance
    BY <1>2, GoesTouches DEF HttpInv
  <2>2. /\ DOMAIN broker' = DOMAIN broker
        /\ broker'.instance = broker.instance /\ broker'.shown = broker.shown
        /\ broker'.reached = broker.reached \cup {m}
    BY <1>2 DEF HttpInv, HttpTypeOK
  <2>3. HttpTypeOK'
    BY <2>1, <2>2 DEF HttpInv, HttpTypeOK, HttpStages, Touches
  <2>4. ConnectionKnown'
    BY <2>1, <2>2 DEF HttpInv, HttpTypeOK, ConnectionKnown, Touches, Live, Shown
  <2>5. ASSUME NEW q \in Requests, q # r, Reached(q)' PROVE Reached(q) /\ http'[q] = http[q]
    BY <2>1, <2>2, <2>5 DEF Reached, Touches
  <2>6. ForwardKnown'
    BY <2>1, <2>5 DEF HttpInv, ForwardKnown
  <2>7. http[r].node.peer = Policy.expected_peer /\ CapabilitiesOk(Shown(r))
    BY <1>0, <1>2 DEF HttpInv, ConnectionKnown
  <2>8. CheckedListener'
    BY <2>2, <2>7 DEF HttpInv, CheckedListener
  <2> QED
    BY <2>3, <2>4, <2>6, <2>8 DEF HttpInv
<1> QED
  BY <1>1, <1>2 DEF Forward, Reconnects

LEMMA ReplyInv ==
  ASSUME HttpInv, NEW r \in Requests, Reply(r) PROVE HttpInv'
<1>0. broker' = broker
  BY DEF Reply
<1>1. ASSUME NEW problem \in {TooLarge, Internal, Success}, Answered(r, problem) PROVE HttpInv'
  <2>1. ~problem.retryable
    BY <1>1 DEF TooLarge, Internal, Success, Problem
  <2> QED
    BY <1>0, <1>1, <2>1, LateAnswer
<1>2. ASSUME NEW status \in {"Declined", "Unavailable", "DeadlineExceeded", "InvalidArgument",
                             "PermissionDenied"},
             status = "Declined" => http[r].head.route = "challenge",
             Fails(r, Classify(http[r].head.route, status))
      PROVE  HttpInv'
  <2>1. ASSUME http[r].head.route = "invoke"
        PROVE  ~FromCourier(Classify(http[r].head.route, status)).retryable
    BY <1>2, <2>1, InvokeErrorsFinal
  <2> QED
    BY <1>0, <1>2, <2>1, LateAnswer DEF Fails
<1>3. CASE Answered(r, IF http[r].head.answer = "large" /\ http[r].head.route = "invoke" THEN TooLarge
                       ELSE IF http[r].head.answer # "ok" THEN Internal
                       ELSE Success)
  <2> DEFINE p == IF http[r].head.answer = "large" /\ http[r].head.route = "invoke" THEN TooLarge
                  ELSE IF http[r].head.answer # "ok" THEN Internal
                  ELSE Success
  <2>1. p \in {TooLarge, Internal, Success}
    OBVIOUS
  <2> QED
    BY <1>1, <1>3, <2>1
<1> QED
  BY <1>2, <1>3 DEF Reply

LEMMA WriteResponseInv ==
  ASSUME HttpInv, NEW r \in Requests, WriteResponse(r) PROVE HttpInv'
<1>1. /\ Touches(r) /\ http'[r].stage = "done" /\ http'[r].problem = http[r].problem
      /\ http'[r].instance = http[r].instance /\ http'[r].node = http[r].node
      /\ http[r].stage = "write" /\ broker' = broker
  BY DEF WriteResponse, AtStage, HttpInv, HttpTypeOK, Touches
<1>2. HttpTypeOK'
  BY <1>1 DEF HttpInv, HttpTypeOK, HttpStages, Touches
<1>3. ConnectionKnown'
  BY <1>1 DEF HttpInv, HttpTypeOK, ConnectionKnown, Touches, Live, Shown
<1>4. ForwardKnown'
  BY <1>1 DEF HttpInv, HttpTypeOK, ForwardKnown, Reached, Touches
<1> QED
  BY <1>1, <1>2, <1>3, <1>4 DEF HttpInv, CheckedListener

LEMMA RestartInv ==
  ASSUME HttpInv, NEW p, Restart(p) PROVE HttpInv'
<1>1. /\ http' = http /\ DOMAIN broker' = DOMAIN broker
      /\ broker'.instance = broker.instance + 1 /\ broker'.reached = broker.reached
  BY DEF Restart, HttpInv, HttpTypeOK
<1>2. HttpTypeOK'
  BY <1>1 DEF HttpInv, HttpTypeOK
<1>3. ConnectionKnown'
  <2>1. ASSUME NEW r \in Requests
        PROVE  http[r].instance < broker'.instance /\ http[r].instance # broker'.instance
    BY <1>1 DEF HttpInv, HttpTypeOK, ConnectionKnown
  <2>2. ASSUME NEW r \in Requests, http[r].stage = "forward", Live(r)'
        PROVE  CapabilitiesOk(Shown(r)')
    <3>1. ~http[r].node.broker
      BY <1>1, <2>1, <2>2 DEF Live
    <3>2. Live(r) /\ Shown(r)' = Shown(r)
      BY <1>1, <3>1 DEF Live, Shown
    <3> QED
      BY <2>2, <3>2 DEF HttpInv, ConnectionKnown
  <2> QED
    BY <1>1, <2>1, <2>2 DEF HttpInv, HttpTypeOK, ConnectionKnown, CapabilitiesOk
<1>4. ForwardKnown' /\ CheckedListener'
  BY <1>1 DEF HttpInv, ForwardKnown, Reached, CheckedListener
<1> QED
  BY <1>2, <1>3, <1>4 DEF HttpInv

LEMMA HttpFrame ==
  ASSUME HttpInv, http' = http, broker' = broker PROVE HttpInv'
  BY DEF HttpInv, HttpTypeOK, ConnectionKnown, ForwardKnown, Reached, CheckedListener, Live, Shown

LEMMA HttpNextInv ==
  ASSUME HttpInv, [HttpNext(Requests)]_httpVars PROVE HttpInv'
<1>1. ASSUME NEW r \in Requests, Accept(r) \/ WriteResponse(r) \/ Refuse(r) \/ ServeHead(r) PROVE HttpInv'
  BY <1>1, AcceptInv, WriteResponseInv, RefuseInv, ServeHeadInv
<1>2. ASSUME NEW r \in Requests, ServeBody(r) \/ DeadlineBefore(r) \/ ConnectOpen(r) \/ ConnectSocket(r)
      PROVE HttpInv'
  BY <1>2, ServeBodyInv, DeadlineBeforeInv, ConnectOpenInv, ConnectSocketInv
<1>3. ASSUME NEW r \in Requests, ConnectVerify(r) \/ Capabilities(r) \/ Forward(r) \/ Reply(r)
      PROVE HttpInv'
  BY <1>3, ConnectVerifyInv, CapabilitiesInv, ForwardInv, ReplyInv
<1>4. ASSUME NEW p, Restart(p) PROVE HttpInv'
  BY <1>4, RestartInv
<1>5. ASSUME NEW n, Swap(n) PROVE HttpInv'
  BY <1>5, HttpFrame DEF Swap
<1>6. CASE Tick
  BY <1>6, HttpFrame DEF Tick
<1>7. CASE UNCHANGED httpVars
  BY <1>7, HttpFrame DEF httpVars
<1> QED
  BY <1>1, <1>2, <1>3, <1>4, <1>5, <1>6, <1>7 DEF HttpNext

LEMMA HttpInvSafe == HttpInv => SubmissionSafe
  BY DEF HttpInv, ForwardKnown, Reached, SubmissionSafe, RetrySafe

(* Whatever restarts, deadlines and socket replacements fall between the   *)
(* steps of its requests, the courier sends an operation only to a         *)
(* listener it has checked, and no invocation that reached the broker is   *)
(* answered with an error that invites the caller to send it again.        *)
THEOREM SubmissionSafeHolds == HttpSpec => []SubmissionSafe
<1>1. HttpInit => HttpInv
  BY HttpInitInv
<1>2. HttpInv /\ [HttpNext(Requests)]_httpVars => HttpInv'
  BY HttpNextInv
<1>3. HttpInv => SubmissionSafe
  BY HttpInvSafe
<1> QED
  BY <1>1, <1>2, <1>3, PTL DEF HttpSpec

-----------------------------------------------------------------------------
(* The NATS bridges.                                                       *)

In(s, n) == \E i \in 1..Len(s) : s[i] = n

Leases == [owner : Bridges \cup {NoOne}, rev : Nat, age : Nat]
BridgeStates ==
  [st : {"down", "leased", "up", "dead"}, rev : Nat, inbox : Seq(Notes), tasks : SUBSET Notes]
NatsTypeOK == lease \in Leases /\ bridges \in [Bridges -> BridgeStates]

(* Only a subscribed bridge has messages or workers. *)
IdleEmpty ==
  \A b \in Bridges : bridges[b].st # "up" => bridges[b].inbox = << >> /\ bridges[b].tasks = {}

(* A message is claimed by the bridge that spawned its worker, for good    *)
(* once the worker has handed it to the broker.                            *)
Claimed(b, n) == n \in bridges[b].tasks \/ <<b, n>> \in forwarded
Waits(b, n) == In(bridges[b].inbox, n)

OnlyPosted ==
  \A b \in Bridges, n \in Notes : Claimed(b, n) \/ Waits(b, n) => n \in posted

(* One bridge claims a message, and another that still has it in its inbox *)
(* no longer holds the lease, which its next renewal finds out.  Without a *)
(* lease, a queue group puts it in one inbox.                              *)
Exclusive == Leased \/ setup.queue_group # NoOne
OneClaim ==
  Exclusive => \A b, c \in Bridges, n \in Notes :
    b # c /\ Claimed(b, n) => ~Claimed(c, n) /\ ~(Waits(c, n) /\ TakeAdmits(c))
OneQueued ==
  Exclusive /\ ~Leased => \A b, c \in Bridges, n \in Notes : b # c /\ Waits(b, n) => ~Waits(c, n)

NatsInv == setup \in BridgeConfigs /\ NatsTypeOK /\ IdleEmpty /\ OnlyPosted /\ OneClaim /\ OneQueued

LEMMA NatsInitInv == NatsInit => NatsInv
<1> SUFFICES ASSUME NatsInit PROVE NatsInv
  OBVIOUS
<1>1. NatsTypeOK
  <2>1. lease \in Leases
    BY DEF NatsInit, Leases
  <2>2. [Dead EXCEPT !.st = "down"] \in BridgeStates
    <3>1. Dead \in BridgeStates
      BY DEF Dead, BridgeStates
    <3>2. \A d \in BridgeStates : [d EXCEPT !.st = "down"] \in BridgeStates
      BY DEF BridgeStates
    <3> QED
      BY <3>1, <3>2
  <2> QED
    BY <2>1, <2>2 DEF NatsInit, NatsTypeOK
<1>2. \A b \in Bridges : bridges[b].inbox = << >> /\ bridges[b].tasks = {}
  BY DEF NatsInit, Dead
<1>3. \A b \in Bridges, n \in Notes : ~Claimed(b, n) /\ ~Waits(b, n)
  BY <1>2 DEF NatsInit, Claimed, Waits, In
<1> QED
  BY <1>1, <1>2, <1>3 DEF NatsInit, NatsInv, IdleEmpty, OnlyPosted, OneClaim, OneQueued

LEMMA LeaseTypes ==
  ASSUME NatsTypeOK, NEW b \in Bridges
  PROVE  /\ Renewed(b) \in Leases /\ Free \in Leases /\ [Free EXCEPT !.rev = @ + 1] \in Leases
         /\ lease.rev \in Nat /\ lease.rev + 1 \in Nat
  BY DEF NatsTypeOK, Leases, Renewed, Free

LEMMA BridgeTypes ==
  ASSUME NatsTypeOK, NEW b \in Bridges, NEW v \in BridgeStates,
         bridges' = [bridges EXCEPT ![b] = v], lease' \in Leases
  PROVE  /\ NatsTypeOK'
         /\ bridges'[b] = v /\ \A c \in Bridges : c # b => bridges'[c] = bridges[c]
  BY DEF NatsTypeOK

LEMMA InTail ==
  ASSUME NEW S, NEW s \in Seq(S), s # << >>
  PROVE  /\ Head(s) \in S /\ In(s, Head(s)) /\ Tail(s) \in Seq(S)
         /\ \A n : In(Tail(s), n) => In(s, n)
  BY DEF In

LEMMA InAppend ==
  ASSUME NEW S, NEW s \in Seq(S), NEW m \in S
  PROVE  /\ Append(s, m) \in Seq(S)
         /\ \A n : In(Append(s, m), n) => In(s, n) \/ n = m
  BY DEF In

(* A step that neither delivers nor claims a message, and gives the lease  *)
(* only to a bridge that held it or has no message.                        *)
LEMMA Receding ==
  ASSUME NatsInv, setup' = setup, NatsTypeOK', IdleEmpty', posted' = posted,
         \A b \in Bridges, n \in Notes :
           /\ Claimed(b, n)' => Claimed(b, n)
           /\ Waits(b, n)' => Waits(b, n)
           /\ Waits(b, n)' /\ Holds(b)' => Holds(b)
  PROVE  NatsInv'
<1>1. OnlyPosted'
  BY DEF NatsInv, OnlyPosted
<1>0. (Leased' <=> Leased) /\ (Exclusive' <=> Exclusive)
  BY DEF Leased, Exclusive
<1>2. OneClaim'
  BY <1>0 DEF NatsInv, OneClaim, TakeAdmits
<1>3. OneQueued'
  BY <1>0 DEF NatsInv, OneQueued
<1> QED
  BY <1>1, <1>2, <1>3 DEF NatsInv

(* What ends a bridge, whatever becomes of the lease it held. *)
LEMMA TerminateInv ==
  ASSUME NatsInv, setup' = setup, NEW b \in Bridges, Terminate(b), UNCHANGED <<posted, forwarded>>,
         lease' \in {lease, Renewed(b), [Free EXCEPT !.rev = @ + 1]}
  PROVE  NatsInv'
<1> USE DEF NatsInv
<1>1. bridges'[b] = Dead /\ \A c \in Bridges : c # b => bridges'[c] = bridges[c]
  BY DEF Terminate, NatsTypeOK
<1>2. NatsTypeOK'
  <2>1. Dead \in BridgeStates
    BY DEF Dead, BridgeStates
  <2>2. lease' \in Leases
    BY LeaseTypes DEF NatsTypeOK
  <2> QED
    BY <2>1, <2>2, BridgeTypes DEF Terminate
<1>3. IdleEmpty'
  BY <1>1 DEF IdleEmpty, Dead
<1>4. \A n \in Notes : ~Waits(b, n)' /\ (Claimed(b, n)' => Claimed(b, n))
  BY <1>1 DEF Dead, Waits, In, Claimed
<1>5. \A c \in Bridges : c # b /\ Holds(c)' => Holds(c)
  BY <1>1, CourierAssumption DEF Holds, Renewed, Free, NatsTypeOK
<1>6. \A c \in Bridges, n \in Notes : c # b =>
        (Claimed(c, n)' <=> Claimed(c, n)) /\ (Waits(c, n)' <=> Waits(c, n))
  BY <1>1 DEF Claimed, Waits
<1> QED
  BY <1>2, <1>3, <1>4, <1>5, <1>6, Receding

LEMMA LeaseAcquireInv ==
  ASSUME NatsInv, setup' = setup, NEW b \in Bridges, LeaseAcquire(b) PROVE NatsInv'
<1> USE DEF NatsInv, LeaseAcquire
<1> DEFINE v == [bridges[b] EXCEPT !.st = "leased", !.rev = lease.rev + 1]
<1>0. v \in BridgeStates /\ v.inbox = bridges[b].inbox /\ v.tasks = bridges[b].tasks
  BY LeaseTypes DEF NatsTypeOK, BridgeStates
<1>1. NatsTypeOK' /\ bridges'[b] = v /\ \A c \in Bridges : c # b => bridges'[c] = bridges[c]
  <2>1. bridges' = [bridges EXCEPT ![b] = v]
    BY DEF NatsTypeOK
  <2>2. lease' \in Leases
    BY LeaseTypes DEF Renewed
  <2> QED
    BY <1>0, <2>1, <2>2, BridgeTypes, ZenonT(40)
<1>2. \A c \in Bridges : bridges'[c].inbox = bridges[c].inbox /\ bridges'[c].tasks = bridges[c].tasks
  BY <1>0, <1>1
<1>3. bridges[b].inbox = << >> /\ IdleEmpty'
  BY <1>1, <1>2 DEF IdleEmpty
<1>4. \A c \in Bridges, n \in Notes :
        (Claimed(c, n)' <=> Claimed(c, n)) /\ (Waits(c, n)' <=> Waits(c, n))
  BY <1>2 DEF Claimed, Waits
<1>5. \A n \in Notes : ~Waits(b, n)
  BY <1>3 DEF Waits, In
<1>6. \A c \in Bridges : c # b => ~Holds(c)'
  BY DEF Holds
<1> QED
  BY <1>1, <1>3, <1>4, <1>5, <1>6, Receding

LEMMA SubscribeInv ==
  ASSUME NatsInv, setup' = setup, NEW b \in Bridges, Subscribe(b) \/ Respawn(b) PROVE NatsInv'
<1> USE DEF NatsInv, Subscribe, Respawn
<1>0. PICK st \in {"up", "down"} : bridges' = [bridges EXCEPT ![b].st = st] /\ bridges[b].st # "up"
  OBVIOUS
<1> DEFINE v == [bridges[b] EXCEPT !.st = st]
<1>1. /\ v \in BridgeStates /\ v.inbox = bridges[b].inbox /\ v.tasks = bridges[b].tasks
      /\ v.rev = bridges[b].rev
  BY DEF NatsTypeOK, BridgeStates
<1>2. /\ NatsTypeOK'
      /\ \A c \in Bridges : /\ bridges'[c].inbox = bridges[c].inbox /\ bridges'[c].tasks = bridges[c].tasks
                            /\ bridges'[c].rev = bridges[c].rev
                            /\ c # b => bridges'[c] = bridges[c]
  BY <1>0, <1>1, BridgeTypes DEF NatsTypeOK
<1>3. IdleEmpty'
  BY <1>0, <1>2 DEF IdleEmpty
<1>4. \A c \in Bridges, n \in Notes :
        (Claimed(c, n)' <=> Claimed(c, n)) /\ (Waits(c, n)' <=> Waits(c, n)) /\ (Holds(c)' <=> Holds(c))
  BY <1>2 DEF Claimed, Waits, Holds
<1> QED
  BY <1>2, <1>3, <1>4, Receding

LEMMA HeartbeatInv ==
  ASSUME NatsInv, setup' = setup, NEW b \in Bridges, Heartbeat(b) PROVE NatsInv'
<1> USE DEF NatsInv, Heartbeat
<1>1. CASE ~Holds(b)
  BY <1>1, TerminateInv
<1>2. CASE Holds(b)
  <2> DEFINE v == [bridges[b] EXCEPT !.rev = lease.rev + 1]
  <2>0. /\ v \in BridgeStates /\ v.inbox = bridges[b].inbox /\ v.tasks = bridges[b].tasks
        /\ v.st = bridges[b].st
    BY LeaseTypes DEF NatsTypeOK, BridgeStates
  <2>1. NatsTypeOK' /\ bridges'[b] = v /\ \A c \in Bridges : c # b => bridges'[c] = bridges[c]
    BY <1>2, <2>0, LeaseTypes, BridgeTypes
  <2>2. \A c \in Bridges : /\ bridges'[c].inbox = bridges[c].inbox /\ bridges'[c].tasks = bridges[c].tasks
                           /\ bridges'[c].st = bridges[c].st
    BY <2>0, <2>1
  <2>3. IdleEmpty'
    BY <2>2 DEF IdleEmpty
  <2>4. \A c \in Bridges, n \in Notes :
          (Claimed(c, n)' <=> Claimed(c, n)) /\ (Waits(c, n)' <=> Waits(c, n))
    BY <2>2 DEF Claimed, Waits
  <2>5. \A c \in Bridges : c # b => ~Holds(c)'
    BY <1>2 DEF Holds, Renewed
  <2> QED
    BY <1>2, <2>1, <2>3, <2>4, <2>5, Receding
<1> QED
  BY <1>1, <1>2

LEMMA PublishInv ==
  ASSUME NatsInv, setup' = setup, NEW m \in Notes, Publish(m) PROVE NatsInv'
<1> USE DEF NatsInv
<1>0. PICK to \in Deliveries(m) :
        bridges' = [b \in Bridges |-> IF b \in to THEN [bridges[b] EXCEPT !.inbox = Append(@, m)] ELSE bridges[b]]
  BY DEF Publish
<1>t. to \subseteq Bridges /\ \A c \in to : bridges[c].st = "up"
  BY DEF Deliveries, Subscribers
<1>u. setup.queue_group # NoOne => \A b, c \in to : b = c
  BY DEF Deliveries
<1>p. m \notin posted /\ posted' = posted \cup {m} /\ UNCHANGED <<lease, forwarded>>
  BY DEF Publish
<1>1. \A c \in Bridges : /\ bridges'[c].tasks = bridges[c].tasks /\ bridges'[c].st = bridges[c].st
                         /\ bridges'[c].rev = bridges[c].rev
                         /\ \/ bridges'[c].inbox = bridges[c].inbox
                            \/ c \in to /\ bridges'[c].inbox = Append(bridges[c].inbox, m)
  BY <1>0 DEF NatsTypeOK, BridgeStates
<1>2. NatsTypeOK'
  <2>1. \A c \in Bridges : [bridges[c] EXCEPT !.inbox = Append(@, m)] \in BridgeStates
    <3> TAKE c \in Bridges
    <3>1. bridges[c] \in BridgeStates /\ Append(bridges[c].inbox, m) \in Seq(Notes)
      BY InAppend DEF NatsTypeOK, BridgeStates
    <3> QED
      BY <3>1 DEF BridgeStates
  <2> QED
    BY <1>0, <1>p, <2>1 DEF NatsTypeOK
<1>3. IdleEmpty'
  BY <1>1, <1>t DEF IdleEmpty
<1>4. \A c \in Bridges, n \in Notes :
        /\ (Claimed(c, n)' <=> Claimed(c, n)) /\ (Holds(c)' <=> Holds(c))
        /\ Waits(c, n)' => Waits(c, n) \/ (n = m /\ c \in to)
  <2>1. \A c \in Bridges : bridges[c].inbox \in Seq(Notes)
    BY DEF NatsTypeOK, BridgeStates
  <2>2. \A c \in Bridges, n \in Notes : (Claimed(c, n)' <=> Claimed(c, n)) /\ (Holds(c)' <=> Holds(c))
    BY <1>1, <1>p DEF Claimed, Holds
  <2>3. ASSUME NEW c \in Bridges, NEW n \in Notes, Waits(c, n)' PROVE Waits(c, n) \/ (n = m /\ c \in to)
    <3>1. CASE bridges'[c].inbox = bridges[c].inbox
      BY <2>3, <3>1 DEF Waits
    <3>2. CASE c \in to /\ bridges'[c].inbox = Append(bridges[c].inbox, m)
      BY <2>1, <2>3, <3>2, InAppend DEF Waits
    <3> QED
      BY <1>1, <3>1, <3>2
  <2> QED
    BY <2>2, <2>3
<1>5. OnlyPosted'
  BY <1>4, <1>p DEF OnlyPosted
<1>6. \A c \in Bridges : ~Claimed(c, m) /\ ~Waits(c, m)
  BY <1>p DEF OnlyPosted
<1>7. (Leased' <=> Leased) /\ (Exclusive' <=> Exclusive)
  BY DEF Leased, Exclusive
<1>8. OneClaim'
  BY <1>4, <1>6, <1>7 DEF OneClaim, TakeAdmits
<1>9. OneQueued'
  BY <1>4, <1>6, <1>7, <1>u DEF OneQueued, Exclusive
<1> QED
  BY <1>2, <1>3, <1>5, <1>8, <1>9

LEMMA TakeInv ==
  ASSUME NatsInv, setup' = setup, NEW b \in Bridges, Take(b) PROVE NatsInv'
<1> DEFINE m == Head(bridges[b].inbox)
<1>0. /\ bridges[b].st = "up" /\ bridges[b].inbox # << >> /\ bridges[b].inbox \in Seq(Notes)
      /\ UNCHANGED <<posted, forwarded>>
  BY DEF Take, NatsInv, NatsTypeOK, BridgeStates
<1>1. /\ m \in Notes /\ Waits(b, m) /\ Tail(bridges[b].inbox) \in Seq(Notes)
      /\ \A n : In(Tail(bridges[b].inbox), n) => Waits(b, n)
  BY <1>0, InTail DEF Waits
<1>2. CASE Overfull(b, m)
  <2>1. bridges' = [bridges EXCEPT ![b] = [bridges[b] EXCEPT !.inbox = Tail(@)]] /\ lease' = lease
    BY <1>2 DEF Take
  <2>2. NatsTypeOK'
    <3>1. [bridges[b] EXCEPT !.inbox = Tail(@)] \in BridgeStates
      BY <1>1 DEF NatsInv, NatsTypeOK, BridgeStates
    <3> QED
      BY <2>1, <3>1, BridgeTypes DEF NatsInv, NatsTypeOK
  <2>3. \A c \in Bridges : /\ bridges'[c].tasks = bridges[c].tasks /\ bridges'[c].st = bridges[c].st
                           /\ bridges'[c].rev = bridges[c].rev
                           /\ c # b => bridges'[c].inbox = bridges[c].inbox
    BY <2>1 DEF NatsInv, NatsTypeOK
  <2>4. bridges'[b].inbox = Tail(bridges[b].inbox)
    BY <2>1 DEF NatsInv, NatsTypeOK
  <2>5. IdleEmpty'
    BY <1>0, <2>3 DEF NatsInv, IdleEmpty
  <2>6. \A c \in Bridges, n \in Notes :
          (Claimed(c, n)' <=> Claimed(c, n)) /\ (Holds(c)' <=> Holds(c)) /\ (Waits(c, n)' => Waits(c, n))
    BY <1>0, <1>1, <2>1, <2>3, <2>4 DEF Claimed, Holds, Waits
  <2> QED
    BY <1>0, <2>2, <2>5, <2>6, Receding
<1>3. CASE ~Overfull(b, m) /\ ~TakeAdmits(b)
  BY <1>0, <1>3, TerminateInv DEF Take
<1>4. CASE ~Overfull(b, m) /\ TakeAdmits(b)
  <2> DEFINE rev == IF Holds(b) THEN lease.rev + 1 ELSE bridges[b].rev
             v == [[bridges[b] EXCEPT !.inbox = Tail(@)] EXCEPT !.tasks = @ \cup {m}, !.rev = rev]
  <2>r. bridges[b] \in BridgeStates /\ rev \in Nat
    BY LeaseTypes DEF NatsInv, NatsTypeOK, BridgeStates
  <2>1. /\ bridges' = [bridges EXCEPT ![b] = v]
        /\ lease' = IF Holds(b) THEN Renewed(b) ELSE lease
    BY <1>4, <2>r DEF Take, BridgeStates
  <2>2. NatsTypeOK'
    <3>1. v \in BridgeStates
      BY <1>1, <2>r DEF BridgeStates
    <3>2. lease' \in Leases
      BY <2>1, LeaseTypes DEF NatsInv, NatsTypeOK
    <3> QED
      BY <2>1, <3>1, <3>2, BridgeTypes DEF NatsInv
  <2>3. \A c \in Bridges : c # b => bridges'[c] = bridges[c]
    BY <2>1 DEF NatsInv, NatsTypeOK
  <2>4. /\ bridges'[b].inbox = Tail(bridges[b].inbox) /\ bridges'[b].st = "up"
        /\ bridges'[b].tasks = bridges[b].tasks \cup {m}
    BY <1>0, <2>1, <2>r DEF NatsInv, NatsTypeOK, BridgeStates
  <2>5. IdleEmpty'
    BY <2>3, <2>4 DEF NatsInv, IdleEmpty
  <2>6. \A c \in Bridges, n \in Notes :
          /\ Waits(c, n)' => Waits(c, n)
          /\ Claimed(c, n)' => Claimed(c, n) \/ (c = b /\ n = m)
    BY <1>0, <1>1, <2>3, <2>4 DEF Claimed, Waits
  <2>7. OnlyPosted'
    BY <1>0, <1>1, <2>6 DEF NatsInv, OnlyPosted
  <2>8. (Leased' <=> Leased) /\ (Exclusive' <=> Exclusive)
    BY DEF Leased, Exclusive
  <2>9. Exclusive => \A c \in Bridges : c # b => ~Claimed(c, m)
    BY <1>1, <1>4 DEF NatsInv, OneClaim
  <2>10. ASSUME Leased PROVE \A c \in Bridges : c # b => ~Holds(c)'
    BY <1>4, <2>1, <2>10 DEF TakeAdmits, Holds, Renewed
  <2>11. ASSUME ~Leased, Exclusive PROVE \A c \in Bridges : c # b => ~Waits(c, m)
    BY <1>1, <2>11 DEF NatsInv, OneQueued
  <2>12. OneClaim'
    <3> SUFFICES ASSUME Exclusive, NEW x \in Bridges, NEW y \in Bridges, NEW n \in Notes, x # y, Claimed(x, n)'
                 PROVE  ~Claimed(y, n)' /\ ~(Waits(y, n)' /\ TakeAdmits(y)')
      BY <2>8 DEF OneClaim
    <3>1. CASE Claimed(x, n)
      <4>1. ~Claimed(y, n) /\ ~(Waits(y, n) /\ TakeAdmits(y))
        BY <3>1 DEF NatsInv, OneClaim
      <4>2. ~Claimed(y, n)'
        BY <2>6, <2>9, <3>1, <4>1
      <4>3. ~(Waits(y, n)' /\ TakeAdmits(y)')
        <5>1. CASE y = b
          BY <1>4, <2>6, <4>1, <5>1
        <5>2. CASE y # b /\ Leased
          BY <2>8, <2>10, <5>2 DEF TakeAdmits
        <5>3. CASE y # b /\ ~Leased
          BY <2>6, <4>1, <5>3 DEF TakeAdmits
        <5> QED BY <5>1, <5>2, <5>3
      <4> QED BY <4>2, <4>3
    <3>2. CASE x = b /\ n = m
      <4>1. ~Claimed(y, n)'
        BY <2>6, <2>9, <3>2
      <4>2. CASE Leased
        BY <2>8, <2>10, <3>2, <4>1, <4>2 DEF TakeAdmits
      <4>3. CASE ~Leased
        BY <2>6, <2>11, <3>2, <4>1, <4>3
      <4> QED BY <4>2, <4>3
    <3> QED
      BY <2>6, <3>1, <3>2
  <2>13. OneQueued'
    BY <2>6, <2>8 DEF NatsInv, OneQueued
  <2> QED
    BY <2>2, <2>5, <2>7, <2>12, <2>13 DEF NatsInv
<1> QED
  BY <1>2, <1>3, <1>4

LEMMA RenewFailsInv ==
  ASSUME NatsInv, setup' = setup, NEW b \in Bridges, RenewFails(b) \/ Shutdown(b) PROVE NatsInv'
  BY TerminateInv DEF RenewFails, Shutdown

LEMMA WorkerInv ==
  ASSUME NatsInv, setup' = setup, NEW b \in Bridges, NEW m \in Notes, WorkerForwards(b, m) \/ WorkerReplies(b, m)
  PROVE  NatsInv'
<1>1. CASE WorkerForwards(b, m)
  <2>1. \A c \in Bridges, n \in Notes :
          (Claimed(c, n)' => Claimed(c, n)) /\ (Holds(c)' <=> Holds(c)) /\ (Waits(c, n)' <=> Waits(c, n))
    BY <1>1 DEF WorkerForwards, Claimed, Holds, Waits
  <2> QED
    BY <1>1, <2>1, Receding DEF WorkerForwards, NatsInv, NatsTypeOK, IdleEmpty
<1>2. CASE WorkerReplies(b, m)
  <2>1. NatsTypeOK'
    <3>1. [bridges[b] EXCEPT !.tasks = @ \ {m}] \in BridgeStates
      BY DEF NatsInv, NatsTypeOK, BridgeStates
    <3> QED
      BY <1>2, <3>1, BridgeTypes DEF NatsInv, NatsTypeOK, WorkerReplies
  <2>2. \A c \in Bridges : /\ bridges'[c].tasks \subseteq bridges[c].tasks /\ bridges'[c].st = bridges[c].st
                           /\ bridges'[c].rev = bridges[c].rev /\ bridges'[c].inbox = bridges[c].inbox
    BY <1>2 DEF WorkerReplies, NatsInv, NatsTypeOK
  <2>3. IdleEmpty'
    BY <2>2 DEF NatsInv, IdleEmpty
  <2>4. \A c \in Bridges, n \in Notes :
          (Claimed(c, n)' => Claimed(c, n)) /\ (Holds(c)' <=> Holds(c)) /\ (Waits(c, n)' <=> Waits(c, n))
    BY <1>2, <2>2 DEF WorkerReplies, Claimed, Holds, Waits
  <2> QED
    BY <1>2, <2>1, <2>3, <2>4, Receding DEF WorkerReplies
<1> QED
  BY <1>1, <1>2

LEMMA LeaseAgesInv ==
  ASSUME NatsInv, setup' = setup, LeaseAges PROVE NatsInv'
<1>1. NatsTypeOK' /\ IdleEmpty'
  <2>1. lease' \in Leases
    BY DEF LeaseAges, NatsInv, NatsTypeOK, Leases, Free
  <2> QED
    BY <2>1 DEF LeaseAges, NatsInv, NatsTypeOK, IdleEmpty
<1>2. \A c \in Bridges, n \in Notes :
        (Claimed(c, n)' => Claimed(c, n)) /\ (Holds(c)' => Holds(c)) /\ (Waits(c, n)' <=> Waits(c, n))
  BY CourierAssumption DEF LeaseAges, NatsInv, NatsTypeOK, Claimed, Holds, Waits, Free
<1> QED
  BY <1>1, <1>2, Receding DEF LeaseAges

LEMMA NatsNextInv ==
  ASSUME NatsInv, [NatsNext]_natsVars PROVE NatsInv'
<1>1. ASSUME NEW b \in Bridges,
             LeaseAcquire(b) \/ Heartbeat(b) \/ Take(b) \/ RenewFails(b) \/ Shutdown(b),
             setup' = setup
      PROVE  NatsInv'
  BY <1>1, LeaseAcquireInv, HeartbeatInv, TakeInv, RenewFailsInv
<1>2. ASSUME NEW b \in Bridges, Subscribe(b) \/ Respawn(b), setup' = setup PROVE NatsInv'
  BY <1>2, SubscribeInv
<1>3. ASSUME NEW b \in Bridges, NEW n \in Notes, WorkerForwards(b, n) \/ WorkerReplies(b, n),
             setup' = setup
      PROVE  NatsInv'
  BY <1>3, WorkerInv
<1>4. ASSUME NEW n \in Notes, Publish(n), setup' = setup PROVE NatsInv'
  BY <1>4, PublishInv
<1>5. CASE LeaseAges /\ setup' = setup
  BY <1>5, LeaseAgesInv
<1>6. CASE UNCHANGED natsVars
  BY <1>6 DEF natsVars, NatsInv, NatsTypeOK, IdleEmpty, OnlyPosted, OneClaim, OneQueued, Exclusive, Leased,
              TakeAdmits, Claimed, Waits, Holds
<1> QED
  BY <1>1, <1>2, <1>3, <1>4, <1>5, <1>6 DEF NatsNext

LEMMA NatsInvSafe == NatsInv => OneForwarder
<1> SUFFICES ASSUME NatsInv, Leased \/ setup.queue_group # NoOne, NEW n \in Notes
             PROVE  Cardinality({b \in Bridges : <<b, n>> \in forwarded}) <= 1
  BY DEF OneForwarder
<1> DEFINE F == {b \in Bridges : <<b, n>> \in forwarded}
<1>1. \A b, c \in F : b = c
  BY DEF NatsInv, OneClaim, Claimed, Exclusive
<1> HIDE DEF F
<1>2. F = {} => Cardinality(F) <= 1
  BY FS_EmptySet
<1>3. ASSUME NEW b \in F PROVE Cardinality(F) <= 1
  <2>1. F = {b}
    BY <1>1
  <2> QED
    BY <2>1, FS_Singleton
<1>4. Cardinality(F) <= 1
  BY <1>1, <1>2, <1>3
<1> QED
  BY <1>4 DEF F

(* However the lease is lost, renewed in doubt or left to expire between a *)
(* message's arrival and its worker, no two bridges of one subject hand    *)
(* the broker the same message; nor do legacy bridges of one queue group   *)
(* (FederationLease::renew, run of the bridge).                            *)
THEOREM OneForwarderHolds == NatsSpec => []OneForwarder
<1>1. NatsInit => NatsInv
  BY NatsInitInv
<1>2. NatsInv /\ [NatsNext]_natsVars => NatsInv'
  BY NatsNextInv
<1>3. NatsInv => OneForwarder
  BY NatsInvSafe
<1> QED
  BY <1>1, <1>2, <1>3, PTL DEF NatsSpec

-----------------------------------------------------------------------------
(* The client and the codec: the signing calls, for any number of them and *)
(* whatever the carrier does.                                              *)

(* The positions of a set of indices, numbered in their order. *)
LEMMA Ranks ==
  ASSUME NEW K, NEW N \in Nat, K \subseteq 1..N
  PROVE  /\ IsFiniteSet(K) /\ Cardinality(K) \in 0..N
         /\ \A k \in K : Rank(K, k) \in 1..Cardinality(K)
         /\ \A k, l \in K : Rank(K, k) = Rank(K, l) => k = l
         /\ \A n \in 1..Cardinality(K) : \E k \in K : Rank(K, k) = n
<1> DEFINE C == Cardinality(K)
           Upto(k) == {j \in K : j <= k}
<1>1. IsFiniteSet(K) /\ C \in Nat /\ C <= N
  <2>1. IsFiniteSet(1..N) /\ Cardinality(1..N) = N
    BY FS_Interval
  <2>2. QED BY <2>1, FS_Subset, FS_CardinalityType
<1>2. \A k \in K : Rank(K, k) \in 1..C
  <2> TAKE k \in K
  <2>1. Upto(k) \subseteq K /\ k \in Upto(k) /\ Upto(k) # {}
    OBVIOUS
  <2>2. IsFiniteSet(Upto(k)) /\ Cardinality(Upto(k)) <= C /\ Cardinality(Upto(k)) \in Nat
    BY <1>1, <2>1, FS_Subset, FS_CardinalityType
  <2>3. Cardinality(Upto(k)) # 0
    BY <2>1, <2>2, FS_EmptySet
  <2> HIDE DEF C
  <2>4. QED BY <1>1, <2>2, <2>3 DEF Rank
<1>3. \A k, l \in K : Rank(K, k) = Rank(K, l) => k = l
  <2>1. ASSUME NEW k \in K, NEW l \in K, k < l PROVE Rank(K, k) # Rank(K, l)
    <3>1. k \in Nat /\ l \in Nat /\ \A m \in K : m \in Nat
      OBVIOUS
    <3>2. Upto(k) \subseteq Upto(l) /\ l \in Upto(l) /\ l \notin Upto(k)
      <4>1. \A m \in K : m <= k => m <= l
        BY <2>1, <3>1
      <4>2. l <= l /\ ~(l <= k)
        BY <2>1, <3>1
      <4>3. QED BY <4>1, <4>2, Zenon
    <3>3. IsFiniteSet(Upto(l))
      BY <1>1, FS_Subset
    <3>4. QED BY <3>2, <3>3, FS_Subset DEF Rank
  <2>2. QED BY <2>1
<1>4. \A n \in 1..C : \E k \in K : Rank(K, k) = n
  <2> DEFINE f == [k \in K |-> Rank(K, k)]
  <2>1. f \in Injection(K, 1..C)
    BY <1>2, <1>3 DEF Injection, IsInjective
  <2>2. IsFiniteSet(1..C) /\ Cardinality(1..C) = C
    BY <1>1, FS_Interval
  <2>3. f \in Surjection(K, 1..C)
    BY <1>1, <2>1, <2>2, FS_Injection
  <2>4. QED BY <2>3 DEF Surjection
<1>5. QED BY <1>1, <1>2, <1>3, <1>4

(* They are a sequence of the elements at these positions, of all and only *)
(* them.                                                                   *)
LEMMA Positioned ==
  ASSUME NEW S, NEW q \in Seq(S), NEW K, K \subseteq DOMAIN q
  PROVE  /\ AtPositions(q, K) \in Seq(S) /\ Len(AtPositions(q, K)) = Cardinality(K)
         /\ Cardinality(K) \in 0..Len(q)
         /\ \A k \in K : /\ Rank(K, k) \in 1..Cardinality(K)
                         /\ AtPositions(q, K)[Rank(K, k)] = q[k]
         /\ \A n \in 1..Cardinality(K) : \E k \in K : AtPositions(q, K)[n] = q[k]
<1> DEFINE C == Cardinality(K)
           Of(n) == CHOOSE i \in K : Rank(K, i) = n
           p == AtPositions(q, K)
<1>1. Len(q) \in Nat /\ DOMAIN q = 1..Len(q) /\ \A i \in 1..Len(q) : q[i] \in S
  OBVIOUS
<1>2. /\ C \in 0..Len(q)
      /\ \A k \in K : Rank(K, k) \in 1..C
      /\ \A k, l \in K : Rank(K, k) = Rank(K, l) => k = l
      /\ \A n \in 1..C : \E k \in K : Rank(K, k) = n
  BY <1>1, Ranks
<1>3. \A n \in 1..C : Of(n) \in K /\ Rank(K, Of(n)) = n
  BY <1>2
<1>4. p = [n \in 1..C |-> q[Of(n)]]
  BY DEF AtPositions
<1> HIDE DEF C, Of, p
<1>5. p \in [1..C -> S]
  BY <1>1, <1>3, <1>4
<1>6. p \in Seq(S) /\ Len(p) = C
  <2>1. C \in Nat
    BY <1>1, <1>2
  <2>2. p \in Seq(S)
    BY <1>5, <2>1, SeqDef
  <2>3. QED BY <1>5, <2>1, <2>2, LenProperties
<1>7. \A k \in K : Rank(K, k) \in 1..C /\ p[Rank(K, k)] = q[k]
  BY <1>2, <1>3, <1>4
<1>8. \A n \in 1..C : \E k \in K : p[n] = q[k]
  BY <1>3, <1>4
<1>9. QED BY <1>2, <1>6, <1>7, <1>8 DEF C, p

-----------------------------------------------------------------------------

(* Their order is kept. *)
LEMMA Ascending ==
  ASSUME NEW S, NEW q \in Seq(S), NEW K, K \subseteq DOMAIN q
  PROVE  \A n, m \in 1..Cardinality(K) : n < m =>
           \E k, l \in K : k < l /\ AtPositions(q, K)[n] = q[k] /\ AtPositions(q, K)[m] = q[l]
<1> DEFINE C == Cardinality(K)
           Of(n) == CHOOSE i \in K : Rank(K, i) = n
<1>1. Len(q) \in Nat /\ DOMAIN q = 1..Len(q) /\ \A k \in K : k \in Nat
  OBVIOUS
<1>2. IsFiniteSet(K) /\ \A n \in 1..C : \E k \in K : Rank(K, k) = n
  BY <1>1, Ranks
<1>3. \A n \in 1..C : Of(n) \in K /\ Rank(K, Of(n)) = n
  BY <1>2
<1>4. \A n \in 1..C : AtPositions(q, K)[n] = q[Of(n)]
  BY DEF AtPositions
<1>5. ASSUME NEW k \in K, NEW l \in K, l <= k PROVE Rank(K, l) <= Rank(K, k)
  <2>1. \A j \in K : j <= l => j <= k
    BY <1>1, <1>5
  <2>2. {j \in K : j <= l} \subseteq {j \in K : j <= k}
    BY <2>1
  <2>3. IsFiniteSet({j \in K : j <= k})
    BY <1>2, FS_Subset
  <2>4. QED BY <2>2, <2>3, FS_Subset DEF Rank
<1> HIDE DEF C, Of
<1>6. ASSUME NEW n \in 1..C, NEW m \in 1..C, n < m
      PROVE  \E k, l \in K : k < l /\ AtPositions(q, K)[n] = q[k] /\ AtPositions(q, K)[m] = q[l]
  <2>1. Of(n) \in K /\ Of(m) \in K /\ Rank(K, Of(n)) = n /\ Rank(K, Of(m)) = m
    BY <1>3
  <2>2. ~(Of(m) <= Of(n))
    BY <1>5, <1>6, <2>1
  <2>3. Of(n) < Of(m)
    BY <1>1, <2>1, <2>2
  <2>4. QED BY <1>4, <2>1, <2>3
<1>7. QED BY <1>6 DEF C

-----------------------------------------------------------------------------
(* Label order. *)
LEMMA InRange == ASSUME NEW f, NEW x PROVE x \in Range(f) <=> \E i \in DOMAIN f : x = f[i]
BY DEF Range

(* The order of labels is strict and total. *)
LEMMA BeforeOrder ==
  /\ \A a \in Int : ~Before(a, a)
  /\ \A a, b \in Int : Before(a, b) \/ Before(b, a) \/ a = b
BY DEF Before, CanonicalSortKey

Canonical(order) ==
  /\ order \in Seq(Int)
  /\ \A i, j \in DOMAIN order : i < j => Before(order[i], order[j])

(* The labels that are selected, in their order. *)
LEMMA Placed ==
  ASSUME NEW q \in Seq(Int), NEW K \in SUBSET DOMAIN q, Canonical(q)
  PROVE  /\ Canonical(AtPositions(q, K))
         /\ \A k \in K : \E n \in DOMAIN AtPositions(q, K) : AtPositions(q, K)[n] = q[k]
         /\ \A n \in DOMAIN AtPositions(q, K) : \E k \in K : AtPositions(q, K)[n] = q[k]
<1>1. AtPositions(q, K) \in Seq(Int) /\ Len(AtPositions(q, K)) = Cardinality(K)
  BY Positioned
<1>2. DOMAIN AtPositions(q, K) = 1..Cardinality(K)
  BY <1>1
<1>3. \A k \in K : Rank(K, k) \in 1..Cardinality(K) /\ AtPositions(q, K)[Rank(K, k)] = q[k]
  BY Positioned, SMTT(40)
<1>4. \A n \in 1..Cardinality(K) : \E k \in K : AtPositions(q, K)[n] = q[k]
  BY Positioned
<1>5. \A n, m \in 1..Cardinality(K) : n < m =>
        \E k, l \in K : k < l /\ AtPositions(q, K)[n] = q[k] /\ AtPositions(q, K)[m] = q[l]
  BY Ascending
<1>6. \A k, l \in K : k < l => Before(q[k], q[l])
  BY DEF Canonical
<1>7. \A n, m \in 1..Cardinality(K) : n < m => Before(AtPositions(q, K)[n], AtPositions(q, K)[m])
  BY <1>5, <1>6
<1>8. QED BY <1>1, <1>2, <1>3, <1>4, <1>7 DEF Canonical

(* Selecting labels keeps their order and gives exactly the wanted ones. *)
LEMMA Selected ==
  ASSUME NEW order, Canonical(order), NEW labels
  PROVE  /\ Canonical(Select(order, labels))
         /\ Range(Select(order, labels)) = Range(order) \cap labels
<1> SUFFICES ASSUME NEW K \in SUBSET DOMAIN order, K = {i \in DOMAIN order : order[i] \in labels},
                    NEW p, p = AtPositions(order, K)
             PROVE  Canonical(p) /\ Range(p) = Range(order) \cap labels
  <2>1. {i \in DOMAIN order : order[i] \in labels} \in SUBSET DOMAIN order
    OBVIOUS
  <2>2. QED BY <2>1 DEF Select
<1>1. order \in Seq(Int)
  BY DEF Canonical
<1>2. /\ Canonical(AtPositions(order, K))
      /\ \A k \in K : \E n \in DOMAIN AtPositions(order, K) : AtPositions(order, K)[n] = order[k]
      /\ \A n \in DOMAIN AtPositions(order, K) : \E k \in K : AtPositions(order, K)[n] = order[k]
  BY <1>1, Placed
<1>3. Range(p) = Range(order) \cap labels
  <2>0. /\ \A k \in K : \E n \in DOMAIN p : p[n] = order[k]
        /\ \A n \in DOMAIN p : \E k \in K : p[n] = order[k]
    BY <1>2
  <2>1. \A x : x \in Range(p) <=> \E k \in K : x = order[k]
    BY <2>0, InRange
  <2>2. \A x : (\E k \in K : x = order[k]) <=> x \in Range(order) /\ x \in labels
    BY DEF Range
  <2>3. QED BY <2>1, <2>2
<1>4. QED BY <1>2, <1>3

(* The encoder writes its labels in the canonical order. *)
LEMMA Orders ==
  /\ Canonical(WriteOrder) /\ Canonical(CwtOrder)
  /\ Range(WriteOrder) = {Alg, Crit, ContentTypeL, Kid, Cwt, PartyU, PartyV} \cup BasilLabels \cup ProofLabels
  /\ Range(CwtOrder) = CwtLabels
<1> USE DEF Alg, Crit, ContentTypeL, Kid, Cwt, PartyU, PartyV, InReplyTo, RequestHashL, SenderKeyId, ResponseKeyId,
            ResponseSubject, SignerCertificates, SignerPublicKey, Freshness, ResponsePublicKey, OperationTarget,
            Iss, Aud, Exp, Iat, Cti
<1>1. Canonical(CwtOrder)
  BY DEF Canonical, CwtOrder, Before, CanonicalSortKey
<1>2. WriteOrder \in Seq(Int) /\ DOMAIN WriteOrder = 1..17
  BY DEF WriteOrder
<1>3. \A i \in 8..17 : WriteOrder[i] = -69993 - i
  BY DEF WriteOrder
<1>4. /\ WriteOrder[1] = 1 /\ WriteOrder[2] = 2 /\ WriteOrder[3] = 3 /\ WriteOrder[4] = 4
      /\ WriteOrder[5] = 15 /\ WriteOrder[6] = -21 /\ WriteOrder[7] = -24
  BY DEF WriteOrder
<1>5. \A i, j \in 1..17 : i < j => Before(WriteOrder[i], WriteOrder[j])
  <2> DEFINE w == WriteOrder
  <2> HIDE DEF w
  <2>1. \A i \in 1..17 : i \in 1..7 \/ i \in 8..17
    OBVIOUS
  <2>2. /\ w[1] = 1 /\ w[2] = 2 /\ w[3] = 3 /\ w[4] = 4 /\ w[5] = 15 /\ w[6] = -21 /\ w[7] = -24
        /\ \A i \in 8..17 : w[i] = -69993 - i
    BY <1>3, <1>4 DEF w
  <2>3. ASSUME NEW i \in 8..17, NEW j \in 8..17, i < j PROVE Before(w[i], w[j])
    BY <2>2, <2>3 DEF Before, CanonicalSortKey
  <2>4. ASSUME NEW i \in 1..7, NEW j \in 8..17 PROVE Before(w[i], w[j])
    <3>1. w[j] < -24 /\ w[j] \in Int
      BY <2>2
    <3>2. w[i] \in Int /\ w[i] >= -24
      BY <2>2
    <3>3. QED BY <3>1, <3>2 DEF Before, CanonicalSortKey
  <2>5. ASSUME NEW i \in 1..7, NEW j \in 1..7, i < j PROVE Before(w[i], w[j])
    BY <2>2, <2>5 DEF Before, CanonicalSortKey
  <2>6. ASSUME NEW i \in 8..17, NEW j \in 1..7 PROVE ~(i < j)
    BY SMTT(40)
  <2>7. QED BY <2>1, <2>3, <2>4, <2>5, <2>6 DEF w
<1>6. Canonical(WriteOrder)
  BY <1>2, <1>5 DEF Canonical
<1>7. Range(WriteOrder) = {Alg, Crit, ContentTypeL, Kid, Cwt, PartyU, PartyV} \cup BasilLabels \cup ProofLabels
  BY DEF Range, WriteOrder, BasilLabels, ProofLabels
<1>8. Range(CwtOrder) = CwtLabels
  BY DEF Range, CwtOrder, CwtLabels
<1>9. QED BY <1>1, <1>6, <1>7, <1>8

-----------------------------------------------------------------------------
(* A map of labels, written in their order and read back. *)
Writes(e, p, val) ==
  /\ Canonical(p) /\ val = [l \in Range(p) |-> val[l]]
  /\ e = [i \in 1..Len(p) |-> <<p[i], val[p[i]]>>]
(* Entries in canonical order are read back as the map they were written *)
(* from.                                                                   *)
LEMMA WrittenMap ==
  ASSUME NEW p, NEW val, NEW e, Writes(e, p, val)
  PROVE  /\ CheckOrder(e) /\ Labels(e) = Range(p) /\ Entries(e) = val
         /\ \A x \in Range(e) : x[1] \in Range(p) /\ x[2] = val[x[1]] /\ x = <<x[1], x[2]>>
         /\ \A l \in Range(p) : <<l, val[l]>> \in Range(e)
<1>1. p \in Seq(Int) /\ \A i, j \in DOMAIN p : i < j => Before(p[i], p[j])
  BY DEF Writes, Canonical
<1>2. Len(p) \in Nat /\ DOMAIN p = 1..Len(p)
  BY <1>1
<1>3. DOMAIN e = 1..Len(p) /\ Len(e) = Len(p)
  BY <1>2 DEF Writes
<1>4. \A i \in DOMAIN p : e[i] = <<p[i], val[p[i]]>> /\ e[i][1] = p[i] /\ e[i][2] = val[p[i]]
  BY <1>2 DEF Writes
<1>5. CheckOrder(e)
  <2>1. ASSUME NEW i \in 1..Len(e) - 1 PROVE Before(e[i][1], e[i + 1][1])
    <3>1. i \in DOMAIN p /\ i + 1 \in DOMAIN p /\ i < i + 1
      BY <1>2, <1>3
    <3>2. QED BY <1>1, <1>4, <3>1
  <2>2. QED BY <2>1 DEF CheckOrder
<1>6. \A x : x \in Range(e) <=> \E l \in Range(p) : x = <<l, val[l]>>
  <2>1. \A x : x \in Range(e) <=> \E i \in DOMAIN p : x = <<p[i], val[p[i]]>>
    <3>1. DOMAIN e = DOMAIN p
      BY <1>2, <1>3
    <3>2. QED BY <1>4, <3>1, InRange
  <2>2. QED BY <2>1 DEF Range
<1>7. Labels(e) = Range(p)
  <2>1. \A l \in Range(p) : <<l, val[l]>> \in Range(e) /\ <<l, val[l]>>[1] = l
    BY <1>6
  <2>2. \A x \in Range(e) : x[1] \in Range(p)
    BY <1>6
  <2>3. \A l \in Range(p) : \E x \in Range(e) : x[1] = l
    BY <2>1, Zenon
  <2>4. QED BY <2>2, <2>3 DEF Labels
<1>8. Entries(e) = val
  <2>1. ASSUME NEW l \in Range(p) PROVE (CHOOSE x \in Range(e) : x[1] = l)[2] = val[l]
    <3>1. <<l, val[l]>> \in Range(e) /\ <<l, val[l]>>[1] = l
      BY <1>6
    <3>2. \A x \in Range(e) : x[1] = l => x = <<l, val[l]>>
      BY <1>6
    <3>3. (CHOOSE x \in Range(e) : x[1] = l) = <<l, val[l]>>
      BY <3>1, <3>2
    <3>4. \A y : y = <<l, val[l]>> => y[2] = val[l]
      OBVIOUS
    <3>5. QED BY <3>3, <3>4, Zenon
  <2>2. QED BY <1>7, <2>1 DEF Entries, Writes
<1>9. \A x \in Range(e) : x[1] \in Range(p) /\ x[2] = val[x[1]] /\ x = <<x[1], x[2]>>
  BY <1>6
<1>10. QED BY <1>5, <1>6, <1>7, <1>8, <1>9

(* The claims of a message are read as they were written. *)
IsMap(f, labels) == f = [l \in DOMAIN f |-> f[l]] /\ DOMAIN f \subseteq labels

(* So are the claims, ... *)
LEMMA CwtReadBack ==
  ASSUME NEW claims, IsMap(claims, CwtLabels)
  PROVE  /\ Entries(WriteCwtMap(claims)) = claims /\ CheckOrder(WriteCwtMap(claims))
         /\ \A x \in Range(WriteCwtMap(claims)) : x[1] \in DOMAIN claims
<1> SUFFICES ASSUME NEW p, p = Select(CwtOrder, DOMAIN claims),
                    NEW e, e = [i \in 1..Len(p) |-> <<p[i], claims[p[i]]>>]
             PROVE  Entries(e) = claims /\ CheckOrder(e) /\ \A x \in Range(e) : x[1] \in DOMAIN claims
  BY DEF WriteCwtMap
<1>1. Canonical(p) /\ Range(p) = CwtLabels \cap DOMAIN claims
  BY Orders, Selected
<1>2. Range(p) = DOMAIN claims
  BY <1>1 DEF IsMap
<1>3. claims = [l \in Range(p) |-> claims[l]]
  BY <1>2 DEF IsMap
<1>4. Writes(e, p, claims)
  BY <1>1, <1>3 DEF Writes
<1>5. QED BY <1>2, <1>4, WrittenMap

(* A protected header is read as it was written, in order, with its        *)
(* critical labels.                                                        *)
HeaderLabels == {Alg, ContentTypeL, Kid, Cwt, PartyU, PartyV} \cup BasilLabels \cup ProofLabels
IsHeader(h) == IsMap(h, HeaderLabels) /\ (Cwt \in DOMAIN h => IsMap(h[Cwt], CwtLabels))
CritIn(layer, h) == IF CritLabels(layer, h) = << >> THEN {} ELSE {Crit}

(* ... and every protected header, at every layer: decoding what           *)
(* encode_protected wrote gives the header, the critical labels are the    *)
(* expected ones, and encoding the result again gives the same bytes.      *)
THEOREM HeaderReadBack ==
  ASSUME NEW layer, NEW h, IsHeader(h), NEW e, e = EncodeProtected(layer, h)
  PROVE  /\ HeaderOf(e) = h /\ CheckOrder(e) /\ Labels(e) = DOMAIN h \cup CritIn(layer, h)
         /\ CheckCrit(layer, h, e) /\ EncodeProtected(layer, HeaderOf(e)) = e
         /\ Cwt \in DOMAIN h => Entries(e)[Cwt] = WriteCwtMap(h[Cwt])
         /\ \A x \in Range(e) : /\ x[1] \in DOMAIN h \cup CritIn(layer, h)
                                /\ x[1] = Cwt => x[2] = WriteCwtMap(h[Cwt])
<1> SUFFICES ASSUME NEW crit, crit = CritLabels(layer, h),
                    NEW p, p = Select(WriteOrder, DOMAIN h \cup CritIn(layer, h)),
                    NEW val, val = [l \in Range(p) |-> IF l = Crit THEN crit
                                                       ELSE IF l = Cwt THEN WriteCwtMap(h[l]) ELSE h[l]]
             PROVE  /\ HeaderOf(e) = h /\ CheckOrder(e) /\ Labels(e) = DOMAIN h \cup CritIn(layer, h)
                    /\ CheckCrit(layer, h, e)
                    /\ Cwt \in DOMAIN h => Entries(e)[Cwt] = WriteCwtMap(h[Cwt])
                    /\ \A x \in Range(e) : /\ x[1] \in DOMAIN h \cup CritIn(layer, h)
                                           /\ x[1] = Cwt => x[2] = WriteCwtMap(h[Cwt])
  OBVIOUS
<1>1. Crit \notin HeaderLabels /\ Crit # Cwt /\ HeaderLabels \cup {Crit} = Range(WriteOrder)
  <2>1. Crit \notin HeaderLabels /\ Crit # Cwt
    BY DEF HeaderLabels, BasilLabels, ProofLabels, Alg, Crit, ContentTypeL, Kid, Cwt, PartyU, PartyV, InReplyTo,
           RequestHashL, SenderKeyId, ResponseKeyId, ResponseSubject, SignerCertificates, SignerPublicKey,
           Freshness, ResponsePublicKey, OperationTarget
  <2>2. QED BY <2>1, Orders DEF HeaderLabels
<1>2. Canonical(p) /\ Range(p) = Range(WriteOrder) \cap (DOMAIN h \cup CritIn(layer, h))
  BY Orders, Selected
<1>3. Range(p) = DOMAIN h \cup CritIn(layer, h)
  BY <1>1, <1>2 DEF IsHeader, IsMap, CritIn
<1>4. e = [i \in 1..Len(p) |-> <<p[i], val[p[i]]>>]
  <2>1. DOMAIN p = 1..Len(p) /\ \A i \in 1..Len(p) : p[i] \in Range(p)
    <3>1. p \in Seq(Int)
      BY <1>2 DEF Canonical
    <3>2. DOMAIN p = 1..Len(p)
      BY <3>1
    <3>3. QED BY <3>2 DEF Range
  <2>2. e = [i \in 1..Len(p) |-> <<p[i], IF p[i] = Crit THEN crit ELSE IF p[i] = Cwt THEN WriteCwtMap(h[p[i]]) ELSE h[p[i]]>>]
    BY DEF EncodeProtected, CritIn
  <2>3. QED BY <2>1, <2>2
<1>5. /\ CheckOrder(e) /\ Labels(e) = Range(p) /\ Entries(e) = val
      /\ \A x \in Range(e) : x[1] \in Range(p) /\ x[2] = val[x[1]] /\ x = <<x[1], x[2]>>
      /\ \A l \in Range(p) : <<l, val[l]>> \in Range(e)
  <2>1. Writes(e, p, val)
    BY <1>2, <1>4 DEF Writes
  <2>2. CheckOrder(e) /\ Labels(e) = Range(p)
    BY <2>1, WrittenMap
  <2>3. Entries(e) = val
    BY <2>1, WrittenMap, ZenonT(60)
  <2>4. \A x \in Range(e) : x[1] \in Range(p) /\ x[2] = val[x[1]] /\ x = <<x[1], x[2]>>
    BY <2>1, WrittenMap
  <2>6. \A l \in Range(p) : <<l, val[l]>> \in Range(e)
    BY <2>1, WrittenMap
  <2>5. QED BY <2>2, <2>3, <2>4, <2>6
<1>6. HeaderOf(e) = h
  <2>1. DOMAIN Entries(e) \ {Crit} = DOMAIN h
    <3>1. DOMAIN Entries(e) = Range(p)
      BY <1>5
    <3>2. Crit \notin DOMAIN h
      BY <1>1 DEF IsHeader, IsMap
    <3>3. QED BY <1>3, <3>1, <3>2 DEF CritIn
  <2>2. ASSUME NEW l \in DOMAIN h PROVE (IF l = Cwt THEN Entries(val[l]) ELSE val[l]) = h[l]
    <3>1. l \in Range(p) /\ l # Crit
      BY <1>1, <1>3 DEF IsHeader, IsMap
    <3>2. CASE l = Cwt
      <4>1. Entries(WriteCwtMap(h[Cwt])) = h[Cwt]
        BY <2>2, <3>2, CwtReadBack DEF IsHeader
      <4>2. QED BY <3>1, <3>2, <4>1
    <3>3. CASE l # Cwt
      BY <3>1, <3>3
    <3>4. QED BY <3>2, <3>3
  <2>3. HeaderOf(e) = [l \in DOMAIN h |-> IF l = Cwt THEN Entries(val[l]) ELSE val[l]]
    BY <1>5, <2>1 DEF HeaderOf
  <2>4. HeaderOf(e) = [l \in DOMAIN h |-> h[l]]
    BY <2>2, <2>3
  <2>5. QED BY <2>4 DEF IsHeader, IsMap
<1>7. CheckCrit(layer, h, e)
  <2>1. {x \in Range(e) : x[1] = Crit} = IF Crit \in Range(p) THEN {<<Crit, crit>>} ELSE {}
    BY <1>5
  <2>2. Crit \in Range(p) <=> crit # << >>
    BY <1>1, <1>3 DEF CritIn, IsHeader, IsMap
  <2>3. {x[2] : x \in {<<Crit, crit>>}} = {crit} /\ {x[2] : x \in {}} = {}
    OBVIOUS
  <2>4. {x[2] : x \in {y \in Range(e) : y[1] = Crit}} = IF crit = << >> THEN {} ELSE {crit}
    BY <2>1, <2>2, <2>3
  <2>5. QED BY <2>4 DEF CheckCrit
<1>8. ASSUME NEW x \in Range(e)
      PROVE  /\ x[1] \in DOMAIN h \cup CritIn(layer, h)
             /\ x[1] = Cwt => x[2] = WriteCwtMap(h[Cwt])
  <2>1. x[1] \in Range(p) /\ x[2] = val[x[1]]
    BY <1>5
  <2>2. x[1] = Cwt => val[x[1]] = WriteCwtMap(h[Cwt])
    BY <1>1, <2>1
  <2>3. QED BY <1>3, <2>1, <2>2
<1>9. Cwt \in DOMAIN h => Entries(e)[Cwt] = WriteCwtMap(h[Cwt])
  BY <1>1, <1>3, <1>5
<1>10. QED BY <1>3, <1>5, <1>6, <1>7, <1>8, <1>9

-----------------------------------------------------------------------------
(* What the two ends put into their headers. *)
LEMMA ResponseShape ==
  ASSUME NEW request, NEW header, NEW at, NEW r, r = ResponseHeader(request, header, at)
  PROVE  /\ IsHeader(r)
         /\ DOMAIN r = {Alg, ContentTypeL, Cwt, SenderKeyId, InReplyTo, RequestHashL}
         /\ r[Alg] = 3 /\ r[ContentTypeL] = "sign-response" /\ r[SenderKeyId] = BrokerKey.id
         /\ r[InReplyTo] = header[Cwt][Cti] /\ r[RequestHashL] = RequestHash(request)
         /\ r[Cwt] = ResponseClaims(at) /\ DOMAIN r[Cwt] = {Iss, Iat, Exp, Cti}
         /\ r[Cwt][Iat] = at /\ r[Cwt][Exp] = at + ResponseTtl
<1> USE DEF Alg, ContentTypeL, Cwt, SenderKeyId, InReplyTo, RequestHashL, Iss, Iat, Exp, Cti
<1>1. /\ DOMAIN r = {Alg, ContentTypeL, Cwt, SenderKeyId, InReplyTo, RequestHashL}
      /\ r[Alg] = 3 /\ r[ContentTypeL] = "sign-response" /\ r[SenderKeyId] = BrokerKey.id
      /\ r[InReplyTo] = header[Cwt][Cti] /\ r[RequestHashL] = RequestHash(request)
      /\ r[Cwt] = ResponseClaims(at)
  BY DEF ResponseHeader
<1>2. /\ ResponseClaims(at) = [l \in DOMAIN ResponseClaims(at) |-> ResponseClaims(at)[l]]
      /\ DOMAIN ResponseClaims(at) = {Iss, Iat, Exp, Cti}
      /\ ResponseClaims(at)[Iat] = at /\ ResponseClaims(at)[Exp] = at + ResponseTtl
  BY DEF ResponseClaims
<1>3. r = [l \in DOMAIN r |-> r[l]]
  BY DEF ResponseHeader
<1>4. {Iss, Iat, Exp, Cti} \subseteq CwtLabels
      /\ {Alg, ContentTypeL, Cwt, SenderKeyId, InReplyTo, RequestHashL} \subseteq HeaderLabels
  BY DEF CwtLabels, HeaderLabels, BasilLabels
<1> HIDE DEF Alg, ContentTypeL, Cwt, SenderKeyId, InReplyTo, RequestHashL, Iss, Iat, Exp, Cti
<1>5. IsMap(r, HeaderLabels) /\ IsMap(r[Cwt], CwtLabels)
  BY <1>1, <1>2, <1>3, <1>4 DEF IsMap
<1>6. QED BY <1>1, <1>2, <1>5 DEF IsHeader

RequestForm(r, c, now) ==
  /\ IsHeader(r)
  /\ DOMAIN r = {Alg, ContentTypeL, Cwt, SenderKeyId, ResponseKeyId}
                  \cup (IF Ephemeral(c) THEN {Freshness, ResponsePublicKey} ELSE {})
  /\ r[Alg] = 3 /\ r[ContentTypeL] = "sign-request" /\ r[SenderKeyId] = Caller.id
  /\ r[ResponseKeyId] = BoxOf(c).id /\ (Ephemeral(c) => r[ResponsePublicKey] = c)
  /\ r[Cwt] = RequestClaims(c, now) /\ DOMAIN r[Cwt] = CwtLabels
(* The request's header. *)
LEMMA RequestShape == ASSUME NEW c, NEW now PROVE RequestForm(RequestHeader(c, now), c, now)
<1> SUFFICES ASSUME NEW r, r = RequestHeader(c, now) PROVE RequestForm(r, c, now)
  OBVIOUS
<1> USE DEF Alg, ContentTypeL, Cwt, SenderKeyId, ResponseKeyId, Freshness, ResponsePublicKey, Iss, Aud, Iat, Exp, Cti
<1>1. /\ DOMAIN r = {Alg, ContentTypeL, Cwt, SenderKeyId, ResponseKeyId}
                         \cup (IF Ephemeral(c) THEN {Freshness, ResponsePublicKey} ELSE {})
      /\ r[Alg] = 3 /\ r[ContentTypeL] = "sign-request" /\ r[SenderKeyId] = Caller.id
      /\ r[ResponseKeyId] = BoxOf(c).id /\ (Ephemeral(c) => r[ResponsePublicKey] = c)
      /\ r[Cwt] = RequestClaims(c, now)
  BY DEF RequestHeader
<1>2. /\ RequestClaims(c, now) = [l \in DOMAIN RequestClaims(c, now) |-> RequestClaims(c, now)[l]]
      /\ DOMAIN RequestClaims(c, now) = CwtLabels
  BY DEF RequestClaims, CwtLabels
<1>3. r = [l \in DOMAIN r |-> r[l]]
  BY DEF RequestHeader
<1>4. {Alg, ContentTypeL, Cwt, SenderKeyId, ResponseKeyId, Freshness, ResponsePublicKey} \subseteq HeaderLabels
  BY DEF HeaderLabels, BasilLabels
<1>5. DOMAIN r \subseteq HeaderLabels
  BY <1>1, <1>4
<1> HIDE DEF Alg, ContentTypeL, Cwt, SenderKeyId, ResponseKeyId, Freshness, ResponsePublicKey, Iss, Aud, Iat, Exp, Cti
<1>6. IsMap(r, HeaderLabels) /\ IsMap(r[Cwt], CwtLabels)
  BY <1>1, <1>2, <1>3, <1>5 DEF IsMap
<1>7. QED BY <1>1, <1>2, <1>6 DEF IsHeader, RequestForm

(* A sealed message, whatever the carrier made of it, has the content it   *)
(* was built with.                                                         *)
LEMMA BuiltAs ==
  ASSUME NEW h, IsHeader(h), NEW role, NEW plaintext, NEW recipient, NEW parties, NEW proof, NEW signer, NEW form
  PROVE  LET b == InForm(BuildSealed(h, role, plaintext, recipient, parties, proof, signer), form)
         IN SealedHeader(b) = h /\ b.payload.ciphertext.plaintext = plaintext
<1> SUFFICES ASSUME NEW m, m = BuildSealed(h, role, plaintext, recipient, parties, proof, signer),
                    NEW b, b = InForm(m, form)
             PROVE  SealedHeader(b) = h /\ b.payload.ciphertext.plaintext = plaintext
  OBVIOUS
<1>1. HeaderOf(EncodeProtected("inner", h)) = h
  BY HeaderReadBack
<1>2. /\ m.payload.protected = EncodeProtected("inner", h)
      /\ m.payload.ciphertext.plaintext = plaintext
  BY DEF BuildSealed, BuildEncrypt, SealTo
<1>3. /\ b.payload.protected = m.payload.protected
      /\ b.payload.ciphertext = m.payload.ciphertext
  BY DEF InForm, BuildSealed, BuildEncrypt
<1>4. QED BY <1>1, <1>2, <1>3 DEF SealedHeader

(* No error is taken for success. *)
LEMMA ErrorsAreNotOk ==
  /\ \A bytes, keys, p : VerifySealed(bytes, keys, p) # "Ok"
  /\ \A c, bytes : OpenAnswer(c, bytes) # "Ok"
  /\ \A o : PrepareError(o) # "Ok"
<1>1. ASSUME NEW h, NEW role PROVE ValidateRole(h, role) # "Ok"
  BY DEF ValidateRole
<1>2. ASSUME NEW h, NEW p PROVE Validate(h, p) # "Ok"
  BY <1>1 DEF Validate
<1>3. ASSUME NEW bytes, NEW keys, NEW p PROVE VerifySealed(bytes, keys, p) # "Ok"
  BY <1>2 DEF VerifySealed
<1>4. ASSUME NEW bytes, NEW recipient, NEW parties PROVE OpenSealed(bytes, recipient, parties) # "Ok"
  BY DEF OpenSealed
<1>5. ASSUME NEW c, NEW bytes PROVE OpenAnswer(c, bytes) # "Ok"
  BY <1>4 DEF OpenAnswer
<1>6. ASSUME NEW o PROVE PrepareError(o) # "Ok"
  BY DEF PrepareError
<1>7. QED BY <1>3, <1>5, <1>6

(* An answer that is accepted for a call is the answer to its request, and *)
(* carries the broker's signature over its message.                        *)
LEMMA AcceptedAnswers ==
  ASSUME NEW c, NEW now, Sent(c, now) \in WireMessages, NEW m \in MailMessages,
         VerifyAndOpen[Sent(c, now)][m] = "ok",
         AnswerBytes[m].payload.ciphertext.plaintext.code = "Ok"
  PROVE  AnswerBytes[m].payload.ciphertext.plaintext.signature
           = SignatureOf(OptionsOf[c].target, OptionsOf[c].message)
<1> DEFINE request == RequestBytes[m.to]
           granted == OptionsOf[m.to.call].granted
           header == ResponseHeader(request, SealedHeader(request), m.at)
           body == Body(request.payload.ciphertext.plaintext, granted)
<1>1. AnswerBytes[m] = InForm(Answer(request, granted, m.at), m.form)
  BY DEF AnswerBytes
<1>2. SealedHeader(AnswerBytes[m]) = header /\ AnswerBytes[m].payload.ciphertext.plaintext = body
  <2>1. IsHeader(header)
    BY ResponseShape
  <2> HIDE DEF header, body, request, granted
  <2>2. Answer(request, granted, m.at)
          = BuildSealed(header, "response", body, RecipientOf(SealedHeader(request)), NoParties, << >>, BrokerKey)
    BY DEF Answer, header, body
  <2>3. QED BY <1>1, <2>1, <2>2, BuiltAs
<1>3. BoundTo(SealedHeader(AnswerBytes[m]), RequestBytes[Sent(c, now)])
  <2>1. VerifyAndOpen[Sent(c, now)][m] = "RequestMismatch"
          \/ BoundTo(SealedHeader(AnswerBytes[m]), RequestBytes[Sent(c, now)])
          \/ VerifySealed(AnswerBytes[m], BrokerKeys, ResponseParams(Sent(c, now).at)) # "ok"
    BY DEF VerifyAndOpen, CheckAnswer, OpenBound, Sent
  <2>2. VerifySealed(AnswerBytes[m], BrokerKeys, ResponseParams(Sent(c, now).at)) = "ok"
    BY DEF VerifyAndOpen, CheckAnswer, OpenBound, Sent
  <2>3. QED BY <2>1, <2>2
<1>4. RequestHash(request) = RequestHash(RequestBytes[Sent(c, now)])
  <2>1. header[RequestHashL] = RequestHash(request)
    <3> HIDE DEF request
    <3>1. QED BY ResponseShape
  <2>2. QED BY <1>2, <1>3, <2>1 DEF BoundTo
<1>5. request = RequestBytes[Sent(c, now)]
  BY <1>4 DEF RequestHash
<1>6. RequestBytes[Sent(c, now)] = InForm(Request(c, now), "built")
  BY DEF RequestBytes, Sent
<1>7. request.payload.ciphertext.plaintext = [key_id |-> OptionsOf[c].target, message |-> OptionsOf[c].message]
  <2>1. IsHeader(RequestHeader(c, now))
    BY RequestShape DEF RequestForm
  <2> HIDE DEF request
  <2>2. RequestBytes[Sent(c, now)].payload.ciphertext.plaintext
          = [key_id |-> OptionsOf[c].target, message |-> OptionsOf[c].message]
    BY <1>6, <2>1, BuiltAs DEF Request
  <2>3. QED BY <1>5, <2>2
<1> HIDE DEF request, granted, header
<1>8. body.code = "Ok" => body.signature = SignatureOf(OptionsOf[c].target, OptionsOf[c].message)
  <2>1. CASE granted
    BY <1>7, <2>1 DEF Body
  <2>2. CASE ~granted
    BY <2>2 DEF Body
  <2>3. QED BY <2>1, <2>2
<1>9. QED BY <1>2, <1>8

-----------------------------------------------------------------------------
(* What the encoder writes, the strict decoder takes. *)
LEMMA WrittenDecodes ==
  ASSUME NEW layer \in {"outer", "inner", "parties"}, NEW h, NEW claims, NEW e, e = EncodeProtected(layer, h),
         IsHeader(h), DOMAIN h \subseteq Allowed(layer), NoneBad(e),
         Cwt \in DOMAIN h => NoneBad(Entries(e)[Cwt]),
         Alg \in DOMAIN h, h[Alg] \in Algorithms(layer), layer = "outer" => Kid \in DOMAIN h,
         IntoClaims(h), FinishClaims(layer, h, claims)
  PROVE  DecodeProtected(layer, e, claims)
<1>1. /\ HeaderOf(e) = h /\ CheckOrder(e) /\ CheckCrit(layer, h, e) /\ EncodeProtected(layer, h) = e
      /\ Cwt \in DOMAIN h => Entries(e)[Cwt] = WriteCwtMap(h[Cwt])
      /\ \A x \in Range(e) : /\ x[1] \in DOMAIN h \cup CritIn(layer, h)
                             /\ x[1] = Cwt => x[2] = WriteCwtMap(h[Cwt])
  BY HeaderReadBack
<1>2. Crit \in Allowed(layer) /\ Crit # Cwt
  BY DEF Allowed, Crit, Cwt
<1>3. ASSUME NEW x \in Range(e)
      PROVE  x[1] \in Allowed(layer) /\ x[2] # Bad /\ (x[1] = Cwt => ParseCwtMap(x[2]))
  <2>1. x[1] \in Allowed(layer) /\ x[2] # Bad
    BY <1>1, <1>2 DEF CritIn, NoneBad
  <2>2. ASSUME x[1] = Cwt PROVE ParseCwtMap(x[2])
    <3>1. Cwt \in DOMAIN h /\ x[2] = WriteCwtMap(h[Cwt])
      BY <1>1, <1>2, <2>2 DEF CritIn
    <3>2. IsMap(h[Cwt], CwtLabels)
      BY <3>1 DEF IsHeader
    <3>3. /\ CheckOrder(WriteCwtMap(h[Cwt]))
          /\ \A y \in Range(WriteCwtMap(h[Cwt])) : y[1] \in DOMAIN h[Cwt]
      BY <3>2, CwtReadBack
    <3>4. NoneBad(WriteCwtMap(h[Cwt]))
      BY <1>1, <3>1
    <3>5. QED BY <3>1, <3>2, <3>3, <3>4 DEF ParseCwtMap, IsMap, NoneBad
  <2>3. QED BY <2>1, <2>2
<1>4. QED BY <1>1, <1>3 DEF DecodeProtected

(* An argument is written in the one width that the scan accepts. *)
LEMMA OneWidth ==
  ASSUME NEW v \in Nat, v < Edge32
  PROVE  /\ EncodeHead(v) \in {0, 1, 2, 4} /\ ScanHead(EncodeHead(v), v)
         /\ ~ScanHead(Wider[EncodeHead(v)], v)
<1>1. /\ HeadRoom[0] = 23 /\ HeadRoom[1] = 255 /\ HeadRoom[2] = 65535 /\ HeadRoom[4] = Edge32 - 1
      /\ HeadRoom[8] = 2 * Edge32
  BY DEF HeadRoom
<1>2. /\ HeadMinimum[0] = 0 /\ HeadMinimum[1] = 24 /\ HeadMinimum[2] = 256 /\ HeadMinimum[4] = 65536
      /\ HeadMinimum[8] = Edge32
  BY DEF HeadMinimum
<1>3. Wider[0] = 1 /\ Wider[1] = 2 /\ Wider[2] = 4 /\ Wider[4] = 8
  BY DEF Wider
<1>4. ASSUME NEW w \in {0, 1, 2, 4, 8}, v <= HeadRoom[w], \A u \in {0, 1, 2, 4, 8} : v <= HeadRoom[u] => w <= u
      PROVE  EncodeHead(v) = w
  BY <1>4 DEF EncodeHead
<1>5. CASE v <= 23
  <2>1. EncodeHead(v) = 0
    BY <1>1, <1>4, <1>5
  <2>2. QED BY <1>2, <1>3, <1>5, <2>1 DEF ScanHead
<1>6. CASE 23 < v /\ v <= 255
  <2>1. EncodeHead(v) = 1
    BY <1>1, <1>4, <1>6
  <2>2. QED BY <1>2, <1>3, <1>6, <2>1 DEF ScanHead
<1>7. CASE 255 < v /\ v <= 65535
  <2>1. EncodeHead(v) = 2
    BY <1>1, <1>4, <1>7
  <2>2. QED BY <1>2, <1>3, <1>7, <2>1 DEF ScanHead
<1>8. CASE 65535 < v
  <2>1. EncodeHead(v) = 4
    BY <1>1, <1>4, <1>8, EdgeAssumption
  <2>2. QED BY <1>2, <1>3, <1>8, <2>1, EdgeAssumption DEF ScanHead
<1>9. QED BY <1>5, <1>6, <1>7, <1>8

(* The header of a message that a sender may seal. *)
Sealable(h, signer) ==
  /\ IsHeader(h) /\ DOMAIN h \subseteq Allowed("inner")
  /\ {Alg, ContentTypeL, Cwt, SenderKeyId} \subseteq DOMAIN h /\ h[Alg] = 3
  /\ {Iat, Cti} \subseteq DOMAIN h[Cwt] /\ ResponseKeyBinding(h) /\ h[SenderKeyId] = signer.id
(* What a sender seals, the strict decoder takes and reads back. *)
LEMMA BuiltDecodes ==
  ASSUME NEW h, NEW signer, Sealable(h, signer), signer.alg \in {-8, -7}, NEW role, NEW plaintext, NEW recipient,
         NEW proof, IsMap(proof, ProofLabels),
         NEW m, m = BuildSealed(h, role, plaintext, recipient, NoParties, proof, signer), Proper(m)
  PROVE  /\ DecodeSign1(m, "outer") /\ DecodeEncrypt(m.payload, "required")
         /\ HeaderOf(m.protected) = OuterHeader(signer, proof)
         /\ SealedHeader(m) = h /\ HeaderOf(Head(m.payload.recipients).protected) = NoParties
<1> DEFINE outer == OuterHeader(signer, proof)
           r == Head(m.payload.recipients)
<1>1. /\ m.tag = 18 /\ m.heads = Heads(SealedBytes) /\ m.protected = EncodeProtected("outer", outer)
      /\ m.unprotected = << >> /\ m.payload.tag = 96 /\ m.payload.protected = EncodeProtected("inner", h)
      /\ m.payload.unprotected = << <<Iv, "iv">> >> /\ Len(m.payload.recipients) = 1
      /\ r.protected = EncodeProtected("parties", NoParties) /\ r.ciphertext = None
      /\ r.unprotected = << <<Kid, recipient.id>>, <<EphemeralKey, "x">> >>
  <2> DEFINE one == [protected |-> EncodeProtected("parties", NoParties),
                     unprotected |-> << <<Kid, recipient.id>>, <<EphemeralKey, "x">> >>, ciphertext |-> None]
  <2>1. /\ m.tag = 18 /\ m.heads = Heads(SealedBytes) /\ m.protected = EncodeProtected("outer", outer)
        /\ m.unprotected = << >>
        /\ m.payload = BuildEncrypt(h, plaintext, recipient, NoParties, << >>)
    BY DEF BuildSealed
  <2>2. /\ m.payload.tag = 96 /\ m.payload.protected = EncodeProtected("inner", h)
        /\ m.payload.unprotected = << <<Iv, "iv">> >> /\ m.payload.recipients = <<one>>
    <3> DEFINE e == BuildEncrypt(h, plaintext, recipient, NoParties, << >>)
    <3>1. e.tag = 96 /\ e.protected = EncodeProtected("inner", h)
      BY Zenon DEF BuildEncrypt
    <3>2. e.unprotected = << <<Iv, "iv">> >>
      BY Zenon DEF BuildEncrypt
    <3>3. e.recipients = <<one>>
      BY Zenon DEF BuildEncrypt
    <3> HIDE DEF e, one
    <3>4. m.payload = e
      BY <2>1 DEF e
    <3>5. QED BY <3>1, <3>2, <3>3, <3>4
  <2>3. one.protected = EncodeProtected("parties", NoParties) /\ one.ciphertext = None
        /\ one.unprotected = << <<Kid, recipient.id>>, <<EphemeralKey, "x">> >>
    OBVIOUS
  <2> HIDE DEF one
  <2>4. r = one /\ Len(m.payload.recipients) = 1
    BY <2>2
  <2> HIDE DEF r
  <2>5. QED BY <2>1, <2>2, <2>3, <2>4
<1>2. Precheck(m.heads)
  <2>1. 4 \in Nat /\ 4 < Edge32
    BY EdgeAssumption
  <2>2. ScanHead(EncodeHead(4), 4) /\ ScanHead(EncodeHead(SealedBytes), SealedBytes)
    BY <2>1, OneWidth, PartiesAssumption
  <2>3. /\ DOMAIN m.heads = 1..2 /\ m.heads[1] = [value |-> 4, width |-> EncodeHead(4)]
        /\ m.heads[2] = [value |-> SealedBytes, width |-> EncodeHead(SealedBytes)]
    BY <1>1 DEF Heads
  <2>4. QED BY <2>2, <2>3 DEF Precheck
<1>3. /\ IsHeader(outer) /\ DOMAIN outer = {Alg, Kid} \cup DOMAIN proof
      /\ outer[Alg] = signer.alg /\ outer[Kid] = signer.id
  <2>1. /\ outer = [l \in DOMAIN outer |-> outer[l]] /\ DOMAIN outer = {Alg, Kid} \cup DOMAIN proof
        /\ outer[Alg] = signer.alg /\ outer[Kid] = signer.id
    BY DEF OuterHeader, Alg, Kid
  <2>2. Cwt \notin {Alg, Kid} \cup ProofLabels /\ {Alg, Kid} \cup ProofLabels \subseteq HeaderLabels
    BY DEF Cwt, Alg, Kid, ProofLabels, SignerCertificates, SignerPublicKey, OperationTarget, HeaderLabels
  <2>3. QED BY <2>1, <2>2 DEF IsHeader, IsMap
<1>4. DecodeProtected("outer", m.protected, "optional") /\ HeaderOf(m.protected) = outer
  <2>1. DOMAIN outer \subseteq Allowed("outer") /\ Cwt \notin DOMAIN outer /\ DOMAIN outer \cap BasilLabels = {}
    <3>1. /\ {Alg, Kid} \cup ProofLabels \subseteq Allowed("outer") /\ Cwt \notin {Alg, Kid} \cup ProofLabels
          /\ ({Alg, Kid} \cup ProofLabels) \cap BasilLabels = {}
      BY DEF Allowed, Cwt, Alg, Kid, ProofLabels, SignerCertificates, SignerPublicKey, OperationTarget, BasilLabels,
             InReplyTo, RequestHashL, SenderKeyId, ResponseKeyId, ResponseSubject, Freshness, ResponsePublicKey
    <3>2. QED BY <1>3, <3>1 DEF IsMap
  <2>2. outer[Alg] \in Algorithms("outer") /\ IntoClaims(outer) /\ FinishClaims("outer", outer, "optional")
    BY <1>3, <2>1 DEF Algorithms, IntoClaims, FinishClaims
  <2>3. NoneBad(m.protected)
    BY DEF Proper
  <2> HIDE DEF outer
  <2>4. HeaderOf(m.protected) = outer
    BY <1>1, <1>3, HeaderReadBack
  <2>5. QED BY <1>1, <1>3, <2>1, <2>2, <2>3, <2>4, WrittenDecodes
<1>5. DecodeSign1(m, "outer")
  <2>1. CheckUnprotected(<< >>, {})
    BY DEF CheckUnprotected, CheckOrder, Labels, Range
  <2>2. QED BY <1>1, <1>2, <1>4, <2>1 DEF DecodeSign1, Proper
<1>6. DecodeProtected("inner", m.payload.protected, "required") /\ SealedHeader(m) = h
  <2>1. h[Alg] \in Algorithms("inner") /\ IntoClaims(h) /\ FinishClaims("inner", h, "required")
    BY DEF Sealable, Algorithms, IntoClaims, FinishClaims
  <2>2. NoneBad(m.payload.protected) /\ NoneBad(Entries(m.payload.protected)[Cwt])
    BY DEF Proper
  <2>3. SealedHeader(m) = h
    BY <1>1, HeaderReadBack DEF SealedHeader, Sealable
  <2>4. QED BY <1>1, <2>1, <2>2, <2>3, WrittenDecodes DEF Sealable
<1>7. DecodeProtected("parties", r.protected, "optional") /\ HeaderOf(r.protected) = NoParties
  <2>1. /\ IsHeader(NoParties) /\ DOMAIN NoParties = {Alg} /\ NoParties[Alg] = -25
    BY DEF NoParties, IsHeader, IsMap, HeaderLabels, Cwt, Alg
  <2>2. /\ {Alg} \subseteq Allowed("parties") /\ Cwt \notin {Alg} /\ {Alg} \cap BasilLabels = {}
    BY DEF Allowed, Cwt, Alg, BasilLabels, InReplyTo, RequestHashL, SenderKeyId, ResponseKeyId, ResponseSubject,
           Freshness, ResponsePublicKey
  <2>3. NoParties[Alg] \in Algorithms("parties") /\ IntoClaims(NoParties) /\ FinishClaims("parties", NoParties, "optional")
    BY <2>1, <2>2 DEF Algorithms, IntoClaims, FinishClaims
  <2>4. NoneBad(r.protected)
    BY DEF Proper
  <2> HIDE DEF r
  <2>5. HeaderOf(r.protected) = NoParties
    BY <1>1, <2>1, HeaderReadBack, SMTT(40)
  <2>6. QED BY <1>1, <2>1, <2>2, <2>3, <2>4, <2>5, WrittenDecodes
<1>8. DecodeEncrypt(m.payload, "required")
  <2>1. CheckUnprotected(m.payload.unprotected, {Iv})
    <3>1. NoneBad(m.payload.unprotected)
      BY SMTT(40) DEF Proper
    <3>2. QED BY <1>1, <3>1 DEF CheckUnprotected, CheckOrder, Labels, NoneBad, Range
  <2>2. CheckUnprotected(r.unprotected, {Kid, EphemeralKey})
    <3>1. NoneBad(r.unprotected)
      BY DEF Proper
    <3>2. Before(Kid, EphemeralKey)
      BY DEF Before, CanonicalSortKey, Kid, EphemeralKey
    <3>3. QED BY <1>1, <3>1, <3>2 DEF CheckUnprotected, CheckOrder, Labels, NoneBad, Range
  <2>3. m.payload.ciphertext # None
    BY DEF Proper
  <2>4. QED BY <1>1, <1>6, <1>7, <2>1, <2>2, <2>3 DEF DecodeEncrypt
<1>9. QED BY <1>4, <1>5, <1>6, <1>7, <1>8

(* The content of what the encoder built. *)
LEMMA BuiltContent ==
  ASSUME NEW h, NEW role, NEW plaintext, NEW recipient, NEW proof, NEW signer,
         NEW m, m = BuildSealed(h, role, plaintext, recipient, NoParties, proof, signer)
  PROVE  /\ m.signature = SignWith(signer, SigStructure(m.protected, << >>, m.payload))
         /\ Head(m.payload.recipients).unprotected = << <<Kid, recipient.id>>, <<EphemeralKey, "x">> >>
         /\ Opens(m.payload.ciphertext, recipient.public, KdfContext(h[Alg], Head(m.payload.recipients).protected),
                  EncStructure(m.payload.protected, << >>))
         /\ m.payload.ciphertext.plaintext = plaintext
<1> DEFINE e == BuildEncrypt(h, plaintext, recipient, NoParties, << >>)
           parties == EncodeProtected("parties", NoParties)
           protected == EncodeProtected("inner", h)
           entries == << <<Kid, recipient.id>>, <<EphemeralKey, "x">> >>
           one == [protected |-> parties, unprotected |-> entries, ciphertext |-> None]
<1>1. m.payload = e /\ m.signature = SignWith(signer, SigStructure(m.protected, << >>, m.payload))
  BY DEF BuildSealed
<1>2. e.recipients = <<one>>
  BY Zenon DEF BuildEncrypt
<1>3. e.protected = protected
  BY Zenon DEF BuildEncrypt
<1>4. e.ciphertext = SealTo(recipient.public, KdfContext(h[Alg], parties), EncStructure(protected, << >>), plaintext)
  BY Zenon DEF BuildEncrypt
<1>5. one.protected = parties /\ one.unprotected = entries
  OBVIOUS
<1> HIDE DEF e, one
<1>6. Head(e.recipients) = one
  BY <1>2
<1> HIDE DEF parties, protected, entries
<1>7. /\ Opens(e.ciphertext, recipient.public, KdfContext(h[Alg], parties), EncStructure(protected, << >>))
      /\ e.ciphertext.plaintext = plaintext
  BY <1>4 DEF SealTo, Opens
<1>8. QED BY <1>1, <1>3, <1>5, <1>6, <1>7 DEF entries

(* A receiver that has pinned the sender's key judges a built message by   *)
(* its claims alone, and its recipient opens it.                           *)
LEMMA BuiltVerifies ==
  ASSUME NEW h, NEW signer, Sealable(h, signer), signer.alg \in {-8, -7}, NEW role, NEW plaintext, NEW recipient,
         NEW proof, IsMap(proof, ProofLabels),
         NEW m, m = BuildSealed(h, role, plaintext, recipient, NoParties, proof, signer), Proper(m),
         NEW keys, signer.id \in DOMAIN keys, keys[signer.id] = Pinned(signer), NEW p
  PROVE  VerifySealed(m, keys, p) = Validate(h, p) /\ OpenSealed(m, recipient, NoParties) = "ok"
<1> DEFINE r == Head(m.payload.recipients)
           outer == OuterHeader(signer, proof)
<1>1. /\ DecodeSign1(m, "outer") /\ DecodeEncrypt(m.payload, "required")
      /\ HeaderOf(m.protected) = outer
      /\ SealedHeader(m) = h /\ HeaderOf(r.protected) = NoParties
  BY BuiltDecodes
<1>2. /\ m.signature = SignWith(signer, SigStructure(m.protected, << >>, m.payload))
      /\ r.unprotected = << <<Kid, recipient.id>>, <<EphemeralKey, "x">> >>
      /\ Opens(m.payload.ciphertext, recipient.public, KdfContext(h[Alg], r.protected),
               EncStructure(m.payload.protected, << >>))
  BY BuiltContent
<1>3. outer[Alg] = signer.alg /\ outer[Kid] = signer.id
  BY DEF OuterHeader, Alg, Kid
<1>4. Entries(r.unprotected)[Kid] = recipient.id
  <2> DEFINE u == << <<Kid, recipient.id>>, <<EphemeralKey, "x">> >>
  <2>1. Range(u) = {<<Kid, recipient.id>>, <<EphemeralKey, "x">>}
    BY DEF Range
  <2>2. Kid # EphemeralKey
    BY DEF Kid, EphemeralKey
  <2> HIDE DEF u
  <2>3. Kid \in Labels(u) /\ \A e \in Range(u) : e[1] = Kid => e[2] = recipient.id
    BY <2>1, <2>2 DEF Labels
  <2>4. \E e \in Range(u) : e[1] = Kid
    BY <2>1
  <2>5. Entries(u)[Kid] = recipient.id
    BY <2>3, <2>4 DEF Entries
  <2>6. QED BY <1>2, <2>5 DEF u
<1> HIDE DEF r, outer
<1>5. Verify(keys, outer, SigStructure(m.protected, << >>, m.payload), m.signature)
  BY <1>2, <1>3 DEF Verify, SignWith, Pinned
<1>6. SenderKeyId \in DOMAIN h /\ h[SenderKeyId] = outer[Kid]
  BY <1>3 DEF Sealable
<1>7. VerifySealed(m, keys, p) = Validate(h, p)
  BY <1>1, <1>5, <1>6 DEF VerifySealed
<1>8. OpenSealed(m, recipient, NoParties) = "ok"
  BY <1>1, <1>2, <1>4 DEF OpenSealed, r
<1>9. QED BY <1>7, <1>8

(* No other form of it is accepted. *)
LEMMA AlteredRefused ==
  ASSUME NEW h, NEW signer, Sealable(h, signer), signer.key # OtherCaller.key, NEW role, NEW plaintext, NEW recipient,
         NEW proof, NEW m, m = BuildSealed(h, role, plaintext, recipient, NoParties, proof, signer),
         NEW keys, signer.id \in DOMAIN keys, keys[signer.id] = Pinned(signer), NEW p,
         NEW form \in RelayForms, form # "built"
  PROVE  VerifySealed(InForm(m, form), keys, p) # "ok"
<1> SUFFICES ASSUME NEW b, b = InForm(m, form) PROVE VerifySealed(b, keys, p) # "ok"
  OBVIOUS
<1>1. /\ m = [tag |-> 18, heads |-> Heads(SealedBytes), protected |-> m.protected, unprotected |-> << >>,
              payload |-> m.payload, signature |-> m.signature]
  BY DEF BuildSealed
<1>2. ~DecodeSign1(b, "outer") \/ ~DecodeEncrypt(b.payload, "required") => VerifySealed(b, keys, p) # "ok"
  BY DEF VerifySealed
<1>3. CASE form = "wide"
  <2>1. b.heads = [Heads(SealedBytes) EXCEPT ![2].width = Wider[@]]
    BY <1>1, <1>3 DEF InForm
  <2>2. DOMAIN Heads(SealedBytes) = 1..2
        /\ Heads(SealedBytes)[2] = [value |-> SealedBytes, width |-> EncodeHead(SealedBytes)]
    BY DEF Heads
  <2>3. 2 \in DOMAIN b.heads /\ b.heads[2].value = SealedBytes /\ b.heads[2].width = Wider[EncodeHead(SealedBytes)]
    BY <2>1, <2>2
  <2>4. ~Precheck(b.heads)
    BY <2>3, OneWidth, PartiesAssumption DEF Precheck
  <2>5. QED BY <1>2, <2>4 DEF DecodeSign1
<1>4. CASE form = "entry" \/ form = "claim"
  <2>1. b.unprotected = << <<Kid, "v">> >> \/ b.unprotected = << <<Cwt, << >> >> >>
    BY <1>1, <1>4 DEF InForm
  <2>2. Labels(b.unprotected) # {}
    BY <2>1, SMTT(40) DEF Labels, Range
  <2>3. QED BY <1>2, <2>2 DEF DecodeSign1, CheckUnprotected
<1>5. CASE form = "tagged"
  <2>1. b.tag = 98
    BY <1>1, <1>5 DEF InForm
  <2>2. QED BY <1>2, <2>1 DEF DecodeSign1
<1>6. CASE form = "parties"
  <2> DEFINE r == Head(m.payload.recipients)
  <2>1. b.payload = [m.payload EXCEPT !.recipients[1].protected = << >>]
    BY <1>1, <1>6 DEF InForm
  <2>2. Head(b.payload.recipients).protected = << >>
    <3> DEFINE one == [protected |-> EncodeProtected("parties", NoParties),
                       unprotected |-> << <<Kid, recipient.id>>, <<EphemeralKey, "x">> >>, ciphertext |-> None]
               e == BuildEncrypt(h, plaintext, recipient, NoParties, << >>)
    <3>1. m.payload = e /\ "recipients" \in DOMAIN e
      BY DEF BuildSealed, BuildEncrypt
    <3>2. e.recipients = <<one>>
      BY Zenon DEF BuildEncrypt
    <3>3. "protected" \in DOMAIN one
      OBVIOUS
    <3> HIDE DEF e, one
    <3>4. b.payload.recipients = [<<one>> EXCEPT ![1].protected = << >>]
      BY <2>1, <3>1, <3>2
    <3>5. b.payload.recipients = << [one EXCEPT !.protected = << >>] >>
      BY <3>4
    <3>6. Head(b.payload.recipients) = [one EXCEPT !.protected = << >>]
      BY <3>5
    <3>7. QED BY <3>3, <3>6
  <2>3. Alg \notin DOMAIN HeaderOf(<< >>)
    BY DEF HeaderOf, Entries, Labels, Range
  <2>4. ~DecodeProtected("parties", << >>, "optional")
    BY <2>3 DEF DecodeProtected
  <2>5. QED BY <1>2, <2>2, <2>4 DEF DecodeEncrypt
<1>7. CASE form = "rewrapped"
  <2> DEFINE o == OuterHeader(OtherCaller, << >>)
             w == EncodeProtected("outer", o)
  <2>1. /\ b.protected = w /\ b.payload = m.payload
        /\ b.signature = SignWith(OtherCaller, SigStructure(w, << >>, m.payload))
    BY <1>1, <1>7 DEF InForm
  <2>2. IsHeader(o) /\ o[Kid] = OtherCaller.id
    <3>1. /\ o = [l \in DOMAIN o |-> o[l]] /\ DOMAIN o = {Alg, Kid} /\ o[Kid] = OtherCaller.id
      BY DEF OuterHeader, Alg, Kid
    <3>2. Cwt \notin {Alg, Kid} /\ {Alg, Kid} \subseteq HeaderLabels
      BY DEF Cwt, Alg, Kid, HeaderLabels
    <3>3. QED BY <3>1, <3>2 DEF IsHeader, IsMap
  <2> HIDE DEF o
  <2>3. HeaderOf(b.protected) = o
    BY <2>1, <2>2, HeaderReadBack
  <2>4. SealedHeader(b) = h
    BY BuiltAs DEF Sealable
  <2>5. CASE OtherCaller.id = signer.id
    <3>1. b.signature # [by |-> keys[o[Kid]].key, over |-> SigStructure(b.protected, << >>, b.payload)]
      <4>1. b.signature.by = OtherCaller.key
        BY <2>1 DEF SignWith
      <4>2. keys[o[Kid]].key = signer.key
        BY <2>2, <2>5 DEF Pinned
      <4>3. QED BY <4>1, <4>2
    <3>2. ~Verify(keys, HeaderOf(b.protected), SigStructure(b.protected, << >>, b.payload), b.signature)
      BY <2>3, <3>1 DEF Verify
    <3>3. QED BY <3>2 DEF VerifySealed
  <2>6. CASE OtherCaller.id # signer.id
    <3>1. SenderKeyId \notin DOMAIN SealedHeader(b) \/ SealedHeader(b)[SenderKeyId] # HeaderOf(b.protected)[Kid]
      BY <2>2, <2>3, <2>4, <2>6 DEF Sealable
    <3>2. QED BY <3>1 DEF VerifySealed
  <2>7. QED BY <2>5, <2>6
<1>8. QED BY <1>3, <1>4, <1>5, <1>6, <1>7 DEF RelayForms

(* The claims of both ends have the shape of their role. *)
LEMMA RequestSealable ==
  ASSUME NEW c, NEW now, NEW h, h = RequestHeader(c, now)
  PROVE  Sealable(h, Caller) /\ ValidateRole(h, "request") = "ok"
<1>1. /\ IsHeader(h)
      /\ DOMAIN h = {Alg, ContentTypeL, Cwt, SenderKeyId, ResponseKeyId}
                      \cup (IF Ephemeral(c) THEN {Freshness, ResponsePublicKey} ELSE {})
      /\ h[Alg] = 3 /\ h[SenderKeyId] = Caller.id
      /\ h[ResponseKeyId] = BoxOf(c).id /\ (Ephemeral(c) => h[ResponsePublicKey] = c)
      /\ DOMAIN h[Cwt] = CwtLabels
  <2>1. RequestForm(h, c, now)
    BY RequestShape
  <2>2. QED BY <2>1 DEF RequestForm
<1>2. ResponseKeyBinding(h)
  <2>1. ~Ephemeral(c) => ResponsePublicKey \notin DOMAIN h
    BY <1>1 DEF ResponsePublicKey, Alg, ContentTypeL, Cwt, SenderKeyId, ResponseKeyId
  <2>2. Ephemeral(c) => BoxOf(c).id = Thumbprint(c)
    BY DEF BoxOf, EphemeralBox
  <2>3. QED BY <1>1, <2>1, <2>2 DEF ResponseKeyBinding
<1>3. /\ {Alg, ContentTypeL, Cwt, SenderKeyId, ResponseKeyId, Freshness, ResponsePublicKey} \subseteq Allowed("inner")
      /\ {Alg, ContentTypeL, Cwt, SenderKeyId, ResponseKeyId, Freshness, ResponsePublicKey}
           \cap {InReplyTo, RequestHashL} = {}
  BY DEF Allowed, BasilLabels, Alg, ContentTypeL, Cwt, SenderKeyId, ResponseKeyId, Freshness, ResponsePublicKey,
         InReplyTo, RequestHashL
<1>4. Sealable(h, Caller)
  BY <1>1, <1>2, <1>3 DEF Sealable, CwtLabels
<1>5. {SenderKeyId, ResponseKeyId} \subseteq DOMAIN h /\ DOMAIN h \cap {InReplyTo, RequestHashL} = {}
  BY <1>1, <1>3
<1>6. QED BY <1>2, <1>4, <1>5 DEF ValidateRole

(* An answer's header is one the broker may seal. *)
LEMMA ResponseSealable ==
  ASSUME NEW request, NEW header, NEW at, NEW h, h = ResponseHeader(request, header, at)
  PROVE  Sealable(h, BrokerKey) /\ ValidateRole(h, "response") = "ok"
<1>1. /\ IsHeader(h)
      /\ DOMAIN h = {Alg, ContentTypeL, Cwt, SenderKeyId, InReplyTo, RequestHashL}
      /\ h[Alg] = 3 /\ h[SenderKeyId] = BrokerKey.id /\ DOMAIN h[Cwt] = {Iss, Iat, Exp, Cti}
  BY ResponseShape
<1>2. /\ {Alg, ContentTypeL, Cwt, SenderKeyId, InReplyTo, RequestHashL} \subseteq Allowed("inner")
      /\ {Alg, ContentTypeL, Cwt, SenderKeyId, InReplyTo, RequestHashL}
           \cap {ResponseKeyId, ResponseSubject, Freshness, ResponsePublicKey} = {}
  BY DEF Allowed, BasilLabels, Alg, ContentTypeL, Cwt, SenderKeyId, ResponseKeyId, ResponseSubject, Freshness,
         ResponsePublicKey, InReplyTo, RequestHashL
<1>3. ResponseKeyBinding(h)
  BY <1>1, <1>2 DEF ResponseKeyBinding
<1>4. Sealable(h, BrokerKey)
  BY <1>1, <1>2, <1>3 DEF Sealable
<1>5. QED BY <1>1, <1>2, <1>3, <1>4 DEF ValidateRole

(* Claims of the right role and length of life fail on the clock only. *)
LEMMA TimedClaims ==
  ASSUME NEW h, NEW p, NEW at \in Nat, NEW ttl \in Nat \ {0}, {Iat, Exp} \subseteq DOMAIN h[Cwt],
         h[Cwt][Iat] = at, h[Cwt][Exp] = at + ttl, ttl <= p.maxTtl, p.now \in Nat, p.skew \in Nat, p.maxTtl \in Nat,
         p.audiences = {} \/ h[Cwt][Aud] \in p.audiences, ValidateRole(h, p.role) = "ok"
  PROVE  Validate(h, p) \in {"ok", "Expired", "IssuedInFuture"}
<1> DEFINE c == h[Cwt]
<1>1. ~(Exp \in DOMAIN c /\ c[Exp] <= c[Iat])
  OBVIOUS
<1>2. ~(Exp \in DOMAIN c /\ c[Exp] - c[Iat] > p.maxTtl)
  OBVIOUS
<1>3. ~(p.audiences # {} /\ Aud \in DOMAIN c /\ c[Aud] \notin p.audiences)
  OBVIOUS
<1>4. QED BY <1>1, <1>2, <1>3 DEF Validate

(* How the broker judges a request. *)
LEMMA RequestJudged ==
  ASSUME NEW m \in WireMessages, NEW now \in Times
  PROVE  /\ m.form = "built" => BrokerCheck[m][now] \in {"ok", "Expired", "IssuedInFuture"}
         /\ BrokerCheck[m][now] = "ok" => m.form = "built"
<1> DEFINE bytes == RequestBytes[m]
           p == RequestParams(now)
           v == VerifySealed(bytes, CallerKeys, p)
           c == m.call
           h == RequestHeader(c, m.at)
           plaintext == [key_id |-> OptionsOf[c].target, message |-> OptionsOf[c].message]
           proof == RequestProof(c)
           built == BuildSealed(h, "request", plaintext, BrokerBox, NoParties, proof, Caller)
<1>1. BrokerCheck[m][now] = IF v = "ok" THEN OpenSealed(bytes, BrokerBox, NoParties) ELSE v
  BY DEF BrokerCheck, CheckRequest, OpenRequest
<1>2. c \in RelayCalls /\ m.at \in Nat /\ m.form \in RelayForms /\ now \in Nat
  BY DEF WireMessages, Times
<1>3. bytes = InForm(built, m.form)
  BY DEF RequestBytes, Request
<1>4. Sealable(h, Caller) /\ ValidateRole(h, "request") = "ok"
  BY RequestSealable
<1>5. Caller.id \in DOMAIN CallerKeys /\ CallerKeys[Caller.id] = Pinned(Caller)
  BY DEF CallerKeys
<1>6. Validate(h, p) \in {"ok", "Expired", "IssuedInFuture"}
  <2>1. /\ DOMAIN h[Cwt] = CwtLabels
        /\ h[Cwt][Iat] = m.at /\ h[Cwt][Exp] = m.at + RequestTtl /\ h[Cwt][Aud] = "broker"
    <3>1. h[Cwt] = RequestClaims(c, m.at)
      BY RequestShape, ZenonT(40) DEF RequestForm
    <3>2. /\ DOMAIN RequestClaims(c, m.at) = CwtLabels
          /\ RequestClaims(c, m.at)[Iat] = m.at /\ RequestClaims(c, m.at)[Exp] = m.at + RequestTtl
          /\ RequestClaims(c, m.at)[Aud] = "broker"
      BY DEF RequestClaims, CwtLabels, Iss, Aud, Exp, Iat, Cti
    <3>3. QED BY <3>1, <3>2
  <2>2. /\ p.maxTtl = MaxTtl /\ p.now = now /\ p.skew = Skew /\ p.audiences = {"broker"} /\ p.role = "request"
    BY DEF RequestParams
  <2>3. {Iat, Exp} \subseteq CwtLabels
    BY DEF CwtLabels
  <2> HIDE DEF p, h
  <2>4. QED BY <1>2, <1>4, <2>1, <2>2, <2>3, TimedClaims, RelayAssumption, PartiesAssumption
<1>7. IsMap(proof, ProofLabels)
  <2>1. proof = [l \in DOMAIN proof |-> proof[l]]
        /\ DOMAIN proof = IF Ephemeral(c) THEN DOMAIN OptionsOf[c].proof \cup {OperationTarget} ELSE {}
    BY DEF RequestProof
  <2>2. DOMAIN OptionsOf[c].proof \subseteq {SignerCertificates, SignerPublicKey}
    BY <1>2, PartiesAssumption
  <2>3. QED BY <2>1, <2>2 DEF IsMap, ProofLabels
<1> HIDE DEF p, h, plaintext, proof
<1>8. CASE m.form = "built"
  <2>1. bytes = built
    BY <1>3, <1>8 DEF InForm
  <2>2. Proper(built)
    BY <2>1, <1>8, ValuesAssumption
  <2> HIDE DEF bytes
  <2>3. v = Validate(h, p) /\ OpenSealed(bytes, BrokerBox, NoParties) = "ok"
    BY <1>4, <1>5, <1>7, <2>1, <2>2, BuiltVerifies, PartiesAssumption
  <2>4. QED BY <1>1, <1>6, <1>8, <2>3
<1>9. CASE m.form # "built"
  <2>1. Caller.key # OtherCaller.key
    BY PartiesAssumption
  <2> HIDE DEF bytes
  <2>2. v # "ok"
    BY <1>2, <1>3, <1>4, <1>5, <1>9, <2>1, AlteredRefused
  <2>3. QED BY <1>1, <1>9, <2>2
<1>10. QED BY <1>8, <1>9

(* How a caller judges an answer. *)
LEMMA AnswerJudged ==
  ASSUME NEW c, NEW now, Sent(c, now) \in WireMessages, NEW m \in MailMessages, NEW error,
         error = VerifyAndOpen[Sent(c, now)][m]
  PROVE  /\ m.form = "built" => error \in {"ok", "Expired", "IssuedInFuture", "RequestMismatch"}
         /\ error = "ok" => m.form = "built"
<1> DEFINE sent == Sent(c, now)
           bytes == AnswerBytes[m]
           p == ResponseParams(now)
           v == VerifySealed(bytes, BrokerKeys, p)
           request == RequestBytes[m.to]
           h == ResponseHeader(request, SealedHeader(request), m.at)
           body == Body(request.payload.ciphertext.plaintext, OptionsOf[m.to.call].granted)
           recipient == RecipientOf(SealedHeader(request))
           built == BuildSealed(h, "response", body, recipient, NoParties, << >>, BrokerKey)
<1>1. sent.call = c /\ sent.at = now /\ sent.form = "built" /\ sent \in {w \in WireMessages : w.form = "built"}
  BY DEF Sent
<1>2. /\ v = "ok" \/ error # "ok"
      /\ error \in {v, "RequestMismatch"} \/ v = "ok"
      /\ v = "ok" => error = "RequestMismatch" \/ BoundTo(SealedHeader(bytes), RequestBytes[sent])
      /\ v = "ok" => error = "RequestMismatch" \/ error = OpenAnswer(c, bytes)
  <2> DEFINE bound == BoundTo(SealedHeader(bytes), RequestBytes[sent])
             opened == OpenAnswer(c, bytes)
  <2>1. error = IF v # "ok" THEN v ELSE IF ~bound THEN "RequestMismatch" ELSE opened
    BY <1>1 DEF VerifyAndOpen, CheckAnswer, OpenBound
  <2> HIDE DEF bound, opened, v
  <2>2. QED BY <2>1 DEF bound, opened
<1>3. bytes = InForm(built, m.form)
  BY DEF AnswerBytes, Answer
<1>4. m.at \in Nat /\ m.form \in RelayForms /\ m.to \in WireMessages /\ now \in Nat
  BY <1>1 DEF MailMessages, WireMessages, Times
<1> HIDE DEF request, body, recipient
<1>5. Sealable(h, BrokerKey) /\ ValidateRole(h, "response") = "ok"
  BY ResponseSealable
<1>6. BrokerKey.id \in DOMAIN BrokerKeys /\ BrokerKeys[BrokerKey.id] = Pinned(BrokerKey)
  BY DEF BrokerKeys
<1>7. Validate(h, p) \in {"ok", "Expired", "IssuedInFuture"}
  <2>1. DOMAIN h[Cwt] = {Iss, Iat, Exp, Cti} /\ h[Cwt][Iat] = m.at /\ h[Cwt][Exp] = m.at + ResponseTtl
    BY ResponseShape
  <2>2. /\ p.maxTtl = MaxTtl /\ p.now = now /\ p.skew = Skew /\ p.audiences = {} /\ p.role = "response"
    BY DEF ResponseParams
  <2> HIDE DEF p, h
  <2>3. QED BY <1>4, <1>5, <2>1, <2>2, TimedClaims, RelayAssumption, PartiesAssumption
<1>8. h[ContentTypeL] = "sign-response" /\ h[RequestHashL] = RequestHash(request)
  BY ResponseShape
<1> HIDE DEF p, h
<1>9. CASE m.form # "built"
  <2>1. BrokerKey.key # OtherCaller.key
    BY PartiesAssumption
  <2> HIDE DEF bytes
  <2>2. v # "ok"
    BY <1>3, <1>4, <1>5, <1>6, <1>9, <2>1, AlteredRefused
  <2>3. QED BY <1>2, <1>9, <2>2
<1>10. CASE m.form = "built"
  <2>1. bytes = built
    BY <1>3, <1>10 DEF InForm
  <2>2. Proper(built)
    BY <2>1, <1>10, ValuesAssumption
  <2>3. IsMap(<< >>, ProofLabels)
    BY DEF IsMap
  <2> HIDE DEF bytes
  <2>4. v = Validate(h, p) /\ OpenSealed(bytes, recipient, NoParties) = "ok"
    BY <1>5, <1>6, <2>1, <2>2, <2>3, BuiltVerifies, PartiesAssumption
  <2>5. SealedHeader(bytes) = h /\ bytes.payload.ciphertext.plaintext = body
    BY <1>5, <2>1, <2>2, <2>3, BuiltDecodes, BuiltContent, PartiesAssumption
  <2>6. CASE BoundTo(SealedHeader(bytes), RequestBytes[sent])
    <3>1. request = RequestBytes[sent]
      BY <1>8, <2>5, <2>6 DEF BoundTo, RequestHash
    <3>2. RequestBytes[sent] = InForm(Request(c, now), "built")
      BY <1>1 DEF RequestBytes
    <3>3. /\ SealedHeader(request) = RequestHeader(c, now)
          /\ request.payload.ciphertext.plaintext = [key_id |-> OptionsOf[c].target, message |-> OptionsOf[c].message]
      <4>1. IsHeader(RequestHeader(c, now))
        BY RequestShape DEF RequestForm
      <4>2. QED BY <3>1, <3>2, <4>1, BuiltAs DEF Request
    <3>4. recipient = BoxOf(c)
      <4> DEFINE g == RequestHeader(c, now)
      <4>1. RequestForm(g, c, now)
        BY RequestShape
      <4> HIDE DEF g
      <4>2. ResponsePublicKey \in DOMAIN g <=> Ephemeral(c)
        BY <4>1 DEF RequestForm, ResponsePublicKey, Alg, ContentTypeL, Cwt, SenderKeyId, ResponseKeyId
      <4>3. g[ResponseKeyId] = BoxOf(c).id /\ (Ephemeral(c) => g[ResponsePublicKey] = c)
        BY <4>1 DEF RequestForm
      <4>4. recipient = IF Ephemeral(c) THEN [id |-> g[ResponseKeyId], public |-> g[ResponsePublicKey]] ELSE ResponseBox
        BY <3>3, <4>2 DEF g, recipient, RecipientOf
      <4>5. QED BY <4>3, <4>4 DEF BoxOf, EphemeralBox
    <3>5. ResponseBody(body)
      <4>1. c \in RelayCalls
        BY <1>1 DEF WireMessages
      <4>2. SignatureOf(OptionsOf[c].target, OptionsOf[c].message) # None
        BY <4>1, ValuesAssumption
      <4>3. QED BY <3>3, <4>2 DEF body, Body, ResponseBody
    <3>6. OpenAnswer(c, bytes) = "ok"
      BY <1>8, <2>4, <2>5, <3>4, <3>5 DEF OpenAnswer
    <3>7. QED BY <1>2, <1>7, <1>10, <2>4, <3>6
  <2>7. CASE ~BoundTo(SealedHeader(bytes), RequestBytes[sent])
    BY <1>2, <1>7, <1>10, <2>4, <2>7
  <2>8. QED BY <2>6, <2>7
<1>11. QED BY <1>9, <1>10

-----------------------------------------------------------------------------
(* The calls and what the carrier has. *)
RelayTypes ==
  /\ clock \in Times /\ DOMAIN calls = RelayCalls
  /\ \A c \in RelayCalls :
       /\ DOMAIN calls[c] = {"stage", "now", "outcome", "signature"} /\ calls[c].now \in Times
       /\ calls[c].stage = "sent" => Sent(c, calls[c].now) \in WireMessages
  /\ wire \subseteq WireMessages /\ mail \subseteq MailMessages
RelayInv == RelayTypes /\ AnswerBound

(* The invariant holds at the start, ... *)
LEMMA RelayInitInv == RelayInit => RelayInv
BY RelayAssumption DEF RelayInit, RelayInv, RelayTypes, AnswerBound, RelayIdle, Times

(* What the end of a call changes. *)
LEMMA EndKeeps ==
  ASSUME RelayInv, NEW c \in RelayCalls, NEW outcome, NEW signature, Ended(c, outcome, signature),
         outcome = "Ok" => signature = SignatureOf(OptionsOf[c].target, OptionsOf[c].message)
  PROVE  /\ DOMAIN calls' = RelayCalls
         /\ \A d \in RelayCalls :
              /\ DOMAIN calls'[d] = {"stage", "now", "outcome", "signature"} /\ calls'[d].now \in Times
              /\ calls'[d].stage = "sent" => Sent(d, calls'[d].now) \in WireMessages
         /\ AnswerBound'
<1>1. DOMAIN calls' = RelayCalls /\ \A d \in RelayCalls : d # c => calls'[d] = calls[d]
  BY DEF Ended, RelayInv, RelayTypes
<1>2. /\ DOMAIN calls'[c] = {"stage", "now", "outcome", "signature"} /\ calls'[c].now = calls[c].now
      /\ calls'[c].stage = "done" /\ calls'[c].outcome = outcome /\ calls'[c].signature = signature
  BY DEF Ended, RelayInv, RelayTypes
<1>3. AnswerBound'
  BY <1>1, <1>2 DEF AnswerBound, RelayInv
<1>4. QED BY <1>1, <1>2, <1>3 DEF RelayInv, RelayTypes

(* ... and every step keeps it. *)
LEMMA RelayStep == RelayInv /\ [RelayNext(RelayCalls, RelayForms)]_relayVars => RelayInv'
<1> SUFFICES ASSUME RelayInv, [RelayNext(RelayCalls, RelayForms)]_relayVars PROVE RelayInv'
  OBVIOUS
<1> USE DEF RelayInv
<1>1. ASSUME NEW c \in RelayCalls, Prepare(c) PROVE RelayInv'
  <2>1. CASE PrepareError(OptionsOf[c]) # "ok"
    <3>1. Ended(c, PrepareError(OptionsOf[c]), None) /\ UNCHANGED <<clock, wire, mail>>
      BY <1>1, <2>1 DEF Prepare
    <3>2. QED BY <3>1, EndKeeps, ErrorsAreNotOk DEF RelayTypes
  <2>2. CASE PrepareError(OptionsOf[c]) = "ok"
    <3>1. /\ calls' = [calls EXCEPT ![c].stage = "sent", ![c].now = clock]
          /\ wire' = wire \cup {Sent(c, clock)} /\ UNCHANGED <<clock, mail>>
      BY <1>1, <2>2 DEF Prepare
    <3>2. Sent(c, clock) \in WireMessages
      BY <2>2 DEF Sent, WireMessages, RelayForms, RelayTypes
    <3>3. DOMAIN calls' = RelayCalls /\ \A d \in RelayCalls : d # c => calls'[d] = calls[d]
      BY <3>1 DEF RelayTypes
    <3>4. /\ DOMAIN calls'[c] = {"stage", "now", "outcome", "signature"} /\ calls'[c].now = clock
          /\ calls'[c].outcome = calls[c].outcome /\ calls'[c].signature = calls[c].signature
      BY <3>1 DEF RelayTypes
    <3>5. RelayTypes'
      BY <3>1, <3>2, <3>3, <3>4 DEF RelayTypes
    <3>6. AnswerBound'
      BY <3>3, <3>4 DEF AnswerBound
    <3>7. QED BY <3>5, <3>6
  <2>3. QED BY <2>1, <2>2
<1>2. ASSUME NEW c \in RelayCalls, CarrierFails(c) PROVE RelayInv'
  <2>1. Ended(c, "carrier", None) /\ UNCHANGED <<clock, wire, mail>>
    BY <1>2 DEF CarrierFails
  <2>2. QED BY <2>1, EndKeeps DEF RelayTypes
<1>3. ASSUME NEW c \in RelayCalls, NEW m \in mail, Receive(c, m) PROVE RelayInv'
  <2> DEFINE body == AnswerBytes[m].payload.ciphertext.plaintext
             error == VerifyAndOpen[Sent(c, calls[c].now)][m]
  <2>1. Sent(c, calls[c].now) \in WireMessages /\ m \in MailMessages
    BY <1>3 DEF Receive, RelayTypes
  <2>2. /\ IF error = "ok" THEN Ended(c, body.code, body.signature) ELSE Ended(c, error, None)
        /\ UNCHANGED <<clock, wire, mail>>
    BY <1>3 DEF Receive
  <2>3. error # "Ok"
    <3>1. Sent(c, calls[c].now) \in {w \in WireMessages : w.form = "built"}
      BY <2>1 DEF Sent
    <3>2. \/ error = "RequestMismatch"
          \/ error = VerifySealed(AnswerBytes[m], BrokerKeys, ResponseParams(Sent(c, calls[c].now).at))
          \/ error = OpenAnswer(Sent(c, calls[c].now).call, AnswerBytes[m])
      BY <2>1, <3>1 DEF VerifyAndOpen, CheckAnswer, OpenBound
    <3>3. QED BY <3>2, ErrorsAreNotOk
  <2>4. error = "ok" /\ body.code = "Ok" => body.signature = SignatureOf(OptionsOf[c].target, OptionsOf[c].message)
    BY <2>1, AcceptedAnswers
  <2> HIDE DEF body, error
  <2>5. CASE error = "ok"
    BY <2>2, <2>4, <2>5, EndKeeps DEF RelayTypes
  <2>6. CASE error # "ok"
    BY <2>2, <2>3, <2>6, EndKeeps DEF RelayTypes
  <2>7. QED BY <2>5, <2>6
<1>4. ASSUME NEW m \in wire, Serve(m) PROVE RelayInv'
  <2>1. [to |-> m, at |-> clock, form |-> "built"] \in MailMessages
    BY DEF RelayTypes, MailMessages, RelayForms
  <2>2. mail' \subseteq MailMessages /\ UNCHANGED <<clock, calls, wire>>
    BY <1>4, <2>1 DEF Serve, RelayTypes
  <2>3. QED BY <2>2 DEF RelayTypes, AnswerBound
<1>5. ASSUME NEW m \in wire \cup mail, NEW form \in RelayForms, Alter(m, form) PROVE RelayInv'
  <2>1. m \in wire => [m EXCEPT !.form = form] \in WireMessages
    BY DEF RelayTypes, WireMessages
  <2>2. m \in mail => [m EXCEPT !.form = form] \in MailMessages
    BY DEF RelayTypes, MailMessages
  <2>3. wire' \subseteq WireMessages /\ mail' \subseteq MailMessages /\ UNCHANGED <<clock, calls>>
    BY <1>5, <2>1, <2>2 DEF Alter, RelayTypes
  <2>4. QED BY <2>3 DEF RelayTypes, AnswerBound
<1>6. CASE RelayTick
  BY <1>6, RelayAssumption DEF RelayTick, RelayTypes, AnswerBound, Times
<1>7. CASE UNCHANGED relayVars
  BY <1>7 DEF relayVars, RelayTypes, AnswerBound
<1>8. QED BY <1>1, <1>2, <1>3, <1>4, <1>5, <1>6, <1>7 DEF RelayNext

(* A signing call succeeds only with the broker's signature over its own   *)
(* message, whatever the carrier does with requests and answers            *)
(* (verify_and_open_sign_response).                                        *)
THEOREM AnswerBoundHolds == RelaySpec => []AnswerBound
<1>1. RelayInv => AnswerBound
  BY DEF RelayInv
<1>2. QED BY <1>1, RelayInitInv, RelayStep, PTL DEF RelaySpec

(* The strict codec accepts what the encoder writes and nothing else: a    *)
(* message that a key holder built is refused for its time or as the       *)
(* answer to another call, and every other form of it is refused (precheck, *)
(* decode_sign1_strict, verify_sealed).                                    *)
THEOREM CodecExactHolds == RelaySpec => []CodecExact
<1>1. RelayInit => CodecExact
  BY DEF RelayInit, CodecExact, EncodingAccepted, NoSecondForm
<1>2. RelayInv /\ CodecExact /\ [RelayNext(RelayCalls, RelayForms)]_relayVars => CodecExact'
  <2> SUFFICES ASSUME RelayInv, CodecExact, [RelayNext(RelayCalls, RelayForms)]_relayVars PROVE CodecExact'
    OBVIOUS
  <2>1. ASSUME UNCHANGED verdict PROVE CodecExact'
    BY <2>1 DEF CodecExact, EncodingAccepted, NoSecondForm
  <2>2. ASSUME NEW m \in wire, Serve(m) PROVE CodecExact'
    <3>1. m \in WireMessages /\ clock \in Times
      BY DEF RelayInv, RelayTypes
    <3>2. verdict'.message = m /\ verdict'.error = BrokerCheck[m][clock]
      BY <2>2 DEF Serve
    <3>3. QED BY <3>1, <3>2, RequestJudged DEF CodecExact, EncodingAccepted, NoSecondForm
  <2>3. ASSUME NEW c \in RelayCalls, NEW m \in mail, Receive(c, m) PROVE CodecExact'
    <3>1. Sent(c, calls[c].now) \in WireMessages /\ m \in MailMessages
      BY <2>3 DEF Receive, RelayInv, RelayTypes
    <3>2. verdict'.message = m /\ verdict'.error = VerifyAndOpen[Sent(c, calls[c].now)][m]
      BY <2>3 DEF Receive
    <3>3. QED BY <3>1, <3>2, AnswerJudged DEF CodecExact, EncodingAccepted, NoSecondForm
  <2>4. QED BY <2>1, <2>2, <2>3 DEF RelayNext, Prepare, CarrierFails, Alter, RelayTick, relayVars
<1>3. QED BY <1>1, <1>2, RelayInitInv, RelayStep, PTL DEF RelaySpec
=============================================================================

------------------------------ MODULE CiSession ------------------------------
(***************************************************************************)
(* `basil ci session`: a helper that runs beside one CI job.  It reads a   *)
(* bootstrap frame, makes a private runtime directory and a proof key,     *)
(* fetches the job's identity token, binds its sockets, prints its         *)
(* outputs, waits to be acknowledged, and serves: a control socket, and,   *)
(* when one is configured, an adapter that makes one sealed invocation     *)
(* under the identity.  The identity is refreshed before it expires; the   *)
(* session ends on a signal, on a shutdown request, on an error, or when   *)
(* its identity expires.                                                   *)
(*                                                                         *)
(* Time is in seconds.  A timer fires at any moment of the second it is    *)
(* set for: what it is rounded to depends on when it was set.              *)
(***************************************************************************)
EXTENDS Integers, FiniteSets, SequencesExt

CONSTANTS
  Conns,       \* connections to the two sockets
  MaxAge,      \* the rule's maximum token age
  Lifetimes,   \* lifetimes of the tokens the provider gives out
  NoTime,      \* no time set
  Horizon,     \* the last second looked at
  MaxTasks     \* MAX_SESSION_CONNECTIONS

ASSUME CiAssumption ==
  /\ MaxAge \in 1..900 /\ Lifetimes \subseteq Nat /\ Horizon \in Nat /\ MaxTasks \in Nat
  /\ NoTime \notin Nat

VARIABLES
  now,      \* the clock
  registered, \* an adapter is configured
  phase,    \* boot, fetching, binding, printed, serving, ended
  served,   \* when the session began to serve
  why,      \* how the session ended
  until,    \* effective validity of the identity
  refresh,  \* [next |-> when the next refresh starts, flying |-> since when one is under way]
  lastFetch,\* what became of the last token request: ok, short, failed
  made,     \* names in the file system made by the session
  leaked,   \* a name was made and never pinned (its open failed)
  task,     \* connection tasks
  used,     \* the one-shot claim of the adapter
  told,     \* a client was told that the session shuts down
  invoked,  \* invocations sent to the broker
  answers   \* Ok answers of the adapter: the identity's validity, and the time

ciVars == <<now, registered, phase, served, why, until, refresh, lastFetch, made, leaked, task, used, told,
            invoked, answers>>

----------------------------------------------------------------------------
(* Time. *)

(* effective_valid_until *)
ValidUntil(iat, exp) == Min({exp, iat + MaxAge})

IdentityIsValid(t) == now < t

Clamp(n, lo, hi) == IF n < lo THEN lo ELSE IF n > hi THEN hi ELSE n

(* refresh_at *)
RefreshAt(t, at) == IF at >= t THEN NoTime ELSE Max({t - Clamp((t - at) \div 5, 1, 30), at})

(* refresh_after_success_at: not in the second the last one ended. *)
RefreshAfterSuccess_Never(t, at) == NoTime
RefreshAfterSuccess(t, at) ==
  IF RefreshAt(t, at) # NoTime /\ RefreshAt(t, at) > at THEN RefreshAt(t, at) ELSE NoTime

(* retry_refresh_at *)
RetryRefresh(t, at) == IF at + 1 < t THEN at + 1 ELSE NoTime

----------------------------------------------------------------------------
(* The session. *)

NoTask == [pc |-> "none", kind |-> "none", until |-> 0]
Live == {c \in Conns : task[c].pc \notin {"none", "gone"}}
Adapters == {c \in Live : task[c].kind = "adapter"}

(* The parts of a session are dropped in the order of PreparedSession: the *)
(* sockets, then the directory, which goes only when it is empty; every    *)
(* name only while it is the one that was made.                            *)
SocketsDropped(names) == names \ {"control", "adapter"}
Dropped(names) ==
  IF SocketsDropped(names) = {"directory"} THEN {} ELSE SocketsDropped(names)

SessionEnds(reason) ==
  /\ phase' = "ended" /\ why' = reason
  /\ made' = Dropped(made)
  /\ task' = [c \in Conns |-> [NoTask EXCEPT !.pc = "gone"]]
  /\ refresh' = [next |-> NoTime, flying |-> NoTime]

Keep == UNCHANGED <<registered, used, told, invoked, answers>>

(* RuntimeDirectory::create: a directory that is made but cannot be opened *)
(* is not pinned, and stays.                                               *)
CreateDirectory ==
  /\ made' = {"directory"}
  /\ \/ phase' = "fetching" /\ UNCHANGED <<why, leaked>>
     \/ phase' = "ended" /\ why' = "refused" /\ leaked' = TRUE
  /\ UNCHANGED <<task, refresh>>
(* read_bootstrap_frame, cross_check, verify_executable: any of them       *)
(* refuses before anything is made.                                        *)
Bootstrap ==
  /\ phase = "boot"
  /\ \/ SessionEnds("refused") /\ UNCHANGED leaked
     \/ CreateDirectory
  /\ UNCHANGED <<now, served, until, lastFetch>> /\ Keep

(* A token request: refused for its URL or origin, failed, answered with   *)
(* too much, or a token; SessionIdentity::new refuses one that is over.    *)
TokenFails == lastFetch' = "failed" /\ UNCHANGED until
NewIdentity(t) == IdentityIsValid(t) /\ until' = t
Tokens == {ValidUntil(now, now + life) : life \in Lifetimes}

(* The proof key and the first token. *)
FirstToken ==
  /\ phase = "fetching"
  /\ \/ SessionEnds("refused") /\ TokenFails
     \/ /\ \E t \in Tokens : NewIdentity(t)
        /\ lastFetch' = "ok" /\ phase' = "binding" /\ UNCHANGED <<why, made, task, refresh>>
  /\ UNCHANGED <<now, served, leaked>> /\ Keep

(* SecureListener::bind, for the control socket and for an adapter's: a    *)
(* socket whose name cannot be pinned stays.                               *)
Bind ==
  /\ phase = "binding"
  /\ \E name \in {IF "control" \in made THEN "adapter" ELSE "control"} :
       \/ /\ made' = made \cup {name}
          /\ phase' = IF registered /\ name = "control" THEN "binding" ELSE "printed"
          /\ UNCHANGED <<why, task, refresh, leaked>>
       \/ SessionEnds("refused") /\ UNCHANGED leaked
       \/ /\ leaked' = TRUE /\ made' = made \cup {name} /\ phase' = "ended"
          /\ why' = "refused" /\ UNCHANGED <<task, refresh>>
  /\ UNCHANGED <<now, served, until, lastFetch>> /\ Keep

(* The outputs are printed, and then the commit byte must come, without a  *)
(* deadline: the identity may have expired by then, and no refresh is set. *)
Commit ==
  /\ phase = "printed"
  /\ phase' = "serving" /\ served' = now
  /\ refresh' = [next |-> RefreshAt(until, now), flying |-> NoTime]
  /\ UNCHANGED <<now, why, made, task, until, lastFetch, leaked>> /\ Keep

Ends(reason) == SessionEnds(reason) /\ UNCHANGED <<now, served, until, lastFetch, leaked>> /\ Keep

(* A commit byte before the outputs, another byte, or the end of input.    *)
Uncommitted == phase \in {"fetching", "printed"} /\ Ends("refused")

(* The session waits for signals where it waits at all. *)
Signal == phase \in {"fetching", "printed", "serving"} /\ Ends("signal")

(* The arms of the serving loop, in their order. *)
Expired == phase = "serving" /\ now >= until
RefreshDue == /\ phase = "serving"
              /\ refresh.next # NoTime /\ refresh.flying = NoTime /\ now >= refresh.next

Expire == Expired /\ Ends("expired")

StartRefresh ==
  /\ RefreshDue
  /\ refresh' = [next |-> NoTime, flying |-> now]
  /\ UNCHANGED <<now, phase, served, why, until, lastFetch, made, leaked, task>> /\ Keep

(* refresh_identity and schedule_after_refresh: a new token of any         *)
(* lifetime replaces the old, under the same proof key; a failure is tried *)
(* again a second later, and ends the session once the identity is over.   *)
EndRefresh ==
  /\ phase = "serving" /\ refresh.flying # NoTime
  /\ \/ /\ \E t \in Tokens :
             /\ NewIdentity(t) /\ lastFetch' = IF t - now <= 1 THEN "short" ELSE "ok"
             /\ refresh' = [next |-> RefreshAfterSuccess(t, now), flying |-> NoTime]
        /\ UNCHANGED <<phase, why, made, task>>
     \/ /\ ~Expired /\ TokenFails
        /\ refresh' = [next |-> RetryRefresh(until, now), flying |-> NoTime]
        /\ UNCHANGED <<phase, why, made, task>>
     \/ Expired /\ TokenFails /\ SessionEnds("expired")
  /\ UNCHANGED <<now, served, leaked>> /\ Keep

(* Before the first token nothing depends on the time. *)
Tick ==
  /\ phase \in {"printed", "serving"} /\ ~Expired /\ ~RefreshDue /\ now < Horizon
  /\ now' = now + 1
  /\ UNCHANGED <<phase, served, why, until, refresh, lastFetch, made, leaked, task>> /\ Keep

----------------------------------------------------------------------------
(* Connections. *)

TaskStep == UNCHANGED <<now, registered, phase, served, why, until, refresh, lastFetch, made, leaked>>

(* An accepted connection takes a slot, the adapter's only slot too, or is *)
(* dropped.                                                                *)
AcceptConn(c, kind) ==
  /\ phase = "serving" /\ task[c].pc = "none" /\ Cardinality(Live) < MaxTasks
  /\ kind = "adapter" => registered
  /\ task' = [task EXCEPT ![c] =
       IF kind = "adapter" /\ Adapters # {} THEN [NoTask EXCEPT !.pc = "gone"]
       ELSE [NoTask EXCEPT !.pc = "open", !.kind = kind]]
  /\ TaskStep /\ Keep

(* A connection's task ends: its one frame was read and answered, or was   *)
(* not; the peer may be of another user.                                   *)
Leaves(c) == task' = [task EXCEPT ![c].pc = "gone"]

(* handle_control_inner *)
Control(c) ==
  /\ task[c].pc = "open" /\ task[c].kind = "control"
  /\ Leaves(c)
  /\ told' = TRUE \/ UNCHANGED told      \* shutdown, or status or rejected
  /\ TaskStep /\ UNCHANGED <<used, invoked, answers>>

Shutdown == phase = "serving" /\ told /\ Ends("shutdown")

(* A listener fails to accept, or a connection's task did not end well. *)
LoopFails ==
  /\ phase = "serving" /\ (Cardinality(Live) < MaxTasks \/ \E c \in Conns : task[c].pc # "none")
  /\ Ends("error")

(* read_adapter_request: the claim comes first, so that a request that     *)
(* cannot be read uses it up.  Then the identity of that moment is taken.  *)
Claimable == ~used
(* qualify: a challenge, and one sealed invocation under the identity. *)
Qualify(c) ==
  /\ task' = [task EXCEPT ![c].pc = "invoking", ![c].until = until]
  /\ invoked' = invoked + 1
Request(c) ==
  /\ task[c].pc = "open" /\ task[c].kind = "adapter"
  /\ used' = TRUE
  /\ \/ Claimable /\ IdentityIsValid(until) /\ Qualify(c)
     \/ Leaves(c) /\ UNCHANGED invoked
  /\ TaskStep /\ UNCHANGED <<told, answers>>

(* validate_result: the invocation comes back with the result that the     *)
(* configuration expects, signed or denied, or it gives no evidence.       *)
Outcome(c, got, expected) == IF got = expected THEN {[until |-> task[c].until, at |-> now]} ELSE {}
(* The evidence is given out only while that identity is valid. *)
Invoked(c) ==
  /\ task[c].pc = "invoking"
  /\ Leaves(c)
  /\ \/ /\ IdentityIsValid(task[c].until)
        /\ \E got \in {"signed", "denied", "other"}, expected \in {"signed", "denied"} :
             answers' = answers \cup Outcome(c, got, expected)
     \/ UNCHANGED answers
  /\ TaskStep /\ UNCHANGED <<used, told, invoked>>

(* Five seconds are over, the client is of another user, or it hangs up. *)
HangUp(c) ==
  /\ c \in Live /\ Leaves(c)
  /\ TaskStep /\ Keep

----------------------------------------------------------------------------

CiInit ==
  /\ registered \in BOOLEAN /\ served = NoTime
  /\ now = 0 /\ phase = "boot" /\ why = "none" /\ until = 0 /\ lastFetch = "none"
  /\ refresh = [next |-> NoTime, flying |-> NoTime]
  /\ made = {} /\ leaked = FALSE /\ task = [c \in Conns |-> NoTask]
  /\ used = FALSE /\ told = FALSE /\ invoked = 0 /\ answers = {}

CiNext ==
  \/ Bootstrap \/ FirstToken \/ Bind \/ Commit \/ Uncommitted \/ Signal \/ Expire
  \/ StartRefresh \/ EndRefresh \/ Tick \/ Shutdown \/ LoopFails
  \/ \E c \in Conns :
       \/ \E kind \in {"control", "adapter"} : AcceptConn(c, kind)
       \/ Control(c) \/ Request(c) \/ Invoked(c) \/ HangUp(c)

CiSpec == CiInit /\ [][CiNext]_ciVars

----------------------------------------------------------------------------
(* Properties. *)

(* Evidence is given out only while the identity it was obtained under is  *)
(* valid, although refreshes replace the identity meanwhile, and a session *)
(* makes one invocation at most, whoever connects.                         *)
EvidenceTimely == invoked <= 1 /\ \A a \in answers : a.at < a.until

(* A session that serves runs into the expiry of its identity only if the  *)
(* last token request failed, is still under way, or was a refresh that    *)
(* brought a token too short to renew, or if the identity was over before  *)
(* the commit byte came: else no refresh is forgotten.                     *)
ExpiryExplained ==
  (phase = "serving" /\ now >= until) =>
    \/ lastFetch \in {"failed", "short"} \/ refresh.flying # NoTime
    \/ served >= until

(* A session that ends takes its sockets and its directory with it, at     *)
(* whichever step it ends.                                                 *)
NothingLeft == phase = "ended" /\ ~leaked => made = {}

(* A session proves an identity that is valid, renews it for as long as    *)
(* the provider lets it once it serves, and leaves nothing behind.         *)
SessionSound == EvidenceTimely /\ ExpiryExplained /\ NothingLeft
=============================================================================

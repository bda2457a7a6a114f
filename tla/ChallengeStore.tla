--------------------------- MODULE ChallengeStore ---------------------------
(***************************************************************************)
(* What the challenge table promises the invocation service: a challenge   *)
(* that was handed out can be taken once, by a request signed with the key *)
(* it is bound to, pinned to the generation it was issued under, by the    *)
(* agent process that issued it, before it expires.  Capacity, metering,   *)
(* and when expired records are purged are left open.  Challenge           *)
(* implements this specification; Invocation is built on it.               *)
(***************************************************************************)
EXTENDS Integers, FiniteSets

CONSTANTS Jkts, Gens, Ttl, MaxTime, MaxIssues

VARIABLES
  now,      \* the wall clock
  instance, \* the running agent process
  live,     \* suffix -> the record of a challenge that was not taken
  used,     \* suffixes of challenges that were taken
  issued    \* every challenge handed out

storeVars == <<now, instance, live, used, issued>>

Drop(f, gone) == [s \in DOMAIN f \ gone |-> f[s]]
Lapsed == {s \in DOMAIN live : now > live[s].expires}

StoreInit == now = 0 /\ instance = 0 /\ live = << >> /\ used = {} /\ issued = {}

(* issue, with whatever part of the lapsed records its purge reached. *)
Hand(j, g) ==
  /\ Cardinality(issued) < MaxIssues
  /\ LET s == Cardinality(issued)
     IN  /\ issued' = issued \cup {[inst |-> instance, suffix |-> s, jkt |-> j, gen |-> g,
                                    expires |-> now + Ttl]}
         /\ \E gone \in SUBSET Lapsed :
              live' = [x \in (DOMAIN live \ gone) \cup {s} |->
                         IF x = s THEN [jkt |-> j, gen |-> g, expires |-> now + Ttl] ELSE live[x]]
  /\ UNCHANGED <<now, instance, used>>

(* A purge alone, as a declined issue leaves it. *)
Purge == \E gone \in SUBSET Lapsed : live' = Drop(live, gone) /\ UNCHANGED <<now, instance, used, issued>>

(* What consume answers to challenge ch on a request signed by j, pinned   *)
(* to g.                                                                   *)
Verdict(ch, j, g) ==
  IF ch.inst # instance THEN "foreign"
  ELSE IF ch.suffix \notin DOMAIN live THEN "unknown"
  ELSE IF now > live[ch.suffix].expires THEN "expired"
  ELSE IF live[ch.suffix].jkt # j THEN "jkt_mismatch"
  ELSE IF live[ch.suffix].gen # g THEN "generation_mismatch"
  ELSE "ok"

Present(ch, j, g) ==
  LET v == Verdict(ch, j, g) IN
  /\ live' = IF v \in {"ok", "expired", "generation_mismatch"} THEN Drop(live, {ch.suffix}) ELSE live
  /\ used' = IF v = "ok" THEN used \cup {ch.suffix} ELSE used
  /\ UNCHANGED <<now, instance, issued>>

(* The clock is set, forward or back. *)
SetClock == \E t \in 0 .. MaxTime : now' = t /\ UNCHANGED <<instance, live, used, issued>>

(* A new process starts with an empty table. *)
Reborn == instance' = instance + 1 /\ live' = << >> /\ UNCHANGED <<now, used, issued>>

StoreNext ==
  \/ \E j \in Jkts, g \in Gens : Hand(j, g)
  \/ Purge
  \/ \E ch \in issued, j \in Jkts, g \in Gens : Present(ch, j, g)
  \/ SetClock
  \/ Reborn

StoreSpec == StoreInit /\ [][StoreNext]_storeVars
=============================================================================

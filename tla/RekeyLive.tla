----------------------------- MODULE RekeyLive -----------------------------
(* Recovery of an interrupted rekey, as a liveness property.  The variable *)
(* calm marks the instant after which nothing fails any more (no error, no *)
(* kill, no power loss) and the operator starts no further broker.  Calm   *)
(* cannot be said with the actions of Rekey alone: a refused run and a     *)
(* failed one take the same step.                                          *)
EXTENDS Rekey
VARIABLE calm

BeginCalm == ~calm /\ calm' = TRUE /\ UNCHANGED vars

NoNewBroker ==
  \A a \in Agents : agent'[a].st = "unlocked" => agent[a].st = "unlocked"

LiveNext ==
  \/ Quiet /\ (calm => NoNewBroker) /\ UNCHANGED calm
  \/ Fault /\ ~calm /\ UNCHANGED calm
  \/ BeginCalm

(* The operator reruns --resume until it succeeds, whatever else is run in *)
(* between (strong fairness), and a run whose steps do not fail goes on to *)
(* its end.  A broker that began to start reaches its store or exits.      *)
Fairness ==
  /\ \A c \in Clis :
       /\ WF_vars(Proceed(c))
       /\ WF_vars(Fresh(c) /\ pc[c] # "idle")
       /\ SF_vars(StartResume(c))
       /\ WF_vars(ReadMarker(c))
  /\ \A a \in Agents : WF_vars(LockStore(a) \/ OpenStore(a) \/ RefuseStart(a))

LiveSpec == Init /\ calm = FALSE /\ [][LiveNext]_<<vars, calm>> /\ Fairness

(* Once errors and crashes stop, an intent marker is eventually removed:   *)
(* no interruption leaves a state in which rerunning --resume is refused   *)
(* for ever.                                                               *)
RekeyRecovers == [](calm /\ dir.marker # None => <>(dir.marker = None))
=============================================================================

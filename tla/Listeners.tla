------------------------------ MODULE Listeners ------------------------------
(* The listener runtime (transport/grpc_server.rs, listener_manager.rs,      *)
(* rewire.rs) over the connection registry.  Accept loops register what they *)
(* accept; a reload replaces the listener set in one transition: it gates    *)
(* the listeners it disturbs, stages and publishes sockets, commits the new  *)
(* generation, starts the new loops and retires the old ones.  A transition  *)
(* may fail or be dropped at an await, the broker may be asked to stop, and  *)
(* something else may put its own object at a socket path.                   *)
(*                                                                           *)
(* Reloads are serialized by live_reload_lock (module Reload), so there is   *)
(* one transition at a time.  A socket is the number of its inode, and the   *)
(* accept loop is that of its UnixListener; the number is free again when    *)
(* the listener is closed and nothing holds it.                              *)
EXTENDS Connections

CONSTANTS
  Paths,        \* socket paths
  Startup,      \* the listener set at startup
  Candidates,   \* the listener sets reloads ask for
  Reload,       \* the guard of the transition
  Peer,         \* the uid of the clients
  Alien,        \* the foreign object
  LastInode,    \* bound on sockets at one time
  MaxReloads,   \* bound on reloads
  MaxForeign    \* bound on foreign interventions

Sockets == 1..LastInode
(* A ListenerConfigSet: distinct paths, and at least one host listener. *)
WellFormed(set) ==
  /\ DOMAIN set \subseteq Names
  /\ \A n \in DOMAIN set : set[n] \in [kind : Kinds, path : Paths]
  /\ \A m, n \in DOMAIN set : set[m].path = set[n].path => m = n
  /\ \E n \in DOMAIN set : set[n].kind = Host
ASSUME ListenersOK ==
  /\ \A set \in Candidates \cup {Startup} : WellFormed(set)
  /\ Reload \in Guards /\ Peer \in Uids
  /\ Alien \notin Int \cup {None} /\ None \notin [name : Names, kind : Kinds, path : Paths]
  /\ MaxForeign \in Nat /\ MaxReloads \in Nat /\ LastInode \in Nat
  /\ IsFiniteSet(DOMAIN Startup) /\ Cardinality(DOMAIN Startup) <= LastInode

VARIABLES
  config,    \* listeners of the serving generation
  ledger,    \* RewireLedger: the oldest path wiring may still record
  made,      \* what each socket was bound for
  loop,      \* each socket's UnixListener and its accept loop
  via,       \* the accept loop a transport came through
  sock,      \* what is at each path
  stage,     \* what is in each socket's private staging directory
  running,   \* ListenerRuntimeState.running; 0 for a missing name
  tr,        \* the transition
  phase,     \* of the process
  draining,  \* what run_until_shutdown took from running
  \* History:
  original,  \* the path each listener had when it was added
  touched,   \* paths something else has put its object at
  lost,      \* paths at which something else's object has been unlinked
  aliens,    \* foreign interventions so far
  reloads    \* reloads so far

vars == <<registry, config, ledger, made, loop, via, sock, stage, running,
          tr, phase, draining, original, touched, lost, aliens,
          reloads>>
files == <<sock, stage>>
history == <<touched, lost, aliens, reloads>>

States == {"none", "bound", "serving", "asked", "stopping", "closed", "failed"}
EndedStates == {"closed", "failed"}
NoSet == [n \in {} |-> None]
IdleTr == [pc |-> "idle", cand |-> NoSet, todo |-> {},
           new |-> [n \in Names |-> 0], swapped |-> {}, retired |-> {}, cur |-> 0]
Pcs == {"idle", "gated", "locking", "stage", "bind", "publish", "exchange", "swap",
        "confirm", "commit", "retire"}

Changed == {n \in DOMAIN config \cup DOMAIN tr.cand :
              n \in DOMAIN config \cap DOMAIN tr.cand => config[n] # tr.cand[n]}
Disrupted == Changed \cap DOMAIN config
(* running.config.socket_path == config.socket_path *)
SamePath(n) == running[n] # 0 /\ made[running[n]].path = tr.cand[n].path
Same == {n \in Changed \cap DOMAIN tr.cand : SamePath(n)}
Ordinary == {n \in Changed \cap DOMAIN tr.cand : ~SamePath(n)}
Path(i) == made[i].path

(* The sockets that someone will reap, and how one is forgotten. *)
InUse == {running[n] : n \in Names}
Left == tr.retired \cup {tr.cur}
Held == InUse \cup Left \cup draining.left \cup {draining.cur}
Forget(gone) ==
  /\ made' = [i \in Sockets |-> IF i \in gone THEN None ELSE made[i]]
  /\ via' = [c \in Ids |-> IF via[c] \in gone THEN 0 ELSE via[c]]

-----------------------------------------------------------------------------
(* Clients and accept loops. *)

(* serve_bound: what is accepted is registered before tonic sees it.  The    *)
(* client may have connected at any time the socket was at its path; a loop  *)
(* that has been asked to stop may still accept first.                       *)
Accept(i) ==
  /\ loop[i] \in {"serving", "asked"}
  /\ \/ /\ Register(made[i].name, made[i].kind, Peer)
        /\ via' = [via EXCEPT ![nextId] = i]
     \/ /\ ~Admissible(made[i].name, made[i].kind)
        /\ UNCHANGED <<registry, via>>
  /\ UNCHANGED <<config, ledger, made, loop, files, running, tr, phase, draining,
                 original, history>>

(* A transport is dropped. *)
Close(c) ==
  /\ Release(c)
  /\ via' = [via EXCEPT ![c] = 0]
  /\ UNCHANGED <<config, ledger, made, loop, files, running, tr, phase,
                 draining, original, history>>

(* The server leaves its accept loop, ... *)
Stopping(i) ==
  /\ loop[i] = "asked"
  /\ loop' = [loop EXCEPT ![i] = "stopping"]
  /\ UNCHANGED <<registry, config, ledger, made, via, files, running, tr,
                 phase, draining, original, history>>

(* ... and ends once its transports have gone. *)
Ended(i) ==
  /\ loop[i] = "stopping"
  /\ \A c \in Active : via[c] # i
  /\ loop' = [loop EXCEPT ![i] = IF i \in Held THEN "closed" ELSE "none"]
  /\ Forget({i} \ Held)
  /\ UNCHANGED <<registry, config, ledger, files, running, tr, phase, draining,
                 original, history>>

(* The server fails.  Its listener is closed, and its transports go on. *)
Fails(i) ==
  /\ loop[i] = "serving"
  /\ loop' = [loop EXCEPT ![i] = "failed"]
  /\ UNCHANGED <<registry, config, ledger, made, via, files, running, tr, phase,
                 draining, original, history>>

(* Something else replaces what is at a path, or takes its object away. *)
Foreign(p) ==
  /\ aliens < MaxForeign
  /\ aliens' = aliens + 1
  /\ sock' = [sock EXCEPT ![p] = IF @ = Alien THEN None ELSE Alien]
  /\ touched' = touched \cup {p}
  /\ UNCHANGED <<registry, config, ledger, made, loop, via, stage, running,
                 tr, phase, draining, original, lost, reloads>>

-----------------------------------------------------------------------------
(* A transition: transition_with_hooks.  Its locals are dropped on the way   *)
(* out, in Abort.                                                            *)

To(pc, todo) == tr' = [tr EXCEPT !.pc = pc, !.todo = todo]
Calm == UNCHANGED <<config, ledger, running, phase, draining, original>>
Quiet == Calm /\ UNCHANGED via

(* begin_transition: the gate closes over the counts ... *)
Begin ==
  /\ tr.pc = "idle" /\ reloads < MaxReloads
  /\ reloads' = reloads + 1
  /\ \E cand \in Candidates \ {config} :
       tr' = [IdleTr EXCEPT !.pc = "gated", !.cand = cand]
  /\ UNCHANGED <<made, loop, files, touched, lost, aliens>>
  /\ Quiet
  /\ CloseGate(Reload, Disrupted')

(* ... and a disturbed listener with transports opens it again. *)
Blocked == \E n \in Disrupted : counted[Reload][n] # 0
(* Bug: the guard outlives the refusal. *)
Refuse_Gated ==
  /\ tr.pc = "gated" /\ Blocked
  /\ tr' = IdleTr
  /\ UNCHANGED <<registry, made, loop, files, history>>
  /\ Quiet
Refuse ==
  /\ tr.pc = "gated" /\ Blocked
  /\ OpenGate(Reload)
  /\ tr' = IdleTr
  /\ UNCHANGED <<made, loop, files, history>>
  /\ Quiet

AwaitLock ==
  /\ tr.pc = "gated" /\ ~Blocked
  /\ To("locking", {})
  /\ UNCHANGED <<registry, made, loop, files, history>>
  /\ Quiet

(* The runtime lock, and preflight: no task of a changed listener has ended. *)
Unfit == \E n \in Changed : running[n] # 0 /\ loop[running[n]] = "failed"
Lock ==
  /\ tr.pc = "locking" /\ ~Unfit
  /\ To("stage", Same)
  /\ UNCHANGED <<registry, made, loop, files, history>>
  /\ Quiet

Preflight ==
  /\ tr.pc = "locking" /\ Unfit
  /\ OpenGate(Reload)
  /\ tr' = IdleTr
  /\ UNCHANGED <<made, loop, files, history>>
  /\ Quiet

(* QualifiedListener::prepare: bind in a private directory. *)
NewSocket == CHOOSE i \in Sockets : made[i] = None
HasRoom == \E i \in Sockets : made[i] = None
Stage(n) ==
  /\ made' = [made EXCEPT ![NewSocket] =
                [name |-> n, kind |-> tr.cand[n].kind, path |-> tr.cand[n].path]]
  /\ loop' = [loop EXCEPT ![NewSocket] = "bound"]
  /\ stage' = [stage EXCEPT ![NewSocket] = NewSocket]
  /\ tr' = [tr EXCEPT !.todo = @ \ {n}, !.new[n] = NewSocket]
  /\ UNCHANGED <<registry, sock, history>>
  /\ Quiet

(* validate_replacement: the path still holds the socket to be replaced. *)
StageSame(n) ==
  /\ tr.pc = "stage" /\ n \in tr.todo /\ HasRoom
  /\ sock[tr.cand[n].path] = running[n]
  /\ Stage(n)

(* validate: nothing is at the path. *)
StageOrdinary(n) ==
  /\ tr.pc = "bind" /\ n \in tr.todo /\ HasRoom
  /\ sock[tr.cand[n].path] = None
  /\ Stage(n)

(* publish: a rename that replaces nothing. *)
Publish(n) ==
  /\ tr.pc = "publish" /\ n \in tr.todo
  /\ sock[tr.cand[n].path] = None
  /\ sock' = [sock EXCEPT ![tr.cand[n].path] = tr.new[n]]
  /\ stage' = [stage EXCEPT ![tr.new[n]] = None]
  /\ tr' = [tr EXCEPT !.todo = @ \ {n}]
  /\ UNCHANGED <<registry, made, loop, history>>
  /\ Quiet

(* Each phase visits its listeners before the next one begins. *)
Advance ==
  /\ tr.todo = {}
  /\ \/ tr.pc = "stage" /\ To("bind", Ordinary)
     \/ tr.pc = "bind" /\ To("publish", Ordinary)
     \/ tr.pc = "publish" /\ To("exchange", Same)
     \/ tr.pc = "exchange" /\ To("commit", {})
  /\ UNCHANGED <<registry, made, loop, files, history>>
  /\ Quiet

(* exchange_inner: check, exchange, check again. *)
Qualify(n) ==
  /\ tr.pc = "exchange" /\ n \in tr.todo
  /\ sock[tr.cand[n].path] = running[n]
  /\ To("swap", {n})
  /\ UNCHANGED <<registry, made, loop, files, history>>
  /\ Quiet

Swap(n) ==
  /\ tr.pc = "swap" /\ n \in tr.todo
  /\ sock[tr.cand[n].path] # None
  /\ sock' = [sock EXCEPT ![tr.cand[n].path] = tr.new[n]]
  /\ stage' = [stage EXCEPT ![tr.new[n]] = sock[tr.cand[n].path]]
  /\ To("confirm", {n})
  /\ UNCHANGED <<registry, made, loop, history>>
  /\ Quiet

Exchanged(n) == sock[tr.cand[n].path] = tr.new[n] /\ stage[tr.new[n]] = running[n]
Confirm(n) ==
  /\ tr.pc = "confirm" /\ n \in tr.todo
  /\ Exchanged(n)
  /\ tr' = [tr EXCEPT !.pc = "exchange", !.swapped = @ \cup {n},
                      !.todo = Same \ (tr.swapped \cup {n})]
  /\ UNCHANGED <<registry, made, loop, files, history>>
  /\ Quiet

(* remove_owned_socket_at: what the name has is looked at and, if it is the  *)
(* socket, the name is unlinked; exchange_back looks and exchanges in the    *)
(* same way.  None of this awaits, so no other step of the broker comes in   *)
(* between, but something else may put its object at the path: the unlink    *)
(* then removes that object, and the exchange takes it into the staging      *)
(* directory.  Nobody else reaches a staging directory.                      *)
Unlink(mine, i) == IF i \in mine THEN None ELSE i
Holding(mine) == {p \in Paths : sock[p] \in mine}
Raced(late, removed) ==
  /\ late # {} => aliens < MaxForeign
  /\ aliens' = IF late = {} THEN aliens ELSE aliens + 1
  /\ touched' = touched \cup late
  /\ lost' = lost \cup removed
  /\ UNCHANGED reloads

(* An error: exchanges are undone, and every guard removes what it owns.     *)
(* exchange_back puts the old socket back only where both sides are still    *)
(* the ones it exchanged.                                                    *)
Fresh == {tr.new[n] : n \in Names} \ {0}
(* Bug: exchanges are not undone. *)
Undone_Not == {}
Undone == {n \in tr.swapped : Exchanged(n)}
Tried == tr.swapped \cup (IF tr.pc = "confirm" THEN tr.todo ELSE {})
Abort ==
  /\ \/ tr.pc \in {"stage", "bind", "publish", "exchange", "swap"}
     \/ tr.pc = "confirm" /\ \E n \in tr.todo : ~Exchanged(n)
  /\ sock' = [p \in Paths |->
       IF \E n \in Undone : tr.cand[n].path = p
         THEN running[CHOOSE n \in Undone : tr.cand[n].path = p]
         ELSE Unlink(Fresh, sock[p])]
  /\ \E late \in SUBSET Holding(Fresh) :
       /\ Raced(late, {p \in late : \A n \in Undone : tr.cand[n].path # p})
       /\ stage' = [i \in Sockets |->
            IF \E n \in Undone : tr.new[n] = i /\ tr.cand[n].path \in late THEN Alien
            ELSE Unlink(Fresh \cup {running[n] : n \in {m \in Tried : tr.new[m] = i}},
                        stage[i])]
  /\ loop' = [i \in Sockets |-> IF i \in Fresh THEN "none" ELSE loop[i]]
  /\ Forget(Fresh)
  /\ OpenGate(Reload)
  /\ tr' = IdleTr
  /\ Calm

(* Bug: a second move overwrites the path. *)
Oldest_Latest(n) == config[n].path
(* rewire_updates and RewireLedger::apply.  The bound on the ledger cannot   *)
(* be met: it is keyed by configured names.                                  *)
Oldest(n) == IF n \in DOMAIN ledger THEN ledger[n] ELSE config[n].path
Rewired ==
  {n \in DOMAIN config \cap DOMAIN tr.cand :
     IF config[n].path # tr.cand[n].path THEN tr.cand[n].path # Oldest(n)
                                         ELSE n \in DOMAIN ledger}

(* The generation swap, then install_transition up to its first await. *)
Commit ==
  /\ tr.pc = "commit"
  /\ config' = tr.cand
  /\ ledger' = [n \in Rewired |-> Oldest(n)]
  /\ original' = [n \in DOMAIN tr.cand |->
       IF n \in DOMAIN config THEN original[n] ELSE tr.cand[n].path]
  /\ running' = [n \in Names |-> IF n \in Changed THEN tr.new[n] ELSE running[n]]
  /\ loop' = [i \in Sockets |-> IF i \in Fresh THEN "serving" ELSE loop[i]]
  /\ stage' = [i \in Sockets |->
       Unlink({running[n] : n \in {m \in tr.swapped : tr.new[m] = i}}, stage[i])]
  /\ tr' = [tr EXCEPT !.pc = "retire",
                      !.retired = {running[n] : n \in Changed} \ {0}]
  /\ UNCHANGED <<registry, made, via, sock, phase, draining, history>>

(* RunningListener::stop, one after another: ask, await the task, and drop   *)
(* the lease, which removes the path if it still holds this socket.          *)
Ask(i) == IF loop[i] = "serving" THEN "asked" ELSE loop[i]
Retire(i) ==
  /\ tr.pc = "retire" /\ tr.cur = 0 /\ i \in tr.retired
  /\ loop' = [loop EXCEPT ![i] = Ask(i)]
  /\ tr' = [tr EXCEPT !.cur = i, !.retired = @ \ {i}]
  /\ UNCHANGED <<registry, made, files, history>>
  /\ Quiet

Reap ==
  /\ tr.pc = "retire" /\ tr.cur # 0 /\ loop[tr.cur] \in EndedStates
  /\ sock' = [sock EXCEPT ![Path(tr.cur)] = Unlink({tr.cur}, @)]
  /\ loop' = [loop EXCEPT ![tr.cur] = "none"]
  /\ Forget({tr.cur})
  /\ tr' = [tr EXCEPT !.cur = 0]
  /\ \E late \in SUBSET Holding({tr.cur}) : Raced(late, late)
  /\ UNCHANGED <<registry, stage>>
  /\ Calm

Finish ==
  /\ tr.pc = "retire" /\ tr.cur = 0 /\ tr.retired = {}
  /\ OpenGate(Reload)
  /\ tr' = IdleTr
  /\ UNCHANGED <<made, loop, files, history>>
  /\ Quiet

(* The client of the Reload RPC goes away at an await.  The retired          *)
(* listeners are dropped: their tasks go on, detached and asked to stop.     *)
DropWaiting ==
  /\ tr.pc = "locking"
  /\ OpenGate(Reload)
  /\ tr' = IdleTr
  /\ UNCHANGED <<made, loop, files, history>>
  /\ Quiet

DropRetiring ==
  /\ tr.pc = "retire" /\ tr.cur # 0
  /\ loop' = [i \in Sockets |-> IF i \in Left /\ loop[i] \in EndedStates THEN "none"
                                ELSE IF i \in tr.retired THEN Ask(i) ELSE loop[i]]
  /\ Forget({i \in Left \ {0} : loop[i] \in EndedStates})
  /\ sock' = [p \in Paths |->
       Unlink({i \in Left : i # 0 /\ Path(i) = p}, sock[p])]
  /\ \E late \in SUBSET Holding(Left) : Raced(late, late)
  /\ OpenGate(Reload)
  /\ tr' = IdleTr
  /\ UNCHANGED stage
  /\ Calm

-----------------------------------------------------------------------------
(* run_until_shutdown, on a signal or a failed server: take what is running, *)
(* and stop it one by one.                                                   *)

Locked == tr.pc \notin {"idle", "gated", "locking"}
Shutdown ==
  /\ phase = "up" /\ ~Locked
  /\ phase' = "stopping"
  /\ draining' = [left |-> {running[n] : n \in Names} \ {0}, cur |-> 0]
  /\ running' = [n \in Names |-> 0]
  /\ UNCHANGED <<registry, config, ledger, made, loop, via, files, tr,
                 original, history>>

Drain(i) ==
  /\ phase = "stopping" /\ draining.cur = 0 /\ i \in draining.left
  /\ loop' = [loop EXCEPT ![i] = Ask(i)]
  /\ draining' = [left |-> draining.left \ {i}, cur |-> i]
  /\ UNCHANGED <<registry, config, ledger, made, via, files, running, tr,
                 phase, original, history>>

Drained ==
  /\ phase = "stopping" /\ draining.cur # 0 /\ loop[draining.cur] \in EndedStates
  /\ sock' = [sock EXCEPT ![Path(draining.cur)] = Unlink({draining.cur}, @)]
  /\ loop' = [loop EXCEPT ![draining.cur] = "none"]
  /\ Forget({draining.cur})
  /\ draining' = [draining EXCEPT !.cur = 0]
  /\ \E late \in SUBSET Holding({draining.cur}) : Raced(late, late)
  /\ UNCHANGED <<registry, config, ledger, stage, running, tr, phase, original>>

Exit ==
  /\ phase = "stopping" /\ draining = [left |-> {}, cur |-> 0]
  /\ phase' = "down"
  /\ UNCHANGED <<registry, config, ledger, made, loop, via, files, running,
                 tr, draining, original, history>>

-----------------------------------------------------------------------------
(* After ListenerRuntime::prepare and activate: every listener published     *)
(* and serving.  Inodes are interchangeable, so the order is any.            *)
Bound == CHOOSE b \in [DOMAIN Startup -> 1..Cardinality(DOMAIN Startup)] :
           \A m, n \in DOMAIN Startup : b[m] = b[n] => m = n
Init ==
  /\ RegistryInit
  /\ config = Startup
  /\ ledger = NoSet
  /\ made = [i \in Sockets |->
       IF \E n \in DOMAIN Startup : Bound[n] = i
         THEN LET n == CHOOSE n \in DOMAIN Startup : Bound[n] = i
              IN  [name |-> n, kind |-> Startup[n].kind, path |-> Startup[n].path]
         ELSE None]
  /\ running = [n \in Names |-> IF n \in DOMAIN Startup THEN Bound[n] ELSE 0]
  /\ sock = [p \in Paths |->
       IF \E n \in DOMAIN Startup : Startup[n].path = p
         THEN Bound[CHOOSE n \in DOMAIN Startup : Startup[n].path = p] ELSE None]
  /\ loop = [i \in Sockets |-> IF made[i] = None THEN "none" ELSE "serving"]
  /\ via = [c \in Ids |-> 0]
  /\ stage = [i \in Sockets |-> None]
  /\ tr = IdleTr
  /\ phase = "up" /\ draining = [left |-> {}, cur |-> 0]
  /\ original = [n \in DOMAIN Startup |-> Startup[n].path]
  /\ touched = {} /\ lost = {} /\ aliens = 0 /\ reloads = 0

Proceed ==
  \/ Refuse \/ AwaitLock \/ Lock \/ Preflight \/ Advance \/ Abort \/ Commit \/ Reap \/ Finish
  \/ \E n \in Names : StageSame(n) \/ StageOrdinary(n) \/ Publish(n)
                      \/ Qualify(n) \/ Swap(n) \/ Confirm(n)
  \/ \E i \in Sockets : Retire(i)

Next ==
  /\ phase # "down"
  /\ \/ \E p \in Paths : Foreign(p)
     \/ \E i \in Sockets : Accept(i) \/ Stopping(i) \/ Ended(i) \/ Fails(i) \/ Drain(i)
     \/ \E c \in Ids : Close(c)
     \/ Begin \/ DropWaiting \/ DropRetiring
     \/ Proceed
     \/ Shutdown \/ Drained \/ Exit

(* The transition's code runs on, and a server that was asked to stop does   *)
(* so.  Clients need not leave.                                              *)
Fairness == WF_vars(Proceed) /\ \A i \in Sockets : WF_vars(Stopping(i)) /\ WF_vars(Ended(i))
Spec == Init /\ [][Next]_vars /\ Fairness

-----------------------------------------------------------------------------
(* Properties. *)

TypeOK ==
  /\ RegistryTypeOK
  /\ WellFormed(config)
  /\ DOMAIN ledger \subseteq Names /\ \A n \in DOMAIN ledger : ledger[n] \in Paths
  /\ made \in [Sockets -> [name : Names, kind : Kinds, path : Paths] \cup {None}]
  /\ loop \in [Sockets -> States]
  /\ via \in [Ids -> {0} \cup Sockets]
  /\ sock \in [Paths -> Sockets \cup {None, Alien}]
  /\ stage \in [Sockets -> Sockets \cup {None, Alien}]
  /\ running \in [Names -> {0} \cup Sockets]
  /\ tr.pc \in Pcs /\ tr.cur \in {0} \cup Sockets
  /\ phase \in {"up", "stopping", "down"}

(* A transport has the type its listener has in the serving generation: no   *)
(* transport outlives the reload that retypes or removes its listener, and   *)
(* no old accept loop registers one after it.  This is what gating the       *)
(* listener through the retirement of its loop is for.  The loops that a     *)
(* dropped transition leaves behind are not covered.                         *)
Abandoned == Sockets \ (InUse \cup Left)
TypesMatch ==
  phase = "up" => \A c \in Active : via[c] \notin Abandoned =>
    entries[c].name \in DOMAIN config /\ entries[c].kind = config[entries[c].name].kind

(* Whatever a reload did, when it is over every listener of the serving      *)
(* generation accepts at its path under its own name and type, and nothing   *)
(* else of the broker's is left in the directory.                            *)
Serves(n) ==
  /\ running[n] # 0 /\ loop[running[n]] \in {"serving", "failed"}
  /\ made[running[n]] = [name |-> n, kind |-> config[n].kind, path |-> config[n].path]
  /\ config[n].path \notin touched => sock[config[n].path] = running[n]
Settled ==
  tr.pc = "idle" /\ phase = "up" =>
    /\ \A n \in DOMAIN config : Serves(n)
    /\ \A p \in Paths : sock[p] \in Sockets => sock[p] = running[made[sock[p]].name]
    /\ \A i \in Sockets : stage[i] \notin Sockets

(* What clients meet is the serving generation: its listeners at their paths, *)
(* and no transport of a type that it does not give to their listener.       *)
ServedAsConfigured == TypeOK /\ Settled /\ TypesMatch

(* A shutdown that no reload overtakes leaves no socket behind: the next     *)
(* start refuses a path that is occupied.                                    *)
CleanExit ==
  phase = "down" /\ ~Locked /\ InUse = {0} => \A p \in Paths : sock[p] \notin Sockets

(* An object that is not the broker's and that is at a path when a step      *)
(* begins stays there, unless its owner takes it away or a swap that loses   *)
(* the race with it moves it into the staging directory.  One is removed     *)
(* only where it took the place of a socket that the broker was just giving  *)
(* up, between the look and the unlink of remove_owned_socket_at: a path at  *)
(* which a listener goes on serving never loses one.                         *)
ForeignSurvives ==
  [][/\ \A p \in Paths : sock[p] = Alien =>
          \/ sock'[p] = Alien \/ Foreign(p)
          \/ \E n \in tr.todo : tr.cand[n].path = p /\ stage'[tr.new[n]] = Alien
     /\ \A p \in lost' \ lost :
          sock[p] \in Sockets \ InUse' /\ sock'[p] = None]_vars

(* The ledger names exactly the listeners that are not at the path they      *)
(* were added with, and that path: the oldest unresolved one.                *)
LedgerExact ==
  /\ DOMAIN ledger = {n \in DOMAIN config : config[n].path # original[n]}
  /\ \A n \in DOMAIN ledger : ledger[n] = original[n]

(* The paths are accounted for: in the ledger while the broker runs, and empty *)
(* of its sockets after it.                                                  *)
PathsAccounted == LedgerExact /\ CleanExit

(* A reload never leaves a listener gated for good, and does not wait for a  *)
(* client to leave.                                                          *)
GateReleased == [](gated # {} => <>(gated = {} \/ phase = "down"))

(* A transition ends with its gates open, and what a step finds at a path    *)
(* that is not the broker's it does not remove (rollback_exchanges,          *)
(* remove_owned_socket_at, the gate's Drop).                                 *)
TransitionsSafe == GateReleased /\ ForeignSurvives
=============================================================================

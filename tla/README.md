# A TLA+ model of Basil

Basil is a host-local secrets broker: one agent process per host serves gRPC over Unix
sockets, decides each request under a reloadable catalog and policy, and keeps or reaches
keys through pluggable backends. Around it are couriers that carry sealed invocations from
elsewhere, a client library, and commands for operators, CI jobs and Nix caches. This
directory holds TLA+ modules translated from the Rust source under `src/crates`, TLC
configurations that check them on small instances, and TLAPS proofs of properties that
matter most, for instances of any size. `PROJECT.json` maps every definition to the lines it
models, and lists runs, mutants, hazards and theorems.

## 1. Inventory

| part | state it keeps | operations | what is hard | what makes it correct |
|---|---|---|---|---|
| keystore rekey (`rekey.rs`, `keystore_cli.rs`) | database, write-ahead log, candidate, staging directory, intent marker, two flocks | fresh rekey, `--resume`, roll back, roll forward | power loss between any two directory operations; a broker or a second operator beside it | no committed write becomes unreadable; every state left behind can be resumed |
| sealed bundle (`bundle_cli.rs`, `seal/`, `unlock.rs`) | slots, payload, epoch, epoch sidecar, deposits | create, add-slot, set-backend, deposit, promote, rekey commit, unlock | interruptions between the files; restored backups; contributors who race | every slot opens the bundle; no broker opens an older epoch unnoticed; a command changes only the credentials it is about |
| challenge table (`challenge.rs`) | outstanding challenges, expiry queue, token buckets | issue, consume, purge | clock changes, bounded maps, restarts | single use; exact counts; metering survives eviction |
| sealed invocation (`service/invocation.rs`, `ci_federation*.rs`) | a pinned generation per request, JWKS caches, run quota, audit event | verify proof, fetch keys, consume challenge, charge, decide, sign, seal, audit | a request that spans a reload, a rollover or the loss of its client | decision and execution under one generation; one truthful audit event |
| revocation (`revocation.rs`) | deny-list in memory and in the backend | revoke, persist, load, merge, lookup | overlapping writers of one value; failed writes | an acknowledged revocation lasts until the token expires |
| hot reload (`reload.rs`, `state.rs`, `agent_cli.rs`) | serving generation, tombstones, reload lock, audit | SIGHUP, Reload RPC, swap | files edited while they are read; overlapping triggers; a client that goes away | a generation is a point-in-time snapshot that passed validation; no update or signal is lost |
| connection registry (`connection.rs`) | entries, counters, gates, stream leases | register, release, cancel, lease, gate | admission racing a transition; leases outliving transports | counters count; a gated listener stays as it was counted |
| listener runtime (`grpc_server.rs`, `listener_manager.rs`, `rewire.rs`) | running loops, sockets on disk, staging directories, rewire ledger | accept, transition, rollback, retire, shutdown | partial failure of several renames; foreign objects; dropped handlers | what is on disk is what serves; types match the serving generation |
| readers of the generation (`admin.rs`, `spiffe.rs`, `sds.rs`, `jwks.rs`, `event.rs`) | subscriptions, readiness cache | watch, SVID, bundle and secret streams, probe | a swap between a decision and its use; lagging subscribers | nothing is sent that the serving generation does not grant; a waiting subscriber is up to date |
| catalog, policy, identity (`catalog/`, `actor.rs`, `peer.rs`) | immutable documents | load, resolve the caller, decide | partial evidence; wildcards | deny by default; missing evidence never adds a right |
| manager, minter, reconcile (`manager.rs`, `minter.rs`, `reconcile.rs`, `crypto_provider.rs`) | key and value versions in the backend, custody records | every key operation, rotate, sweep, enroll, import, mint, reconcile | read-modify-write on remote versions; crashes between writes | versions in grace verify; keys are created once; what is signed verifies |
| audit log (`audit.rs`) | queue, open file | write, reopen, drain | log rotation against a busy or failing writer | a requested reopen is not lost |
| couriers, NATS bridge (`basil-courier`, `basil-https-courier`, `basil-nats-bridge`) | connections, admission buckets, lease | check the socket, relay, time out, renew | restarts and replaced sockets under a call; expired leases | "retryable" means that nothing ran; one bridge forwards |
| client, codecs (`basil-client`, `basil-cose`) | calls in flight, streams | seal, sign, verify, encrypt | a carrier that exchanges or re-encodes; truncation | an answer belongs to its call; one encoding per message; a stream is whole or refused |
| Nix cache (`nix_cache_file.rs`, `nix_cache_cli.rs`, `nix_provider.rs`) | records on disk, lock, signer socket, audit | sign, replace, remove, serve | other publishers, interrupted batches, a changed identity | no signature or publication is lost; counts are exact |
| CI session (`ci_session.rs`) | token, runtime directory, sockets | bootstrap, refresh, invoke once, end | timers against expiry; ends at any step | evidence only under a valid identity; nothing left behind |

The parts meet in a few places. A reload validates documents, then asks the listener runtime
for a transition, which gates listeners in the connection registry, and swaps the generation
inside the commit of the gate; afterwards the deny-list is merged again. Accept loops register
every transport before tonic sees it. The invocation service consumes challenges under the
generation it pinned. Streams subscribe to the event bus that reloads and rotations publish
to. The agent opens the bundle and the store under locks that the rekey takes too.

## 2. Modules

| module | models | composed with |
|---|---|---|
| `Rekey`, `RekeyLive`, `RekeyProofs` | rekey, resume, broker start, put, faults; fair recovery; theorems | |
| `Challenge` | the challenge table | implements `ChallengeStore` |
| `ChallengeStore` | what the table promises: single-use challenges bound to a key, a generation and a process | |
| `Federation` | provider rules, token verification, JWKS cache and quota as operators | |
| `Invocation`, `InvocationProofs` | sealed invocations as processes; theorems | extends `ChallengeStore`, `Federation` |
| `Revocation` | the deny-list | composed with `Serving` in `MCServing` |
| `Reload`, `ReloadProofs` | the reload transaction, listeners one open/closed bit; theorems | |
| `Connections` | the registry | |
| `Listeners` | accept loops, transitions, shutdown | extends `Connections` and uses its actions |
| `ListenersProofs` | theorems about registry and runtime | extends `Listeners` |
| `Evidence`, `Catalog` | evidence expressions, subject resolution; documents, their validation, decisions | `Catalog` extends `Evidence` |
| `Serving` | streams, event bus, readiness cache, audit writer | extends `Catalog` |
| `ServingProofs` | theorems about streams, audit writer, resolution, loading and deny-list | extends `Serving`, `Revocation` |
| `Routing`, `Minting` | what an entry lets an operation do; tokens and NKey roles | |
| `Custody` | the manager over its backends, with concurrent handlers | extends `Routing`, `Minting` |
| `CustodyProofs` | theorems about the challenge table, its refinement, and the manager | extends `Challenge`, `Custody` |
| `Cose`, `Relay` | the COSE profile; the signing client behind its carrier | `Relay` extends `Cose` |
| `Courier` | courier client, HTTPS courier, NATS bridges | |
| `CourierProofs` | theorems about couriers, signing client and codec | extends `Courier`, `Relay` |
| `Bundle` | slots, payload, deposits, commands, broker start | |
| `NixCache` | batches over a cache, and the signer | |
| `CiSession` | one CI session | |
| `Streaming` | encrypted streams | |
| `OperatorProofs` | theorems about sessions, batches, signer, streams and bundle | extends the four modules above |
| `Positions` | the elements of a sequence at some positions, for logs and records that lose some | |
| `MC*` | constants for TLC; `MCServing`, `MCRelay`, `MCOperator` also put several components in one run | |

Definitions named `X_Something` are faulty forms of `X`, used only to show that a
property can fail. A *scene* is a set of operations that share state; scenes that share none
are not interleaved with each other, and one is chosen at the start of a behaviour.

**Rekey.** `dir` is the database directory and `vault` the bundle with its sidecar;
`exposed` and `vexposed` are the states of each that a power loss may leave. Every directory
operation adds to them and an fsync collapses them, in the order the code issues them. `pc`
and `job` are the runs' control points and locals: one action per directory operation or fsync of
`prepare`, `rekey_to_staging`, `write_intent_marker`, `commit_bundle`, `swap_candidate`,
`finish_rekey`, `roll_back`, `roll_forward`. `agent` is a broker from unlock to serving.
Faults are `IoError`, `KillCli`, `StopAgent` and `PowerLoss`.

**Challenge.** One step per operation, as the mutex makes them. Time is in whole seconds.
`purge_expired` keeps its limit, the queue its rotation. `jktUse`, `jktIssues` and `stepped`
are history: the buckets an unbounded map would hold, the issues each key got, and whether the
clock was set back. `ImplementsStore` is the refinement: `live` is the table and `used` the
suffixes that were accepted; purging a lapsed record is a step of the store, declining is a
stutter.

**Invocation.** A request is a process; a step runs from one await or lock release to the
next, in the order of `invoke`, and `Cancel` drops the handler at an await. Its challenges are
`ChallengeStore`'s. `gens` are the generations loaded so far, each with its own JWKS caches;
the provider's published keys, of which one document repeats a key ID and is refused, the
backend and the certificate file change beside it.
`effects` and `events` are the signatures made and the audit events; a sign call may err before or
after the backend signed.

**Revocation.** A `Revoke` RPC is insert, serialize, send, landed, acknowledged; `PutLands`
is the backend. It may be abandoned at its await. A refresh loads, then merges. A map gives
each jti its expiry, 0 when absent.

**Reload.** A file is its content and a stamp that stands for the fingerprint. An attempt
fingerprints, reads, verifies, in the three phases of `read_reload_inputs`, one file at a
time; compares with the serving generation; verifies again; rechecks the generation; installs;
waits for retired listeners; records; waits for the deny-list to be read again. `at` is history: the files at the moment of the last
fingerprint.

**Connections.** Every public operation is one step under the registry's mutex. `u64::MAX`
and `usize::MAX` are the constants `LastId` and `LastStream`.

**Listeners.** A socket is a number (its inode), `sock` and `stage` say what is at each path
and in each private staging directory, `loop` is the state of its accept loop. `tr` holds the
locals of `transition_with_hooks`; each filesystem operation is a step, and `Abort` is the
unwinding of all guards, with `exchange_back` as the code does it: only where both sides are
still the exchanged ones, and otherwise removing only the broker's own inodes. `Foreign` puts
something else at a path. `remove_owned_socket_at` looks (`statat`) and then unlinks by name, and
`exchange_back` looks and then exchanges: no broker step comes in between, but every removal may be
`Raced` by an object that arrives in that window, which is then unlinked (`lost`) or, by the
exchange, moved into the staging directory.

**Evidence, Catalog, Serving.** An expression is a sequence of nodes with the root last, so
that its three-valued evaluation is a recursive function over positions; a cascade of checks with
overlapping conditions is an IF chain in the code's order, never a CASE. `Catalog` is the
loader's validation in its order of errors, wildcard matching, and the decision. In `Serving`
a stream plans under a generation, reads keys one at a time, rechecks, and sends; `log` is
the event bus with its capacity, `rd` the readiness cache, `au` the audit writer.

**Routing, Minting, Custody.** `Routing` has the checks before a backend is called. In
`Custody` a step is one backend call: rotation is post, read, configure floor; a sweep is read,
configure; enrollment is read, create, re-read, judge; a certificate pair is two writes;
reconciliation probes and generates key by key in the catalog's order and may die anywhere.
`Minting` is a function of the request, the public key that was read and the clock; the
signature is made later, by the key there is then.

**Courier.** A request goes from the accepted connection over admission, head, body, source,
bearer check and buckets to the courier client, which opens and checks the socket, connects to
whatever node is there by then, looks at the path again and at the peer of the connected stream,
asks that listener for its capabilities, forwards on the same connection and classifies. A node is
the broker's or another process's, with its own peer and capabilities. Federation bridges acquire a
lease by revision, renew it on a heartbeat and before each worker, and give each message to a worker.
Legacy bridges have no lease and no challenges; a queue group gives a message to one of them, and
without a group every one of them forwards it, which `OneForwarder` therefore does not exclude.

**Cose, Relay.** A message is the items its codec reads; signatures and ciphertexts are
symbolic. The carrier may lose, repeat, delay, exchange and re-encode. That each length has
exactly one accepted head, and that what `build_signed` makes `verify_signed` takes, are
assumptions TLC evaluates in `MCRelay`; for sealed messages both are proved.

**Bundle.** Sealing is modelled by what it binds: a payload by its key and header, a slot by
header, number and secret. `job` is the command that holds the lock, or `NoJob`. A command takes the lock, reads, computes, and writes bundle and
sidecar as two steps, and may be interrupted between them; `Restore` puts an earlier bundle
back. A start reads, checks the epoch, writes the sidecar and opens in separate steps, since starts share their guard.
`floor`, `orphaned` and `crowded` are history: the highest epoch opened, an interrupted create, two starts at once.
Deposits are records with signer, sequence number and epoch; `Served` says which one counts by the standing
deposits alone, and `CredentialsKept` compares it with what `select_effective` picks.

**NixCache.** A batch locks, describes the identity, and for each record reads, signs or edits,
compares, renames and syncs, with cancellation and deadlines; a cache root may be refused, and
a temporary file may outlive a failed commit; `Publish` is another program. Content 0 is a record
without a fingerprint, which cannot be signed but from which signatures can be removed. Listing a root fails when
it has too many records or one whose name is not a record's. The
signer answers connections under the identity it first described.

**CiSession.** Time in seconds; a timer fires at any moment of the second it is set for, as the
code's rounding has it (`unix_to_instant`), so that other arms may run in the second of the expiry. Time
also passes while the session waits for the commit byte, which has no deadline. With or without an
adapter. Ending drops what was made in the code's order, at whichever step.

**Streaming.** Writer and reader look one chunk ahead, as the code does, to know the last one.

## 3. Runs

| run | bounds | shows |
|---|---|---|
| `rekey_safety` | two operators, both may run maintenance; one broker, two keys, one write, four sealings | safety with faults between any two operations. Two operators are needed for lock races, one write to tell an old database from a new one, four sealings for an interrupted rekey, maintenance, and another rekey |
| `rekey_live` | one operator, one broker | recovery |
| `challenge` | two keys, two sources, capacity 2 and 1, three issues, clock 0..2 in both directions, one restart, one tracked bucket | the table implements the abstract store; counts, queue and metering |
| `reload` | a SIGHUP and a cancellable RPC, two edits of four files | sound generations, no swap backwards, every signal answered |
| `connections` | two listeners, ceilings 3 / 2 / 2, four ids, two competing gates | the registry alone, at every ceiling and the end of the id space |
| `listeners` | two listeners, three paths, four sockets at one time, two reloads out of four listener sets, one transport, one foreign object | transitions and shutdown |
| `invocation` | two requests of a CI proof and a service signer, two generations out of three catalogs, one rollover, one fault, clock 0..2 | audit, authorization, quota, withdrawn keys, rule overlap |
| `custody` | nine scenes over fourteen kinds of key, two handlers, two rotations, three starts, one fault | rotation, creation, grants, signatures |
| `serving` | scenes for streams, readiness, audit, subjects, policies and the deny-list; four generations, two reloads, three events, channel of one, queue of two; two tokens, one of them with two expiries, two revokers, one refresher, one restart | what the running broker answers |
| `relay` | three HTTP connections, one restart, one socket replaced, or replaced and put back, two bridges in each of three configurations and three messages, six signing calls, one altered message | couriers and clients |
| `operator` | three commands and one restored backup over two backends, three unlock secrets and two contributors, with two brokers that may start at once; two batches over two records; three signer connections; a CI session of nine seconds; two streams of three bytes with two alterations | what operators and jobs run |
| `revocation_lost_write` (violated) | two revokers | the older snapshot lands last |

In `listeners` the listener sets move the host listener, retype the courier one in place,
remove it, and move over a path that another listener leaves, so ordinary publication, exchange
and refusal of an occupied path all happen, two of them in one transition. One transport is
enough for its properties: each is about one transport against one transition; counting several
is `connections`' business. In `invocation` two requests are enough because the shared state
is per challenge, per run and per rule, and each property is about two uses of one of them; the
pairs of generations and times in `Bounds` keep a run with two generations at one time apart
from a run of one generation over time. In `custody` two handlers are enough for every
read-modify-write race, and one fault for a call that is dropped or fails between them. In
`serving` a channel of one makes a receiver lag after two events. In `relay` two connections
share one slot, and a third is beyond what the courier serves. Deadlock is not checked where
the processes end: a batch, a session, a call, a shutdown.

Every property of a passing run has a mutant in `PROJECT.json` that TLC refutes under the
same bounds. Type invariants are conjuncts of `TableConsistent`, `GenerationSound`,
`ServedAsConfigured`, `SlotsUsable` (`BundleTypeOK`) and `CacheKept` (`RecordOK`),
and theorems of `RekeyProofs`, `ServingProofs`, `ListenersProofs` and `CustodyProofs`; each other proof module
has its own as the first part of its inductive invariant.

### Finding

* `revocation_lost_write`: two overlapping `persist` calls are not ordered; an acknowledged
  revocation can be missing after a restart, against "so the revocation survives restart"
  (`broker.proto:911`). `AckedKept` says when it is not: when the entry was inserted while no other map was on its way.

### Observations

Met while modelling, without a run of their own. The models behave as the code does, so a
property that these would refute is stated with the premise that excludes them.

Rekey and bundle:
* Bundle maintenance does not look for the intent marker, so between an interrupted rekey and
  its `--resume` it can make the marker match neither side (`Rekey.ResumeAlwaysApplies`),
  against "A crash before fence removal remains recoverable" (`rekey.rs:1936`).
* A rekey that fails before its marker is published leaves the staging directory, and later
  ones are refused with `StagingExists`, although `rekey.rs:1465` says "any failure cleans up
  the staging directory".
* `add-slot` and `set-backend` write the sidecar without checking it, and so lower it on a
  restored older bundle (`bundle_cli.rs:345`, `:376`); a crash of `create` over an existing bundle
  before its sidecar leaves every start refused; a crash between promote's bundle and sidecar
  leaves the new epoch unprotected until the next start; the sidecar is advanced from the header before the bundle
  has opened (`unlock.rs:139`).
* Brokers that start hold a shared flock, so two may be between the check and the write of the sidecar at once
  (`bundle_cli.rs:1508`). With an older backup put back in that window the later write lowers the sidecar, and
  an older bundle is opened after a newer one. `RollbackNoticed` speaks of histories in which no two
  starts overlapped (`crowded`).
* A filtered promote moves the epoch, so the deposits it did not select become stale: those backends fall back to the
  sealed credential, although the review printed before reports their deposits as effective (`deposit.rs:238`).
  `CredentialsKept` says exactly that of them, and that no other backend is touched. A token deposited for a
  db-keystore backend shadows its key, and later commands refuse (`deposit.rs:207`); stale deposits
  are never pruned, and after 1024 new ones are ignored (`deposit.rs:322`); a passphrase file is
  wiped before the unlock is known to succeed (`unlock.rs:243`).

Challenge, reload, listeners:
* `challenge.rs:112` says that re-anchoring prevents minting a burst twice; a clock set back and
  forward again refills twice (`NoDoubleMint` without the premise of `RateExact`).
* Issuance can be declined while expired records wait for a later purge (`challenge.rs:215`).
* The handler of a Reload RPC can be dropped between the swap and its audit record
  (`Reload.AuditComplete`).
* `insert` (`revocation.rs:90`, "Add or extend") overwrites: it shortens an entry when the second expiry is earlier.
  `LiveEntriesKept` says that nothing else does.
* A readiness verdict can be cached under the generation after the one that classified it
  (`Serving.ReadinessCurrent`; `admin.rs:175`).
* An object that another program puts at a path in the moment between the `statat` and the
  `unlinkat` of `remove_owned_socket_at` (`listener_manager.rs:1063`) is unlinked, so
  "preserved" holds for objects the look meets; `ForeignSurvives` says that and that the only
  paths where this can happen are those of sockets the broker is giving up.
* `exchange` moves a foreign object that arrives between its check and its rename into the
  staging directory; a reload that takes the runtime after shutdown took the listeners leaves its sockets
  behind; a loop whose transition was dropped may still accept a transport of the old type.

Keys and tokens:
* A sign call that errs after the backend signed (`transit.rs:566`, an empty or malformed answer) is
  audited as `failed` (`invocation.rs:1158`), where a dropped handler is `indeterminate`: a failed
  execution does not exclude a signature, and `AuditTruthful` does not say that it does.
* Overlapping rotations may leave the lower of their floors (`manager.rs:1851`); rotating the
  storage key past its grace makes custody records undecryptable; a second `NewKey` of a software-custody key
  leaves it unreadable (`crypto_provider.rs:1100`).
* Verify names version 1 in every call (`transit.rs:33`, "v1 keys are never rotated"; `transit.rs:606`), so a signature of a
  later version does not verify through the broker, although versions in the window "still do"
  (`state.rs:305`; `Custody.InWindowVerifies`). Against the published key set it does, which is what `GraceKept` says.
* `set` is not refused for a key that has a generate recipe (`manager.rs:1843`), so it can replace one half of a
  certificate pair; `PairMatches` counts such a pair as torn.
* A rotation between the read of the public key and the signature gives a token the old key id
  (`minter.rs:1099`), or a NATS token whose issuer is the old key and whose signature is the new key's (`minter.rs:435`):
  it is returned as minted and no validation accepts it. A JWT-SVID is validated with the latest key only (`spiffe.rs`).
* Overlapping or interrupted writers of a TLS pair leave a certificate for another key.
* An enrollment that began before a reload may re-create a key that was deleted (`manager.rs:658`).
* `validate_nats_jwt` reports `UNKNOWN_SIGNER` for expired and badly signed tokens
  (`service/minting.rs:443`; `broker.proto:113`).
* A post-quantum key in software custody is probed in the transit engine by reconciliation; `missing = generate` is
  accepted on keys that can never be generated; the JWKS is built from the labels of the boot catalog.
* Non-matches of signed callers count as conclusive (`evidence.rs:521`); subject names that trim to
  the same name overwrite each other (loader, test at `loader.rs:2984`).
* SDS `FetchSecrets` is classified as read-only although it mints (`rpc_registry.rs:359`); a cancelled
  `RotateSecret` publishes no event; the X.509 stream ignores lag until its timer.

Relays and commands:
* The HTTPS courier accepts limits under which every challenge is refused `OVERLOADED`, and never
  evicts a source (`basil-https-courier/src/lib.rs:1249`); a challenge deadline after forwarding is classed
  `DeadlineBeforeForward` (`basil-courier/src/lib.rs:249`; the doc at 114); the carrier signer reads the
  clock once, before the round trip (`sealed_invocation.rs:827`).
* A CI session waits for the commit byte without refreshing its identity: when that expires meanwhile,
  `initial_refresh` sets no refresh and `serve` ends at once, "provider identity expired"
  (`ci_session.rs:728`, `901`). It claims its one invocation before it has read the frame (`1217`); a
  directory or socket is left when opening or pinning it fails (`ci_session.rs:1363`,
  `nix_provider.rs:858`); a killed Nix signer leaves a socket that the next start refuses.
* Nix batches: between the last comparison and the rename another publication is overwritten, as the
  code documents; a signal at the last checkpoint reports "cancelled" although all was committed.

## 4. Fairness

* `RekeyLive`: a run whose operations do not fail goes on (weak fairness: it is a
  sequential process), and the operator reruns `--resume` (strong fairness, because
  another command may hold the non-blocking locks in between). `calm` is the point after
  which nothing fails and no new broker is started: a serving broker excludes `--resume` for
  as long as it likes. `NoNewBroker`, `BeginCalm` and `LiveNext` exist only to say this.
* `Reload`: tasks are polled (weak fairness of every step and of the signal's receipt), and
  `live_reload_lock` is a tokio mutex, first come first served (strong fairness of its
  acquisition). That the backend answers the deny-list refresh in the end is assumed: its client has
  no timeout of its own (`backend/vault.rs:38`), and until it answers no further SIGHUP is received.
* `Listeners`: the transition's code runs on, and a server that was asked to stop leaves its
  loop and returns once it has no transports. Nothing makes a client leave: `GateReleased`, a
  conjunct of `TransitionsSafe`, holds because the transition only begins on listeners
  without transports.

The other specifications state no fairness: their properties are safety.

## 5. Proofs

Every theorem is proved by induction on steps: the invariant holds initially, each action
preserves each conjunct it can disturb, and the property follows. The specifications in the
theorems are the components' own (`Spec`, `HttpSpec`, `NatsSpec`, `InvSpec`, `CiSpec`, `NixSpec`,
`StreamSpec`, `BundleSpec`, `ServingSpec`, `RelaySpec`, `CustodySpec`). Where a run chooses scenes or narrower inputs, its behaviours are among
them: `NixSpec` lets other programs publish any record, `StreamSpec` writes any plaintext,
`BundleSpec` starts from a bundle with any slots and allow-list. The constants have the
assumptions named `...Assumption`, `ConstantsOK` in their modules: bounds are numbers, a marker
such as `None` is not a value, catalogs, commands and secrets have their fields, and
configurations passed the validation the code does. TLC evaluates them in the runs.

* **RekeyProofs.** The safety properties speak of what a power loss may leave, and are not
  inductive: they need to know where each run is. `IndInv` adds that the locks exclude each
  other, that the exposed directory states have one of the shapes that the durable marker and
  the exposed bundles allow (`DirsAgree`), and what each run knows at its control point
  (`RunKnows`), each broker (`AgentKnows`). From it: `NoWriteLost`,
  `LogMatchesDatabase`, `InterruptionRecoverable`, `BrokerConsistent`, `EpochConsistent`,
  `FenceLast`.
* **ServingProofs.** `SubscriberInv`: every generation served is in the history as the stream's kind meets it, a
  stream between its opening and its end holds the plan of one of them, and nothing in the log is younger than
  the serving generation or announces a version not reached. A bundle stream that waits has either sent
  the serving publishers, each read after every announcement it took (`UpToDate`), or has news of all of them ahead
  of it (`Pending`): the reload publishes every trust domain when any publisher changed, and nothing when none did.
  That rests on reloads that keep the class and type of every key (`ServingAssumption`, from
  `routing_shape`, `reload.rs:225`). `AuditInv` is `ReopenKept` with types. `PolicySoundHolds` is about all expressions: `TableExists` shows that the evaluation's
  recursive function has a value at every node (a shortest prefix without one would follow a prefix with one),
  `EvaluateFirm` that a node decided on partial evidence is decided alike on the full evidence (leaves, then `CombineFirm` for groups,
  and a first node that differs cannot be), and `LiteralFirst` that a target which is no wildcard begins with a segment that a fresh name
  does not have. It assumes compiled expressions and, for each file, a name no target of it begins with (`JudgementAssumption`). For the deny-list, `Kept`: of a token that is not contested, the
  map in memory, and every map on its way, hold what is acknowledged and what every unfinished Revoke RPC gave, and
  the backend holds what is acknowledged and what every landed RPC gave. A token is contested (a history variable)
  when it is inserted while a map is on its way or over a later expiry; the first is the violated run, the second the
  overwriting `insert`. No assumption on callers or on the number of RPCs is needed.
* **ListenersProofs.** `RegistryInv` is the conjunction of the registry's properties with `IdsInOrder`
  (ids in use, and leases, are below the next id), which is what keeps a new entry from
  inheriting leases. The cardinality facts are lemmas on finite sets. These theorems are about the registry alone
  and do not use the assumptions of `Listeners`; `RuntimeUsesRegistry` carries them to the running broker.
  `ListenersInv` is for the runtime. Every socket has one owner: the list of servers, the transition's new ones,
  or those that leave (`Owned`). The control point says which of the transition's sockets are staged,
  published and exchanged (`Steps`), and with it what may be at each path and in each staging directory
  (`Filed`), so that every way to unwind, from every point, ends in what was served before. Once the
  gated listeners have been found without transports, none arrives until they are retired (`GateOver`), which is
  why `TypesMatch` holds after the installation. `LedgerInv` is preserved by the updates alone.
* **CustodyProofs, the challenge table.** `ChallengeInv` joins the parts of `TableConsistent` and `TakenByHolderOnce` with what
  ties them to history: a record is the one its suffix was issued with (`RecordsOK`), suffixes in use are below
  the number issued, and the clock has not passed `latest`. The purge is the hard step: rotating
  and dropping queue entries up to the limit keeps an entry for every record (`PurgeCovers`).
  The same invariant gives the refinement, action by action (`ImplementsStoreHolds`). `RateExact` needs
  `RateInv`, which compares each tracked bucket with the one an unbounded map would hold.
* **CustodyProofs, the manager.** A step of `Custody` is one backend call of one handler, so what a handler read may be
  stale when it writes. The invariants say what it still may rely on. A first layer of lemmas shows which steps
  change each variable and leave each handler where it was; the rest is about those steps alone.
  `GraceInv`: a floor stays `Grace` behind the newest version, the version a rotation or a sweep read is not ahead of its key,
  and a custody record is wrapped by its storage key; so the floor a late handler configures is
  never too high. `PairInv`: who may write a certificate pair, and what a half-done writer leaves, which is the one
  way, beside a `set`, a pair comes to be torn. With both, `RotationSoundHolds`. `GrantInv` says of each reply what it may hold, and of imported keys the policy that
  granted the whole set (`GrantsHonouredHolds`). `ChainInv` ties a token to the public key and the clock its mint read, and its signature to
  the version that made it: the two differ only when a rotation came between, and then no validation accepts the token
  (`ChainsVerifyHolds`). `BootInv`: the keys of the catalog's order
  before the one at hand are reconciled, and that one is stored or its writes are queued. `CreationInv`: the enrollment lock is held from
  the first read to the answer, and a key that was made stays as it is while nobody meddles in the backend. The last two
  give `CreatedOnceHolds`. Assumed: the handlers of a scene are of one family and crashes belong to the
  reconcile pass, the catalog's order lists every key, an import starts from keys that are not there (`ScenesAssumption`, how a scene is
  set up); requests are of the protocol's kinds (`RequestsAssumption`, from the `oneof` of the service); only value
  and public entries have a generate recipe (`RoutingAssumption`, from `ValidateGenerate` of the loader).
* **ReloadProofs.** `ReloadInv` says of an attempt at each control point which files it has
  fingerprinted, read and verified, and that a fingerprint that still matches stands for the content that
  was read (`FilesOK`, `StageOK`); that only the holder of the lock is past `waiting`; and that from
  the comparison to the swap the base is what serves (`AgainstOK`). `GenerationSound` and
  `SwapsForward` follow from it at the swap.
* **InvocationProofs.** `InvocationInv` says what the audit record, the pinned generation, the charge and the
  challenge of a request must be at each stage, so that `AuditHonest` and `EffectsLegitimate` are its last
  stages. `KeysInv` and `QuotaInv` add what a cache may hold (keys seen published no longer ago than
  it may serve them) and what a bucket counts (every charge within its retention), for `TrustHeld`. That
  a reload installs no two rules for one token is a property of the step alone (`OneRulePerTokenHolds`).
* **CourierProofs.** `HttpInv`: a connection is of the broker process that runs or of an earlier one, one that was verified
  is to the expected peer, and a listener found to be a courier's is one while the connection lives (`ConnectionKnown`); what reached the
  broker waits for its answer, or has one that is not retryable (`ForwardKnown`). `NatsInv`: one bridge
  claims a message, and another that still has it in its inbox no longer holds the lease, which the renewal
  before its worker finds out (`OneClaim`); without a lease a queue group keeps it in one inbox (`OneQueued`). For the codec, the lemmas go from the order of labels over the map
  that is written in it (`WrittenMap`) to `HeaderReadBack`: every header is read back as it was
  written. So the decoder takes what either end built and judges it by its claims alone (`BuiltVerifies`), and
  refuses each of its other forms (`AlteredRefused`). `RelayInv` adds that a call remembers the request it sent; an answer is
  accepted for the hash of that request, which only its own answer carries. `CodecExactHolds` and
  `AnswerBoundHolds` follow. The constants' assumptions: keys of the two
  signature algorithms, the other trusted key is not the caller's or the broker's, times to live
  within the receiver's limit, messages below 4 GiB (`PartiesAssumption`), and `None` and `Bad` equal to no value a
  message carries (`ValuesAssumption`).
* **OperatorProofs.** `CiInv` needs that a refresh that is owed is set before the expiry (`RefreshOwed`). `SignerInv` ties
  answers and connections to the pin. `NixInv` says what a batch's counts are at each control point,
  that the lock has one holder, and that what is about to be renamed was edited from the record on disk and carries
  every signature that must stay (`RenameReady`); the edits' effect on the list of signatures is a
  chain of lemmas on `AtPositions`. `StreamInv` relates reader to
  writer by chunk: what was given out is the plaintext of the chunks read, and a chunk authenticates
  only at its place, in its stream, with its mark of being the last. `BundleInv` says that every bundle there is (on disk, backed up,
  about to be written, held by a broker) has its slots numbered in order, each wrapping the payload's
  key under the bundle's header (`Usable`). `DatedInv`, no deposit has a later epoch than its bundle or
  an ingest key not made yet, is what makes deposits inert after an epoch moves or a key is made, and gives `CredentialsKeptHolds`.
  `EffectiveServed` shows that `select_effective` picks the standing deposit or the sealed credential, for any log. For a filtered
  promote the theorem states what the code does: the backends it passes over get their sealed credential back.
  `HistoryKeptHolds` adds `SeenInv` (what a broker opened is in the sidecar), for any number of brokers, up to the first
  time two of them start at once.

Only model-checked:
* liveness (`RekeyRecovers`, `SignalHonoured`, `GateReleased`), which is outside the prover.

Every safety invariant and action property of a passing run is stated by a theorem, with the premises named above
where it has any.

## 6. Assumptions of the models

* Rekey: the file system orders metadata operations of one directory, and the fsync of a file commits
  earlier operations of its directory; flocks exclude; a key may be chosen again; the `-tshm` file
  goes with the log; epochs do not overflow; nobody tampers with the files or restores backups.
  `create` appears only as the initial state; `Bundle` has it, and restored backups.
* Challenge: suffixes from the CSPRNG do not repeat.
* Revocation: the clock is not set back; an abandoned put has landed or never will; the
  storage key is fixed at startup; a malformed stored list fails the load.
* Reload: every edit gives a file a fingerprint it never had; account files and federation trust
  are outside the snapshot, as in the code; dry runs change nothing and are left out.
* Listeners: staging directories are private to the broker; parents are trusted directories; inodes of live sockets are not reused; tonic may accept once more after it was asked to stop.
* Invocation, Federation, Minting, Cose, Streaming, Bundle: signatures and ciphertexts are made only
  with their keys; hashes do not collide; random identifiers do not repeat. A document is its
  parsed form, with a flag where it may be malformed.
* Custody: one backend call is atomic and its effect is known once it answers; a call whose
  handler is dropped has taken effect or not.
* Courier: the NATS server applies key-value operations by revision in one order, and expires a
  lease no earlier than its age; the broker behind a socket may restart at any time.
* NixCache: rename is atomic; the advisory lock is released when its holder dies; other publishers
  replace whole records.
* Serving, Bundle, NixCache, CiSession: power losses are not modelled there, only the ends of processes.

## 7. Not modelled, and the plan

Generated protocol buffers, cryptographic primitives, the wire formats and authentication of
remote backends, argument parsing and configuration text, log wording, and one-shot operator
commands (`doctor`, `init`, `demo`, thin clients) are left out: they hold no state that
interleaves, or are services of others. Calls that only list state are left out. The tests and the build tools
under `basil-tests` and `xtask` are read as documentation.

Next, in order of importance:

1. The two hazards that no property covers (`PROJECT.json`): maintenance between an interrupted rekey and its
   resume, and a Reload RPC whose client goes away after the swap.
2. `SignatureBound` for callers that bear a signature: what partial evidence may change in their resolution.

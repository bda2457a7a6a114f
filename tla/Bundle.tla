------------------------------- MODULE Bundle -------------------------------
(***************************************************************************)
(* The sealed credential bundle: its slots and unlock methods, its payload *)
(* and deposit log, the `basil bundle` commands that re-seal it, the epoch *)
(* sidecar, and a broker that opens it at start-up.                        *)
(*                                                                         *)
(* Encryption is modelled by what it binds.  A payload carries the key     *)
(* (KEK) and the header it was encrypted under, a slot the header and slot *)
(* number its wrap authenticates and the secret that unwraps it; both open *)
(* only under the same ones.                                               *)
(***************************************************************************)
EXTENDS Integers, Sequences, FiniteSets, FiniteSetsExt, SequencesExt, Positions

CONSTANTS
  Backends,        \* backend ids
  Contributors,    \* contributor key ids, numbers as the log orders them
  Secrets,         \* what an operator can present: [kind, secret] records
  Boots,           \* the PCR values the platform can be booted into
  Brokers,
  None,
  MaxSeq,          \* the sequence numbers' ceiling, u64::MAX
  MaxDeposits,     \* MAX_DEPOSITS
  MaxCommands, MaxRestores   \* bounds on a behaviour

MethodKinds == {"age", "bip39", "passphrase", "tpm"}

ASSUME BundleAssumption ==
  /\ MaxSeq \in Nat \ {0} /\ MaxDeposits \in Nat /\ Contributors \subseteq Nat /\ IsFiniteSet(Contributors)
  /\ None \notin Nat /\ None \notin Boots
  /\ \A m \in Secrets : DOMAIN m = {"kind", "secret"} /\ m.kind \in MethodKinds /\ m.secret # None

VARIABLES
  disk,      \* the bundle file
  seen,      \* the epoch sidecar, None when absent
  job,       \* the command that holds the maintenance lock, or NoJob
  broker,    \* per broker: where it is, the bundle then the credentials it holds
  phrase,    \* is the passphrase file there for the next start
  pcrs,      \* the platform's current PCR values
  count,     \* commands begun; stamps what they write
  recipients, \* the ingest keys published to contributors
  backups,   \* bundles that were on disk (history)
  restores,  \* backups put back
  floor,     \* the highest epoch a broker opened since an older bundle was adopted (history)
  orphaned,  \* a create was interrupted before its sidecar (history)
  crowded    \* two brokers were starting at the same time (history)

bundleVars == <<disk, seen, job, broker, phrase, pcrs, count, recipients, backups, restores, floor, orphaned,
                crowded>>

(* A credential is a login (opaque) or the key of a local store. *)
CredKinds == {"token", "dek"}
Cred(kind, by, n) == [kind |-> kind, by |-> by, n |-> n]
Header(b) == <<b.id, b.epoch>>

(* What the file holds: slots, each of a method and with the key wrapped   *)
(* for it; the sealed credentials, ingest key and allow-list; the deposits *)
(* in the clear.  A body that decodes has the header its payload was       *)
(* sealed under.                                                           *)
SlotOK(s) ==
  /\ DOMAIN s = {"id", "kind", "secret", "aad", "kek"}
  /\ s.id \in Nat /\ s.kind \in MethodKinds /\ s.kek \in Nat
CredBundleOK(p) ==
  /\ DOMAIN p = {"kek", "aad", "creds", "ingest", "allow"}
  /\ DOMAIN p.creds = Backends /\ \A k \in Backends : p.creds[k].kind \in CredKinds
  /\ p.allow \in [Contributors -> SUBSET Backends]
DepositOK(d) ==
  /\ DOMAIN d = {"to", "epoch", "seq", "who", "signer", "ingest", "aad", "cred"}
  /\ d.to \in Backends /\ d.epoch \in Nat \ {0} /\ d.seq \in 1..MaxSeq
  /\ {d.who, d.signer} \subseteq Contributors /\ d.cred.kind \in CredKinds
Decodes(b) ==
  /\ b.payload.aad = Header(b) /\ b.epoch \in Nat \ {0}
  /\ \A i \in DOMAIN b.slots : SlotOK(b.slots[i])
  /\ \A i, j \in DOMAIN b.slots : b.slots[i].id = b.slots[j].id => i = j
  /\ CredBundleOK(b.payload)
  /\ \A i \in DOMAIN b.deposits : DepositOK(b.deposits[i])

-----------------------------------------------------------------------------
(* Unlock methods. *)

(* The slots an open can be tried with: a TPM seals under the PCR values   *)
(* of the moment, any other method under its own secret.                   *)
PolicyDigest == pcrs
Presented(m) == IF m.kind = "tpm" THEN [m EXCEPT !.secret = PolicyDigest] ELSE m
(* An empty passphrase or phrase, no identity, no device. *)
Available(m) == m.secret # None
(* A slot's wrap authenticates the header and the slot's number, except    *)
(* age's, which is addressed to a recipient only.                          *)
WrapAad(kind, hdr, slot) == IF kind = "age" THEN None ELSE <<hdr, slot>>
WrapKek(m, kek, hdr, slot) ==
  [id |-> slot, kind |-> m.kind, secret |-> m.secret, aad |-> WrapAad(m.kind, hdr, slot), kek |-> kek]
(* A rewrap keeps the method's recorded parameters: the recipient, the     *)
(* costs and the PCR selection.                                            *)
RewrapKek(s, kek, hdr) == [s EXCEPT !.aad = WrapAad(s.kind, hdr, s.id), !.kek = kek]
RecoverKek(m, s, hdr) ==
  /\ m.kind = s.kind /\ Available(m) /\ m.secret = s.secret
  /\ s.aad = WrapAad(s.kind, hdr, s.id)

Recovered(b, open) ==
  {i \in DOMAIN b.slots : \E m \in open : RecoverKek(m, b.slots[i], Header(b))}
(* The first slot that one of the methods opens decides. *)
RecoverAny(b, open) == IF Recovered(b, open) = {} THEN None ELSE b.slots[Min(Recovered(b, open))].kek
DecryptPayload(b, kek) == kek = b.payload.kek /\ b.payload.aad = Header(b)
OpenBundle(b, open) ==
  LET kek == RecoverAny(b, open) IN kek # None /\ DecryptPayload(b, kek)

(* Unsealing a TPM slot takes a primary key, a loaded object and a policy  *)
(* session; the step that fails ends it, and what was taken is flushed     *)
(* from the inside out.  The handles held before each step.                *)
TpmSteps == <<"create_primary", "load", "start_session", "policy_pcr", "unseal">>
TpmTakes(step) == step \in {"create_primary", "load", "start_session"}
TpmHeld(n) == SelectSeq(SubSeq(TpmSteps, 1, n - 1), TpmTakes)
TpmFlushed(n) == Reverse(TpmHeld(n))
(* The bitmap of a PCR selection: at least three bytes, at most Limit. *)
PcrBytes(sel, Limit) ==
  LET span == (IF sel = {} THEN 0 ELSE Max(sel) \div 8) + 1
      n == IF span < 3 THEN 3 ELSE span
  IN IF n > Limit THEN None ELSE n
PcrBitmap(sel, Limit) ==
  LET n == PcrBytes(sel, Limit)
  IN [k \in 1..n |-> FoldSet(LAMBDA p, acc : acc + 2 ^ (p % 8), 0, {p \in sel : p \div 8 = k - 1})]

-----------------------------------------------------------------------------
(* Deposits: credentials sealed to the bundle's ingest key and signed by a *)
(* contributor, appended to the file without opening it.                   *)

NextDepositSeq(b, who, to) ==
  LET mine == {b.deposits[i].seq : i \in {j \in DOMAIN b.deposits :
                 b.deposits[j].who = who /\ b.deposits[j].to = to}}
  IN IF mine = {} THEN 1 ELSE IF Max(mine) = MaxSeq THEN MaxSeq ELSE Max(mine) + 1

CreateSignedRecord(b, to, who, signer, seq, ingest, cred) ==
  [to |-> to, epoch |-> b.epoch, seq |-> seq, who |-> who, signer |-> signer,
   ingest |-> ingest, aad |-> Header(b), cred |-> cred]

(* What a reader makes of record i. *)
ReviewOne(b, i) ==
  LET d == b.deposits[i] IN
  IF b.payload.ingest = None THEN "MissingIngestIdentity"
  ELSE IF i > MaxDeposits THEN "LogTooLarge"
  ELSE IF d.epoch # b.epoch THEN "StaleEpoch"
  ELSE IF b.payload.allow[d.who] = {} THEN "UnauthorizedContributor"
  ELSE IF d.to \notin b.payload.allow[d.who] THEN "UnauthorizedBackend"
  ELSE IF d.signer # d.who THEN "BadSignature"
  ELSE IF d.ingest # b.payload.ingest \/ d.aad # Header(b) THEN "DecryptFailed"
  ELSE "Superseded"
Candidates(b) == {i \in DOMAIN b.deposits : ReviewOne(b, i) = "Superseded"}

(* by_pair: of a contributor's records for a backend the highest number,   *)
(* and of those the last.                                                  *)
ByPair(b) ==
  {i \in Candidates(b) : \A j \in Candidates(b) :
     LET d == b.deposits[i] e == b.deposits[j] IN
     (d.to = e.to /\ d.who = e.who /\ i # j) => d.seq > e.seq \/ (d.seq = e.seq /\ i > j)}
(* by_backend: of the contributors' the highest number, and of those the   *)
(* higher key id, which comes later in the map.                            *)
SelectEffective(b) ==
  {i \in ByPair(b) : \A j \in ByPair(b) :
     LET d == b.deposits[i] e == b.deposits[j] IN
     (d.to = e.to /\ i # j) => d.seq > e.seq \/ (d.seq = e.seq /\ d.who > e.who)}

Overlay(b, chosen) ==
  [k \in Backends |->
     LET of == {i \in chosen : b.deposits[i].to = k}
     IN IF of = {} THEN b.payload.creds[k] ELSE b.deposits[Max(of)].cred]
(* apply_authorized_deposits: what a broker serves with. *)
Effective(b) == Overlay(b, SelectEffective(b))

(* The same without the code's passes, for the properties: a deposit may   *)
(* count if a contributor to whom the backend is open signed it for this   *)
(* bundle, epoch and ingest key, and of those the one with the highest     *)
(* number, then key id, then place does.                                   *)
Valid(b, k) ==
  {i \in DOMAIN b.deposits :
     LET d == b.deposits[i] IN
     /\ i <= MaxDeposits /\ d.to = k /\ d.signer = d.who /\ k \in b.payload.allow[d.signer]
     /\ d.epoch = b.epoch /\ d.aad = Header(b)
     /\ b.payload.ingest # None /\ d.ingest = b.payload.ingest}
Standing(b, k) ==
  LET seq == Max({b.deposits[i].seq : i \in Valid(b, k)})
      last == {i \in Valid(b, k) : b.deposits[i].seq = seq}
      who == Max({b.deposits[i].who : i \in last})
  IN Max({i \in last : b.deposits[i].who = who})
Served(b, k) == IF Valid(b, k) = {} THEN b.payload.creds[k] ELSE b.deposits[Standing(b, k)].cred
(* The backends whose standing deposit a promotion's filters pass over. *)
LeftOut(b, backends, whos) ==
  {k \in Backends :
     /\ Valid(b, k) # {}
     /\ (backends # {} /\ k \notin backends) \/ (whos # {} /\ b.deposits[Standing(b, k)].who \notin whos)}

-----------------------------------------------------------------------------
(* Sealing. *)

EncryptPayload(kek, hdr, p) == [p EXCEPT !.kek = kek, !.aad = hdr]
Seal(id, specs, creds, ingest) ==
  LET hdr == <<id, 1>> IN
  [id |-> id, epoch |-> 1,
   slots |-> [i \in DOMAIN specs |-> WrapKek(specs[i], id, hdr, i - 1)],
   payload |-> [kek |-> id, aad |-> hdr, creds |-> creds, ingest |-> ingest,
                allow |-> [c \in Contributors |-> {}]],
   deposits |-> <<>>]
(* The same header: slots and deposits stay as they are. *)
ResealPayload(b, p) == [b EXCEPT !.payload = EncryptPayload(b.payload.kek, Header(b), p)]

RewrapSlots_Opened(b, open, kek, hdr) ==
  [i \in DOMAIN b.slots |->
     IF i \in Recovered(b, open) THEN RewrapKek(b.slots[i], kek, hdr) ELSE b.slots[i]]
(* Every slot's method must be presented and recover the same key. *)
RewrapSlots(b, open, kek, hdr) ==
  IF Recovered(b, open) = DOMAIN b.slots /\ \A i \in DOMAIN b.slots : b.slots[i].kek = kek
  THEN [i \in DOMAIN b.slots |-> RewrapKek(b.slots[i], kek, hdr)]
  ELSE None
BumpEpoch(b, open, p, deposits) ==
  LET kek == RecoverAny(b, open)
      hdr == <<b.id, b.epoch + 1>>
      slots == RewrapSlots(b, open, kek, hdr)
  IN IF slots = None THEN None
     ELSE [b EXCEPT !.epoch = @ + 1, !.slots = slots, !.deposits = deposits,
                    !.payload = EncryptPayload(kek, hdr, p)]

NextSlotId(b) == Max({b.slots[i].id : i \in DOMAIN b.slots}) + 1
AddSlot(b, open, m) ==
  LET kek == RecoverAny(b, open) IN
  IF kek = None THEN None
  ELSE [b EXCEPT !.slots = Append(@, WrapKek(m, kek, Header(b), NextSlotId(b)))]

Without(b, gone) == AtPositions(b.deposits, DOMAIN b.deposits \ gone)
(* Both filters empty select every effective deposit. *)
Selected(b, backends, whos) ==
  {i \in SelectEffective(b) :
     /\ backends = {} \/ b.deposits[i].to \in backends
     /\ whos = {} \/ b.deposits[i].who \in whos}
PromoteDeposits(b, open, backends, whos) ==
  LET chosen == Selected(b, backends, whos)
  IN BumpEpoch(b, open, [b.payload EXCEPT !.creds = Overlay(b, chosen)], Without(b, chosen))

-----------------------------------------------------------------------------
(* The commands.  Each takes the maintenance lock without waiting, reads   *)
(* the bundle, computes its replacement, renames it over the file, and     *)
(* writes the epoch sidecar when it writes one at all.                     *)

CommandNames == {"create", "add_slot", "set_backend", "deposit", "allow", "promote", "deposit_key", "rekey"}
NoJob == [pc |-> "none"]
Guarded(s) == broker[s].pc \in {"read", "advance", "checked", "open"}
LockFree == job = NoJob /\ \A s \in Brokers : ~Guarded(s)
Opens == {{Presented(m) : m \in ms} : ms \in SUBSET Secrets}
Stamp == count + 1

(* next: the new file, epoch: what the sidecar gets (None: not written),   *)
(* token: the ingest key published at the end (None: none), about: the     *)
(* backends it may give another credential to serve with.                  *)
Run(cmd, next, epoch, token, about) ==
  /\ LockFree /\ count < MaxCommands
  /\ count' = count + 1
  /\ job' = [cmd |-> cmd, next |-> next, epoch |-> epoch, token |-> token, about |-> about, pc |-> "write"]
  /\ UNCHANGED <<disk, seen, broker, phrase, pcrs, recipients, backups, restores, floor, orphaned, crowded>>

Create(specs, kinds, ingest) ==
  /\ specs # <<>>
  /\ Run("create", Seal(Stamp, specs, [k \in Backends |-> Cred(kinds[k], "operator", Stamp)],
                        IF ingest THEN Stamp ELSE None),
         1, IF ingest THEN Stamp ELSE None, Backends)

AddSlotCommand(open, m) ==
  /\ AddSlot(disk, open, m) # None
  /\ Run("add_slot", AddSlot(disk, open, m), disk.epoch, None, {})

SetBackend(open, k, kind) ==
  /\ OpenBundle(disk, open)
  /\ disk.payload.creds[k].kind # "dek"
  /\ Run("set_backend",
         ResealPayload(disk, [disk.payload EXCEPT !.creds[k] = Cred(kind, "operator", Stamp)]),
         disk.epoch, None, {k})

(* A deposit is sealed to a published key, which may be an older bundle's. *)
Deposit(k, who, signer, seq, ingest) ==
  /\ ingest \in recipients
  /\ Run("deposit",
         [disk EXCEPT !.deposits = Append(@, CreateSignedRecord(disk, k, who, signer, seq, ingest,
                                                 Cred("token", signer, Stamp)))],
         None, None, {k})

(* ensure_deposit_identity: keeps an identity that is there. *)
Ingest == IF disk.payload.ingest = None THEN Stamp ELSE disk.payload.ingest
(* The contributor's whole grant is replaced. *)
Allow(open, who, backends) ==
  /\ backends # {} /\ OpenBundle(disk, open)
  /\ Run("allow", ResealPayload(disk, [disk.payload EXCEPT !.allow[who] = backends, !.ingest = Ingest]),
         None, None, disk.payload.allow[who] \cup backends)
DepositKey(open) ==
  /\ OpenBundle(disk, open)
  /\ Run("deposit_key", ResealPayload(disk, [disk.payload EXCEPT !.ingest = Ingest]),
         None, Ingest, {})

(* An effective deposit for a db-keystore's key is refused. *)
PromoteTargets(backends, whos) ==
  \A i \in Selected(disk, backends, whos) : disk.payload.creds[disk.deposits[i].to].kind # "dek"
(* A deposit left out by the filters stays in the log, of an epoch that is *)
(* over: its backend is served from the sealed payload again.              *)
Promote(open, backends, whos) ==
  /\ OpenBundle(disk, open)
  /\ PromoteTargets(backends, whos)
  /\ \E next \in {PromoteDeposits(disk, open, backends, whos)} :
       /\ next # None
       /\ Run("promote", next, next.epoch, None, LeftOut(disk, backends, whos))

(* prepare_db_keystore_rekey: the effective deposits are folded in, those  *)
(* for the rekeyed backend dropped, and a bundle older than its sidecar is *)
(* refused.                                                                *)
RekeyPrepared(open, k) ==
  LET creds == [Effective(disk) EXCEPT ![k] = Cred("dek", "rekey", Stamp)]
      gone == SelectEffective(disk) \cup {i \in DOMAIN disk.deposits : disk.deposits[i].to = k}
  IN BumpEpoch(disk, open, [disk.payload EXCEPT !.creds = creds], Without(disk, gone))
AuthenticatePrepared(post, open, k) ==
  /\ post.id = disk.id /\ post.epoch = disk.epoch + 1
  /\ \A i \in DOMAIN post.deposits : post.deposits[i].to # k
  /\ OpenBundle(post, open) /\ SelectEffective(post) = {}
  /\ Effective(post)[k] = Cred("dek", "rekey", Stamp)
RekeyCommand(open, k) ==
  /\ OpenBundle(disk, open)
  /\ Effective(disk)[k].kind = "dek"
  /\ seen # None => seen <= disk.epoch
  /\ \E next \in {RekeyPrepared(open, k)} :
       /\ next # None /\ AuthenticatePrepared(next, open, k)
       /\ Run("rekey", next, next.epoch, None, {k})

(* The command's next write: the sidecar, the public token, or none. *)
Continue(after) ==
  IF after = "write" /\ job.epoch # None THEN [job EXCEPT !.pc = "sidecar"]
  ELSE IF job.token # None THEN [job EXCEPT !.pc = "token"]
  ELSE NoJob
(* write_name: a private temporary file renamed over the target. *)
WriteBundle ==
  /\ job # NoJob /\ job.pc = "write"
  /\ disk' = job.next
  /\ backups' = backups \cup {disk}
  /\ job' = Continue("write")
  /\ UNCHANGED <<seen, broker, phrase, pcrs, count, recipients, restores, floor, orphaned, crowded>>
WriteEpoch ==
  /\ job # NoJob /\ job.pc = "sidecar"
  /\ seen' = job.epoch
  /\ floor' = IF job.epoch < floor THEN job.epoch ELSE floor
  /\ orphaned' = (orphaned /\ job.epoch # disk.epoch)
  /\ job' = Continue("sidecar")
  /\ UNCHANGED <<disk, broker, phrase, pcrs, count, recipients, backups, restores, crowded>>
(* public_key_token: the recipient a contributor is given. *)
Publishes(key) == recipients' = recipients \cup {key}
WriteToken ==
  /\ job # NoJob /\ job.pc = "token"
  /\ Publishes(job.token)
  /\ job' = NoJob
  /\ UNCHANGED <<disk, seen, broker, phrase, pcrs, count, backups, restores, floor, orphaned, crowded>>

Proceed == WriteBundle \/ WriteEpoch \/ WriteToken

(* A killed command, or a write that failed: the lock goes with it. *)
Interrupt ==
  /\ job # NoJob
  /\ orphaned' = (orphaned \/ (job.cmd = "create" /\ job.pc = "sidecar"))
  /\ job' = NoJob
  /\ UNCHANGED <<disk, seen, broker, phrase, pcrs, count, recipients, backups, restores, floor, crowded>>

-----------------------------------------------------------------------------
(* A broker's start: the guard, which starts share with each other, the    *)
(* epoch check, the unlock, the deposits.                                  *)

Idle == [pc |-> "down", held |-> None, epoch |-> 0]
StartRead(s) ==
  /\ broker[s].pc = "down" /\ job = NoJob
  /\ broker' = [broker EXCEPT ![s] = [pc |-> "read", held |-> disk, epoch |-> disk.epoch]]
  /\ crowded' = (crowded \/ \E t \in Brokers : Guarded(t))
  /\ UNCHANGED <<disk, seen, job, phrase, pcrs, count, recipients, backups, restores, floor, orphaned>>
(* verify_and_advance_epoch: a bundle behind its sidecar is refused; the   *)
(* sidecar is written when it is behind or absent.                         *)
VerifyEpoch(current) ==
  IF seen = None THEN "advance"
  ELSE IF current < seen THEN "refused" ELSE IF current = seen THEN "checked" ELSE "advance"
StartCheck(s) ==
  /\ broker[s].pc = "read"
  /\ \E verdict \in {VerifyEpoch(broker[s].epoch)} :
       broker' = [broker EXCEPT ![s] = IF verdict = "refused" THEN Idle ELSE [@ EXCEPT !.pc = verdict]]
  /\ UNCHANGED <<disk, seen, job, phrase, pcrs, count, recipients, backups, restores, floor, orphaned, crowded>>
AdvanceEpoch_Keeps(current) == seen' = seen
AdvanceEpoch(current) == seen' = current
StartAdvance(s) ==
  /\ broker[s].pc = "advance"
  /\ AdvanceEpoch(broker[s].epoch)
  /\ broker' = [broker EXCEPT ![s].pc = "checked"]
  /\ UNCHANGED <<disk, job, phrase, pcrs, count, recipients, backups, restores, floor, orphaned, crowded>>
(* The configured methods; the passphrase of one is there if its file is.  *)
Configured == {n \in Secrets : n.kind # "passphrase" \/ phrase}
StartMethods == {Presented(m) : m \in Configured}
(* The passphrase file is read and wiped before it is known to open the    *)
(* bundle; without the file the start fails.                               *)
ReadAndWipe == phrase /\ phrase' = FALSE
StartOpen(s) ==
  /\ broker[s].pc = "checked"
  /\ ReadAndWipe
  /\ \E b \in {broker[s].held} :
       IF OpenBundle(b, StartMethods)
       THEN /\ broker' = [broker EXCEPT ![s] = [pc |-> "open", held |-> Effective(b), epoch |-> b.epoch]]
            /\ floor' = IF b.epoch > floor THEN b.epoch ELSE floor
       ELSE /\ broker' = [broker EXCEPT ![s] = Idle]
            /\ UNCHANGED floor
  /\ UNCHANGED <<disk, seen, job, pcrs, count, recipients, backups, restores, orphaned, crowded>>
StartServe(s) ==
  /\ broker[s].pc = "open"
  /\ broker' = [broker EXCEPT ![s].pc = "serving"]
  /\ UNCHANGED <<disk, seen, job, phrase, pcrs, count, recipients, backups, restores, floor, orphaned, crowded>>
Stop(s) ==
  /\ broker[s].pc # "down"
  /\ broker' = [broker EXCEPT ![s] = Idle]
  /\ UNCHANGED <<disk, seen, job, phrase, pcrs, count, recipients, backups, restores, floor, orphaned, crowded>>

(* The host: a passphrase file provisioned for the next start, a boot into *)
(* other PCR values, a backup of the bundle put back without its sidecar.  *)
Provision == ~phrase /\ phrase' = TRUE
             /\ UNCHANGED <<disk, seen, job, broker, pcrs, count, recipients, backups, restores, floor, orphaned, crowded>>
Boot(v) ==
  /\ pcrs' = v /\ v # pcrs
  /\ job' = NoJob
  /\ orphaned' = (orphaned \/ (job # NoJob /\ job.cmd = "create" /\ job.pc = "sidecar"))
  /\ broker' = [s \in Brokers |-> Idle]
  /\ UNCHANGED <<disk, seen, phrase, count, recipients, backups, restores, floor, crowded>>
Restore(b) ==
  /\ restores < MaxRestores /\ b # disk
  /\ disk' = b
  /\ restores' = restores + 1
  /\ UNCHANGED <<seen, job, broker, phrase, pcrs, count, recipients, backups, floor, orphaned, crowded>>

-----------------------------------------------------------------------------
(* A bundle as `basil bundle create` leaves it, perhaps with contributors  *)
(* let in, and whatever commands, starts and host do from there.           *)
Specs(ms) == [i \in DOMAIN ms |-> Presented(ms[i])]
BundleInit ==
  /\ seen \in {None, 1} /\ job = NoJob /\ broker = [s \in Brokers |-> Idle]
  /\ phrase = TRUE /\ pcrs \in Boots
  /\ count = 0 /\ recipients = {0} /\ backups = {} /\ restores = 0 /\ floor = 0 /\ orphaned = FALSE
  /\ crowded = FALSE
  /\ \E ms \in Seq(Secrets) \ {<<>>}, kinds \in [Backends -> CredKinds],
        allow \in [Contributors -> SUBSET Backends] :
       disk = [Seal(0, Specs(ms), [k \in Backends |-> Cred(kinds[k], "operator", 0)], 0)
                 EXCEPT !.payload.allow = allow]

OpenCommand(open) ==
  \/ \E m \in Secrets : AddSlotCommand(open, Presented(m))
  \/ \E k \in Backends : RekeyCommand(open, k) \/ \E kind \in CredKinds : SetBackend(open, k, kind)
  \/ \E who \in Contributors, ks \in SUBSET Backends : Allow(open, who, ks)
  \/ \E ks \in SUBSET Backends, ws \in SUBSET Contributors : Promote(open, ks, ws)
  \/ DepositKey(open)
Start(s) == StartRead(s) \/ StartCheck(s) \/ StartAdvance(s) \/ StartOpen(s) \/ StartServe(s) \/ Stop(s)
BundleNext ==
  \/ \E ms \in Seq(Secrets), kinds \in [Backends -> CredKinds], ingest \in BOOLEAN :
       Create(Specs(ms), kinds, ingest)
  \/ \E open \in Opens : OpenCommand(open)
  \/ \E k \in Backends, who, signer \in Contributors, seq \in 1..MaxSeq, i \in recipients :
       Deposit(k, who, signer, seq, i)
  \/ Proceed \/ Interrupt
  \/ \E s \in Brokers : Start(s)
  \/ Provision \/ (\E v \in Boots : Boot(v)) \/ (\E b \in backups : Restore(b))
BundleSpec == BundleInit /\ [][BundleNext]_bundleVars

-----------------------------------------------------------------------------
(* Every slot of the bundle opens it with its own method, whatever slots   *)
(* were added and however often the epoch moved: a re-seal that rewrapped  *)
(* only the slot it opened would leave the break-glass slot dead           *)
(* (bundle_cli.rs, seal/mod.rs rewrap_slots).                              *)
SlotMethod(s) == [kind |-> s.kind, secret |-> s.secret]
EverySlotOpens ==
  \A i \in DOMAIN disk.slots : OpenBundle(disk, {SlotMethod(disk.slots[i])})

(* The sidecar is ahead of the bundle, and every start refused, only when  *)
(* a backup was put back or a create over an older bundle was cut short:   *)
(* never because a promotion or a rekey was interrupted (bundle_cli.rs     *)
(* promote, PreparedBundleRekey::write_epoch_sidecar).                     *)
Creating == job # NoJob /\ job.cmd = "create" /\ job.pc = "sidecar"
NotLockedOut ==
  (seen # None /\ seen > disk.epoch) => restores > 0 \/ orphaned \/ Creating

(* Whatever a command wrote and a broker read is a bundle that decodes,    *)
(* with one slot for each number (format.rs decode).                       *)
BundleTypeOK ==
  /\ Decodes(disk) /\ \A b \in backups : Decodes(b)
  /\ job # NoJob => job.cmd \in CommandNames /\ Decodes(job.next)
  /\ \A s \in Brokers : broker[s].pc \in {"read", "advance", "checked"} => Decodes(broker[s].held)

(* Whatever commands ran and were interrupted, the bundle decodes, each    *)
(* slot opens it and the sidecar lets a broker start.                      *)
SlotsUsable == BundleTypeOK /\ EverySlotOpens /\ NotLockedOut

(* No broker opens an epoch older than one a broker opened before, unless  *)
(* a command adopted the older bundle in between: also when the sidecar    *)
(* was left behind by an interrupted command.  Not after two brokers have  *)
(* been starting at once: the guard they share does not keep one's check   *)
(* and write of the sidecar together (verify_and_advance_epoch).           *)
RollbackNoticed ==
  [][~crowded => \A s \in Brokers : (broker[s].pc = "checked" /\ broker'[s].pc = "open") =>
       broker'[s].epoch >= floor]_bundleVars

(* What a start would serve with is, after any command, the standing       *)
(* deposit or else the sealed credential.  A command changes that only for *)
(* the backends it is about: an allow for those it grants or had granted,  *)
(* a filtered promotion for those whose deposit it passes over, which fall *)
(* back to the sealed credential.  And the key of a local store is         *)
(* replaced by a rekey or a create alone (deposit.rs select_effective,     *)
(* promote_deposits, bundle_cli.rs prepare_db_keystore_rekey).             *)
CredentialsKept ==
  [][(job = NoJob /\ job' # NoJob) =>
       \A k \in Backends :
         /\ Effective(job'.next)[k] = Served(job'.next, k)
         /\ k \notin job'.about => Served(job'.next, k) = Served(disk, k)
         /\ (k \in job'.about /\ job'.cmd = "promote") => Served(job'.next, k) = disk.payload.creds[k]
         /\ (job'.cmd \notin {"rekey", "create"} /\ disk.payload.creds[k].kind = "dek") =>
               job'.next.payload.creds[k] = disk.payload.creds[k]]_bundleVars

(* The history of a bundle: epochs are not rolled back unnoticed, and a    *)
(* command changes no credential but those it is about.                    *)
HistoryKept == RollbackNoticed /\ CredentialsKept
=============================================================================

----------------------------- MODULE MCOperator -----------------------------
(***************************************************************************)
(* One instance of what operators and jobs run beside the broker.  A scene *)
(* is chosen at the start and only its part moves:                         *)
(*   slots     commands on a sealed bundle, broker starts, restored backups*)
(*   deposits  contributors' credentials, reviewed and promoted            *)
(*   cache     two batches over a Nix cache, beside another publisher      *)
(*   signer    connections to the Nix signer                               *)
(*   session   a CI session                                                *)
(*   file      an encrypted stream, written, carried and read              *)
(***************************************************************************)
EXTENDS Bundle, NixCache, CiSession, Streaming

VARIABLE scene

----------------------------------------------------------------------------
(* The sealed bundle. *)

Passphrase == [kind |-> "passphrase", secret |-> "pw"]
Chip == [kind |-> "tpm", secret |-> "chip"]
Yubikey == [kind |-> "age", secret |-> "yubikey"]
MCSecrets == {Passphrase, Chip, Yubikey}
MCKinds == [db |-> "dek", kv |-> "token"]
MCGrants == [c \in Contributors |-> IF c = 1 THEN {"kv"} ELSE Backends]

FirstBoot == CHOOSE v \in Boots : TRUE
OneSlot == Seal(0, <<Passphrase>>, [k \in Backends |-> Cred(MCKinds[k], "operator", 0)], 0)
Granted == [OneSlot EXCEPT !.payload.allow = MCGrants]

SlotCommands ==
  /\ count < 2
  /\ \/ \E m \in Secrets : Create(<<Presented(m)>>, MCKinds, FALSE)
     \/ \E open \in {{Passphrase}, {Presented(m) : m \in Secrets}} :
          \/ \E m \in Secrets : AddSlotCommand(open, Presented(m))
          \/ \E k \in Backends, kind \in CredKinds : SetBackend(open, k, kind)
          \/ \E k \in Backends : RekeyCommand(open, k)
          \/ Promote(open, {}, {})
          \/ DepositKey(open)
DepositCommands ==
  \/ \E open \in {{Passphrase}} :
       \/ \E who \in Contributors : \E ks \in {{"kv"}, Backends} : Allow(open, who, ks)
       \/ \E k \in Backends : RekeyCommand(open, k)
       \/ \E ks \in {{}, {"kv"}} : \E ws \in {{}, {1}} : Promote(open, ks, ws)
  \/ \E k \in Backends : \E who \in Contributors : \E signer \in {who, 1} :
       \E seq \in {NextDepositSeq(disk, who, k), MaxSeq} : \E i \in recipients :
         Deposit(k, who, signer, seq, i)
Host ==
  \/ \E s \in Brokers : Start(s)
  \/ Provision \/ (\E v \in Boots : Boot(v)) \/ (\E b \in backups : Restore(b))

(* Where every TPM operation can fail, what it has taken so far is given   *)
(* back, last first; and a PCR selection is decoded to what was encoded.   *)
ASSUME \A n \in 1..(Len(TpmSteps) + 1) :
  /\ Range(TpmFlushed(n)) = Range(TpmHeld(n))
  /\ \A i \in 1..Len(TpmHeld(n)) : TpmFlushed(n)[Len(TpmHeld(n)) + 1 - i] = TpmHeld(n)[i]
ASSUME \A sel \in SUBSET (0..9) : \A p \in 0..23 :
  (PcrBitmap(sel, 3)[(p \div 8) + 1] \div 2 ^ (p % 8)) % 2 = (IF p \in sel THEN 1 ELSE 0)

----------------------------------------------------------------------------
(* The Nix cache. *)

Command(op, names, all, yes, dry, paths) ==
  [op |-> op, names |-> names, all |-> all, yes |-> yes, dry |-> dry, paths |-> paths]
MCCommands ==
  {Command("sign", {}, TRUE, FALSE, FALSE, {}), Command("replace", {"k"}, FALSE, FALSE, FALSE, {1}),
   Command("replace", {"o"}, TRUE, TRUE, TRUE, {}),
   Command("remove", {"o"}, FALSE, FALSE, FALSE, {1})}
ForeignSig(name) == [name |-> name, pub |-> 3, over |-> 2]
CacheStep ==
  \/ \E b \in Batches : BatchStep(b)
  \/ \E content \in {0, 2}, sigs \in {<<>>, <<ForeignSig("k"), ForeignSig("o")>>} :
       Publish(1, content, sigs)

(* References written in any order and without a duplicate render to the   *)
(* canonical fingerprint the broker's parser demands, and others to none.  *)
ASSUME \A refs \in UNION {[1..n -> 1..3] : n \in 0..3} :
  FingerprintOk(refs, 3) <=> Canonical(Rendered(refs), 3)

----------------------------------------------------------------------------
(* The CI session: a refresh always starts before the identity expires. *)

ASSUME \A t \in 1..400, at \in 0..399 :
  at < t => RefreshAt(t, at) \in at..(t - 1)

----------------------------------------------------------------------------
(* An encrypted stream; a second one is there for the carrier to take from.*)

FileStep ==
  \/ \E suite \in {"aes", "kem768"} :
       Encrypt(2, suite, 1, 2, IF IsKem(suite) THEN "me" ELSE NoKey)
  \/ WriteChunk(2)
  \/ /\ writer[2].pc = "done"
     /\ \/ \E suite \in Suites, size \in ChunkSizes, n \in 0..MaxBytes :
             \E to \in (IF IsKem(suite) THEN Holders ELSE {NoKey}) : Encrypt(1, suite, size, n, to)
        \/ WriteChunk(1) \/ WriterStops(1) \/ Carrier(1)
        \/ \E holder \in Holders \cup {NoKey} : Decrypt(1, holder)
        \/ ReadChunk

----------------------------------------------------------------------------

MCInit ==
  /\ scene \in {"slots", "deposits", "cache", "signer", "session", "file"}
  /\ disk = (IF scene = "deposits" THEN Granted ELSE OneSlot)
  /\ seen \in (IF scene \in {"slots", "deposits"} THEN {None, 1} ELSE {1})
  /\ job = NoJob /\ broker = [s \in Brokers |-> Idle]
  /\ phrase = TRUE /\ pcrs = FirstBoot
  /\ count = 0 /\ recipients = {0} /\ backups = {} /\ restores = 0 /\ floor = 0
  /\ orphaned = FALSE /\ crowded = FALSE
  /\ NixInit /\ CiInit /\ StreamInit
  /\ scene # "cache" => \A f \in Files : files[f].ino = 1
  /\ scene # "session" => registered

MCNext ==
  /\ UNCHANGED scene
  /\ \/ /\ scene = "slots" /\ (SlotCommands \/ Proceed \/ Interrupt \/ Host)
        /\ UNCHANGED <<nixVars, ciVars, streamVars>>
     \/ /\ scene = "deposits" /\ (DepositCommands \/ Proceed \/ Interrupt)
        /\ UNCHANGED <<nixVars, ciVars, streamVars>>
     \/ scene = "cache" /\ (CacheStep \/ Enroll \/ Reidentify) /\ UNCHANGED <<bundleVars, ciVars, streamVars>>
     \/ /\ scene = "signer" /\ ((\E c \in Clients : ClientStep(c)) \/ Enroll \/ Reidentify)
        /\ UNCHANGED <<bundleVars, ciVars, streamVars>>
     \/ scene = "session" /\ CiNext /\ UNCHANGED <<bundleVars, nixVars, streamVars>>
     \/ scene = "file" /\ FileStep /\ UNCHANGED <<bundleVars, nixVars, ciVars>>

MCSpec == MCInit /\ [][MCNext]_<<bundleVars, nixVars, ciVars, streamVars, scene>>

=============================================================================

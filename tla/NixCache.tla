------------------------------ MODULE NixCache ------------------------------
(***************************************************************************)
(* Signing a local Nix binary cache.                                       *)
(*                                                                         *)
(* The batch commands (`basil nix cache sign | replace | remove`) edit the *)
(* signature lines of narinfo records under an advisory lock which the     *)
(* programs that publish records do not take.  A record is read, edited in *)
(* memory, compared with the disk, written to a temporary file, compared   *)
(* again, and renamed into place.  Every batch leaves one audit record of  *)
(* its end.  The signer (`basil nix signer serve`) answers another program *)
(* over a socket, under the identity it has described first.               *)
(*                                                                         *)
(* Abstracted: a record is its path information (a number; 0 for a record  *)
(* whose fields give no fingerprint) and its signature lines in order; a   *)
(* signature is the key that made it and the path information it covers.   *)
(***************************************************************************)
EXTENDS Naturals, Sequences, FiniteSets, SequencesExt, Positions

CONSTANTS
  Batches,        \* processes that run a batch command
  Files,          \* numbers of the narinfo records: the order of their names
  Clients,        \* connections to the signer
  Commands,       \* the commands an operator may type
  KeyNames,       \* names of signing keys, "k" the broker's
  NoSnap,         \* no snapshot, no signature
  MaxPublished,   \* publications by other programs
  MaxSigs,        \* signature lines that fit MAX_NARINFO_BYTES
  MaxConnections, MaxSigns

(* A key name and a public key; a signature by it over path information.   *)
Identities == [name : KeyNames, pub : Nat]
Signatures == [name : KeyNames, pub : Nat, over : Nat]

(* The arguments of a command: paths in the cache, of records that may be  *)
(* missing, or all of them, and the names of old keys unless it is a sign. *)
CommandOK(c) ==
  /\ c.op \in {"sign", "replace", "remove"} /\ {c.all, c.dry, c.yes} \subseteq BOOLEAN
  /\ c.paths \subseteq Files /\ (c.all <=> c.paths = {})
  /\ (c.op = "sign") <=> (c.names = {})

ASSUME NixAssumption ==
  /\ Files \subseteq Nat /\ IsFiniteSet(Files)
  /\ {MaxPublished, MaxSigs, MaxConnections, MaxSigns} \subseteq Nat
  /\ "k" \in KeyNames /\ NoSnap \notin Identities
  /\ \A c \in Commands : CommandOK(c)

VARIABLES
  files,     \* the records on disk, each with the identity of its inode
  lock,      \* who holds the cache lock: a set of at most one batch
  temps,     \* batches whose temporary file is in the cache
  batch,     \* the state of each batch process
  ident,     \* the broker's Nix identity: state, key name, public key
  inodes,    \* inodes made so far
  published, \* publications so far
  kept,      \* signatures committed durably, until a command or program removes them
  pin,       \* the identity the signer has described
  client,    \* the state of each connection to the signer
  answered   \* what the signer has answered with status Ok

nixVars == <<files, lock, temps, batch, ident, inodes, published, kept, pin, client, answered>>
cacheVars == <<files, lock, temps, batch, inodes, published, kept>>
signerVars == <<pin, client, answered>>

----------------------------------------------------------------------------
(* Records and signatures. *)

Sig(id, content) == [name |-> id.name, pub |-> id.pub, over |-> content]

(* A file's identity and bytes, as a snapshot couples them; ino 0 is no    *)
(* file.                                                                   *)
RecordOK(r) ==
  /\ DOMAIN r = {"content", "sigs", "ino"} /\ r.content \in Nat /\ r.ino \in 0..inodes
  /\ Len(r.sigs) <= MaxSigs

(* verify_raw_signature *)
VerifiesFor(sig, id, content) == sig = Sig(id, content)

(* Only these fields make a PATH_INFO_V1 fingerprint: one of each, and the *)
(* record's own store path.                                                *)
HasFingerprint(content) == content # 0

(* inspect_existing_signature *)
Inspect(sigs, id, content) ==
  LET own == {s \in Range(sigs) : s.name = id.name}
  IN IF \E s \in own : ~VerifiesFor(s, id, content) THEN "conflict"
     ELSE IF own # {} THEN "verified" ELSE "absent"

(* filter_signatures: the lines of other keys, in their order. *)
FilterSignatures(sigs, names) == AtPositions(sigs, {i \in DOMAIN sigs : sigs[i].name \notin names})

(* add_signature: the new line goes after the last signature line. *)
AddSignature(sigs, sig) ==
  IF \E s \in Range(sigs) : s.name = sig.name /\ s # sig THEN [ok |-> FALSE, sigs |-> sigs]
  ELSE IF sig \in Range(sigs) THEN [ok |-> TRUE, sigs |-> sigs]
  ELSE [ok |-> Len(sigs) < MaxSigs, sigs |-> Append(sigs, sig)]

(* edit_narinfo *)
EditNarinfo(op, sigs, names, sig) ==
  IF op = "remove" THEN [ok |-> TRUE, sigs |-> FilterSignatures(sigs, names)]
  ELSE AddSignature(IF op = "replace" THEN FilterSignatures(sigs, names) ELSE sigs, sig)

(* References of a record, as written, in the fingerprint: sorted, and no  *)
(* two alike (collect_references, then the parser's strict order).         *)
Rendered(refs) == SortSeq(refs, LAMBDA a, b : a < b)
Canonical(refs, limit) ==
  /\ Len(refs) <= limit
  /\ \A i \in 1..(Len(refs) - 1) : refs[i] < refs[i + 1]
FingerprintOk(refs, limit) ==
  /\ Len(refs) <= limit
  /\ \A i \in 1..(Len(refs) - 1) : Rendered(refs)[i] # Rendered(refs)[i + 1]

----------------------------------------------------------------------------
(* The broker's handlers, for a caller the policy allows. *)

DescribeReply == IF ident.state = "enrolled" THEN "ok" ELSE "pending"
SignReply(content) ==
  IF ident.state # "enrolled" THEN "refused"
  ELSE IF HasFingerprint(content) THEN "ok" ELSE "refused"

(* A second enrollment finds the first and changes nothing. *)
Disposition == IF ident.state = "pending" THEN "created" ELSE "existing"
(* `basil nix key generate-cache-key` *)
Enroll ==
  /\ Disposition = "created"
  /\ ident' = [ident EXCEPT !.state = "enrolled"]
  /\ UNCHANGED <<cacheVars, signerVars>>

(* A reload serves a catalog with another identity under the same key id. *)
Reidentify ==
  /\ ident.state = "enrolled" /\ ident.pub = 1
  /\ ident' = [ident EXCEPT !.pub = 2]
  /\ UNCHANGED <<cacheVars, signerVars>>

----------------------------------------------------------------------------
(* A batch. *)

NoCounts == [selected |-> 0, durable |-> 0, unchanged |-> 0, preview |-> 0,
             produced |-> 0, reused |-> 0, installed |-> 0]
IdleBatch == [pc |-> "idle", cmd |-> NoSnap, id |-> NoSnap, todo |-> {}, snap |-> NoSnap,
              sig |-> NoSnap, edit |-> <<>>, counts |-> NoCounts,
              end |-> "none", synced |-> 0, renames |-> 0, late |-> FALSE]

At(b, pc) == batch[b].pc = pc
Cmd(b) == batch[b].cmd
Target(b) == CHOOSE f \in batch[b].todo : \A g \in batch[b].todo : f <= g
Goto(b, pc) == batch' = [batch EXCEPT ![b].pc = pc]
Count(counts, field) == [counts EXCEPT ![field] = @ + 1]

(* The one terminal audit record; the lock goes with the process's root. *)
BatchEnds(b, how, counts, locked) ==
  /\ batch' = [batch EXCEPT ![b].pc = "ended", ![b].end = how, ![b].counts = counts]
  /\ lock' = lock \ locked
EndsAs(b, how) == BatchEnds(b, how, batch[b].counts, {b})

(* validate_local_command, require_destructive_confirmation, batch_start *)
Confirmed(c) == c.op \in {"replace", "remove"} /\ c.all /\ ~c.dry => c.yes
Begin(b, c) ==
  /\ At(b, "idle") /\ Confirmed(c)
  /\ batch' = [batch EXCEPT ![b].cmd = c,
                 ![b].pc = IF c.op # "remove" THEN "connect"
                           ELSE IF c.dry THEN "select" ELSE "lock"]
  /\ UNCHANGED <<files, lock, temps, inodes, published, kept, ident, signerVars>>

(* The places where a signal is looked at (cancellation_checkpoint, and    *)
(* the biased selects around the calls and the wait for the lock).         *)
Cancel(b) ==
  /\ batch[b].pc \in {"connect", "describe", "select", "lock", "target", "sign"}
  /\ EndsAs(b, "cancelled")
  /\ UNCHANGED <<files, temps, inodes, published, kept, ident, signerVars>>

Connect(b) ==
  /\ At(b, "connect")
  /\ \/ Goto(b, "describe") /\ UNCHANGED lock
     \/ EndsAs(b, "failed")
  /\ UNCHANGED <<files, temps, inodes, published, kept, ident, signerVars>>

Describe(b) ==
  /\ At(b, "describe")
  /\ \/ /\ DescribeReply = "ok"
        /\ batch' = [batch EXCEPT ![b].id = [name |-> ident.name, pub |-> ident.pub],
                       ![b].pc = IF Cmd(b).dry THEN "select" ELSE "lock"]
        /\ UNCHANGED lock
     \/ EndsAs(b, "failed")
  /\ UNCHANGED <<files, temps, inodes, published, kept, ident, signerVars>>

(* LockedCacheRoot::try_acquire, polled until the deadline. *)
CacheLockFree_Always == TRUE
CacheLockFree == lock = {}
TryLock(b) ==
  /\ At(b, "lock") /\ CacheLockFree
  /\ lock' = lock \cup {b} /\ Goto(b, "select")
  /\ UNCHANGED <<files, temps, inodes, published, kept, ident, signerVars>>
LockTimeout(b) ==
  /\ At(b, "lock") /\ ~CacheLockFree
  /\ EndsAs(b, "failed")
  /\ UNCHANGED <<files, temps, inodes, published, kept, ident, signerVars>>

(* The root, its lock file or either's owner, mode or link is not what a   *)
(* mutation may use.                                                       *)
RootRefused(b) ==
  /\ At(b, "lock")
  /\ EndsAs(b, "failed")
  /\ UNCHANGED <<files, temps, inodes, published, kept, ident, signerVars>>

(* select_explicit | select_locked | open_preview: all the records of the  *)
(* root, under the lock unless it is a dry run.  The listing fails when    *)
(* there is none or too many, or the name of one is not a record's.        *)
Existing == {f \in Files : files[f].ino # 0}
Select(b) ==
  /\ At(b, "select")
  /\ \/ Cmd(b).all /\ EndsAs(b, "failed")
     \/ \E todo \in {IF Cmd(b).all THEN Existing ELSE Cmd(b).paths} :
          /\ todo # {}
          /\ batch' = [batch EXCEPT ![b].todo = todo, ![b].pc = "target",
                         ![b].counts.selected = Cardinality(todo)]
          /\ UNCHANGED lock
  /\ UNCHANGED <<files, temps, inodes, published, kept, ident, signerVars>>

(* What a command does with one record it has read: mutate_signing_target, *)
(* the loop of run_remove_batch_cancelable, and preview_target.  A removal *)
(* needs no fingerprint.                                                   *)
Plan(b, file) ==
  LET found == Inspect(file.sigs, batch[b].id, file.content)
  IN IF file.ino = 0 THEN "error"
     ELSE IF Cmd(b).op = "remove" THEN "edit"
     ELSE IF ~HasFingerprint(file.content) THEN "error"
     ELSE IF Cmd(b).op = "sign"
          THEN IF found = "verified" THEN "unchanged"
               ELSE IF found = "conflict" THEN "error" ELSE "sign"
     ELSE IF found = "conflict" /\ batch[b].id.name \notin Cmd(b).names THEN "error"
     ELSE IF found = "verified" THEN "reuse" ELSE "sign"

(* The next record is done with: what is counted, and nothing remembered. *)
NextTarget(r) ==
  [r EXCEPT !.todo = @ \ {CHOOSE f \in @ : \A g \in @ : f <= g}, !.snap = NoSnap,
            !.sig = NoSnap, !.edit = <<>>, !.late = FALSE, !.pc = "target"]
Done(b, counts) ==
  batch' = [batch EXCEPT ![b] = NextTarget([batch[b] EXCEPT !.counts = counts])]

(* A dry run: read without the lock, nothing signed, nothing written. *)
WouldChange(b, file) ==
  \/ Plan(b, file) = "sign"
  \/ /\ Plan(b, file) \in {"edit", "reuse"}
     /\ EditNarinfo(Cmd(b).op, file.sigs, Cmd(b).names, Sig(batch[b].id, file.content)).sigs
          # file.sigs
Preview(b) ==
  /\ At(b, "target") /\ batch[b].todo # {} /\ Cmd(b).dry
  /\ \E file \in {files[Target(b)]} :
       \/ EndsAs(b, "failed")
       \/ /\ Plan(b, file) # "error"
          /\ Done(b, Count(batch[b].counts,
                         IF WouldChange(b, file) THEN "preview" ELSE "unchanged"))
          /\ UNCHANGED lock
  /\ UNCHANGED <<files, temps, inodes, published, kept, ident, signerVars>>

(* The snapshot of the next record, and what it calls for; any record may  *)
(* turn out unreadable or malformed.                                       *)
ReadRecord(b) ==
  /\ At(b, "target") /\ batch[b].todo # {} /\ ~Cmd(b).dry
  /\ \E file \in {files[Target(b)]} : \E plan \in {Plan(b, file)} :
       \/ EndsAs(b, "failed")
       \/ /\ plan = "unchanged"
          /\ Done(b, Count(Count(batch[b].counts, "reused"), "unchanged"))
          /\ UNCHANGED lock
       \/ /\ plan \in {"sign", "reuse", "edit"}
          /\ batch' = [batch EXCEPT ![b].snap = file,
               ![b].sig = IF plan = "reuse" THEN Sig(batch[b].id, file.content) ELSE NoSnap,
               ![b].counts = IF plan = "reuse" THEN Count(@, "reused") ELSE @,
               ![b].pc = IF plan = "sign" THEN "sign" ELSE "edit"]
          /\ UNCHANGED lock
  /\ UNCHANGED <<files, temps, inodes, published, kept, ident, signerVars>>

(* sign_and_verify: the broker signs with the identity it serves now. *)
SameIdentity(b) == batch[b].id = [name |-> ident.name, pub |-> ident.pub]
SignRecord(b) ==
  /\ At(b, "sign")
  /\ \/ /\ SignReply(batch[b].snap.content) = "ok" /\ SameIdentity(b)
        /\ batch' = [batch EXCEPT ![b].sig = Sig(ident, batch[b].snap.content),
             ![b].counts = Count(@, "produced"), ![b].pc = "edit"]
        /\ UNCHANGED lock
     \/ EndsAs(b, "failed")
  /\ UNCHANGED <<files, temps, inodes, published, kept, ident, signerVars>>

(* A temporary file of an unused name; after a failure it is removed,      *)
(* unless that fails too.                                                  *)
NewTemporary(b) == temps' = temps \cup {b}
CleanupTemporary(b) == temps' \in {temps, temps \ {b}}

(* The edit, and the first half of commit_narinfo_inner: the record must   *)
(* still be the one that was read before a temporary file is made.         *)
Edit(b) ==
  /\ At(b, "edit")
  /\ \E e \in {EditNarinfo(Cmd(b).op, batch[b].snap.sigs, Cmd(b).names, batch[b].sig)} :
       IF ~e.ok \/ (e.sigs # batch[b].snap.sigs /\ files[Target(b)] # batch[b].snap)
       THEN EndsAs(b, "failed") /\ UNCHANGED temps
       ELSE IF e.sigs = batch[b].snap.sigs
       THEN Done(b, Count(batch[b].counts, "unchanged")) /\ UNCHANGED <<lock, temps>>
       ELSE /\ batch' = [batch EXCEPT ![b].edit = e.sigs, ![b].pc = "compare"]
            /\ NewTemporary(b) /\ UNCHANGED lock
  /\ UNCHANGED <<files, inodes, published, kept, ident, signerVars>>

(* write_and_commit up to the rename: the temporary file is written and    *)
(* synced, and the record compared with its snapshot once more.            *)
StillThere(b) == files[Target(b)] = batch[b].snap
Compare(b) ==
  /\ At(b, "compare")
  /\ \/ StillThere(b) /\ Goto(b, "rename") /\ UNCHANGED <<lock, temps>>
     \/ EndsAs(b, "failed") /\ CleanupTemporary(b)
  /\ UNCHANGED <<files, inodes, published, kept, ident, signerVars>>

(* renameat: the whole record is replaced by the edited snapshot. *)
Rename(b) ==
  /\ At(b, "rename")
  /\ \/ /\ files' = [files EXCEPT ![Target(b)] =
              [content |-> batch[b].snap.content, sigs |-> batch[b].edit, ino |-> inodes + 1]]
        /\ inodes' = inodes + 1 /\ temps' = temps \ {b}
        /\ batch' = [batch EXCEPT ![b].pc = "sync", ![b].renames = @ + 1]
        /\ kept' = {k \in kept : ~(k.file = Target(b) /\ k.sig.name \in Cmd(b).names)}
                     \cup (IF Cmd(b).op = "remove" THEN {}
                           ELSE {[file |-> Target(b), sig |-> batch[b].sig]})
        /\ UNCHANGED lock
     \/ EndsAs(b, "failed") /\ CleanupTemporary(b) /\ UNCHANGED <<files, inodes, kept>>
  /\ UNCHANGED <<published, ident, signerVars>>

(* The directory is synced, the outcome counted (audit_signing_outcome)    *)
(* and the line printed (render_commit).                                   *)
CountedDurable(synced) == synced
Committed(b, synced) ==
  IF ~CountedDurable(synced) THEN batch[b].counts
  ELSE IF Cmd(b).op = "remove" THEN Count(batch[b].counts, "durable")
  ELSE Count(Count(batch[b].counts, "durable"), "installed")
SyncDir(b) ==
  /\ At(b, "sync")
  /\ \E synced, printed \in BOOLEAN :
       \E done \in {[batch[b] EXCEPT !.synced = @ + (IF synced THEN 1 ELSE 0),
                                    !.counts = Committed(b, synced)]} :
         IF synced /\ printed
         THEN batch' = [batch EXCEPT ![b] = NextTarget(done)] /\ UNCHANGED lock
         ELSE /\ batch' = [batch EXCEPT ![b] = [done EXCEPT !.pc = "ended", !.end = "failed"]]
              /\ lock' = lock \ {b}
  /\ UNCHANGED <<files, temps, inodes, published, kept, ident, signerVars>>

Finish(b) ==
  /\ At(b, "target") /\ batch[b].todo = {}
  /\ EndsAs(b, "completed")
  /\ UNCHANGED <<files, temps, inodes, published, kept, ident, signerVars>>

(* The process is killed: the kernel drops its lock; what it has on disk   *)
(* stays, and no terminal record is written.                               *)
Kill(b) ==
  /\ batch[b].pc \notin {"idle", "ended", "killed"}
  /\ batch' = [batch EXCEPT ![b].pc = "killed"] /\ lock' = lock \ {b}
  /\ UNCHANGED <<files, temps, inodes, published, kept, ident, signerVars>>

(* External: a program that does not take the lock puts a record in place, *)
(* with or without a signature of its own under the same key name.         *)
Publish(f, content, sigs) ==
  /\ published < MaxPublished
  /\ published' = published + 1 /\ inodes' = inodes + 1
  /\ files' = [files EXCEPT ![f] = [content |-> content, sigs |-> sigs, ino |-> inodes + 1]]
  /\ kept' = {k \in kept : k.file # f}
  /\ batch' = [b \in Batches |->
       IF At(b, "rename") /\ Target(b) = f THEN [batch[b] EXCEPT !.late = TRUE] ELSE batch[b]]
  /\ UNCHANGED <<lock, temps, ident, signerVars>>

----------------------------------------------------------------------------
(* The signer. *)

IdleClient == [pc |-> "idle", kind |-> "none", names |-> NoSnap, got |-> NoSnap]
On(c, pc) == client[c].pc = pc
Busy == {c \in Clients : client[c].pc \in {"read", "describe", "pinning", "check", "sign"}}
Signing == {c \in Clients : On(c, "sign")}
SlotFree == Cardinality(Busy) < MaxConnections
Closes(c) == client' = [client EXCEPT ![c] = [IdleClient EXCEPT !.pc = "closed"]]

(* serve_until_with_deadline: a connection takes a slot, or the one slot   *)
(* for refusals, or is dropped.                                            *)
AcceptClient(c) ==
  /\ On(c, "idle")
  /\ \/ SlotFree /\ client' = [client EXCEPT ![c].pc = "read"]
     \/ ~SlotFree /\ Closes(c)
  /\ UNCHANGED <<pin, answered, ident, cacheVars>>

(* parse_sign_body: a well-formed request names a key, which need not be   *)
(* the one the signer serves.                                              *)
SignRequests == {[name |-> ident.name, pub |-> pub] : pub \in {1, 2}}
(* encode_describe_body, encode_sign_body: a reply names the key. *)
Answer(kind, key) == [kind |-> kind, key |-> key]

(* read_request: a describe, a sign that names the key it wants, or bytes  *)
(* that are answered Malformed or not at all; also a peer of another user. *)
ReadRequest(c) ==
  /\ On(c, "read")
  /\ \/ client' = [client EXCEPT ![c].pc = "describe", ![c].kind = "describe"]
     \/ \E wanted \in SignRequests :
          client' = [client EXCEPT ![c].pc = "check", ![c].kind = "sign", ![c].names = wanted]
     \/ Closes(c)
  /\ UNCHANGED <<pin, answered, ident, cacheVars>>

DescribeCall(c) ==
  /\ On(c, "describe")
  /\ \/ /\ DescribeReply = "ok"
        /\ client' = [client EXCEPT ![c].pc = "pinning",
                        ![c].got = [name |-> ident.name, pub |-> ident.pub]]
     \/ Closes(c)
  /\ UNCHANGED <<pin, answered, ident, cacheVars>>

(* describe, under the write lock: the first identity stays. *)
Pinned_Latest(got) == got
Pinned(got) == IF pin = NoSnap THEN got ELSE pin
PinIdentity(c) ==
  /\ On(c, "pinning")
  /\ pin' = Pinned(client[c].got)
  /\ answered' = IF Pinned(client[c].got) # client[c].got THEN answered
                 ELSE answered \cup {Answer("describe", client[c].got)}
  /\ Closes(c)
  /\ UNCHANGED <<ident, cacheVars>>

(* sign, before the call: the pinned identity, and a slot. *)
SignCheck(c) ==
  /\ On(c, "check")
  /\ IF pin # NoSnap /\ client[c].names = pin /\ Cardinality(Signing) < MaxSigns
     THEN client' = [client EXCEPT ![c].pc = "sign", ![c].got = pin]
     ELSE Closes(c)
  /\ UNCHANGED <<pin, answered, ident, cacheVars>>

(* sign, after it: the broker must have signed with that identity. *)
SignCall(c) ==
  /\ On(c, "sign")
  /\ answered' = IF SignReply(1) = "ok" /\ client[c].got = [name |-> ident.name, pub |-> ident.pub]
                 THEN answered \cup {Answer("sign", client[c].got)} ELSE answered
  /\ Closes(c)
  /\ UNCHANGED <<pin, ident, cacheVars>>

(* The five seconds of a connection are over, or the signer shuts down. *)
Deadline(c) ==
  /\ c \in Busy /\ Closes(c)
  /\ UNCHANGED <<pin, answered, ident, cacheVars>>

----------------------------------------------------------------------------

(* NixProvider::new: every slot free and no identity described. *)
NewProvider == pin = NoSnap /\ client = [c \in Clients |-> IdleClient] /\ answered = {}
NixInit ==
  /\ files \in {[f \in Files |-> [content |-> n, sigs |-> <<>>, ino |-> n]] : n \in {0, 1}}
  /\ lock = {} /\ temps = {} /\ batch = [b \in Batches |-> IdleBatch]
  /\ ident = [state |-> "pending", name |-> "k", pub |-> 1]
  /\ inodes = 1 /\ published = 0 /\ kept = {}
  /\ NewProvider

BatchStep(b) ==
  \/ (\E c \in Commands : Begin(b, c)) \/ Cancel(b) \/ Connect(b) \/ Describe(b)
  \/ TryLock(b) \/ LockTimeout(b) \/ RootRefused(b) \/ Select(b) \/ Preview(b) \/ ReadRecord(b) \/ SignRecord(b)
  \/ Edit(b) \/ Compare(b) \/ Rename(b) \/ SyncDir(b) \/ Finish(b) \/ Kill(b)
ClientStep(c) ==
  \/ AcceptClient(c) \/ ReadRequest(c) \/ DescribeCall(c) \/ PinIdentity(c) \/ SignCheck(c)
  \/ SignCall(c) \/ Deadline(c)

(* Batches, signer and broker together, beside any publisher whose records *)
(* can be read.                                                            *)
NixNext ==
  \/ \E b \in Batches : BatchStep(b)
  \/ \E c \in Clients : ClientStep(c)
  \/ Enroll \/ Reidentify
  \/ \E f \in Files, content \in Nat, sigs \in Seq(Signatures) :
       Len(sigs) <= MaxSigs /\ Publish(f, content, sigs)
NixSpec == NixInit /\ [][NixNext]_nixVars

----------------------------------------------------------------------------
(* Properties. *)

(* A signature that a batch has renamed into place stays in its record,    *)
(* and verifies for the path information the record has, until a command   *)
(* that names its key or another program replaces the record: neither a    *)
(* second batch nor a new identity of the broker undoes it.                *)
SignaturesKept ==
  \A k \in kept : /\ k.sig \in Range(files[k.file].sigs)
                  /\ k.sig.over = files[k.file].content

(* A batch that is about to rename has compared its record with the disk:  *)
(* what another program published before the last comparison is never      *)
(* overwritten (the code documents the window after it).                   *)
PublicationKept ==
  \A b \in Batches : At(b, "rename") /\ ~batch[b].late => files[Target(b)] = batch[b].snap

(* The audit record that ends a batch counts what the batch did: durable   *)
(* commits are the renames that were synced, and a batch that completes    *)
(* has accounted for every record it selected and left nothing uncertain.  *)
BatchAuditExact ==
  \A b \in Batches : batch[b].end # "none" =>
    \E n \in {batch[b].counts} :
      /\ n.durable = batch[b].synced
      /\ n.installed <= n.produced + n.reused
      /\ batch[b].end = "completed" =>
           /\ n.selected = n.durable + n.unchanged + n.preview
           /\ batch[b].renames = n.durable
      /\ Cmd(b).dry => batch[b].renames = 0

(* Batches that overlap each other and other publishers lose nothing, and  *)
(* their audit records say what they did.                                  *)
CacheKept ==
  (\A f \in Files : RecordOK(files[f])) /\ SignaturesKept /\ PublicationKept /\ BatchAuditExact

(* The signer answers under one identity for as long as it runs, whatever  *)
(* identity the broker serves by then.                                     *)
OneIdentity == \A a, d \in answered : a.key = d.key

=============================================================================

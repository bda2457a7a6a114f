----------------------------- MODULE Streaming -----------------------------
(***************************************************************************)
(* The client's encrypted streams: a header, for ML-KEM suites the wrapped *)
(* content key, and records of one chunk each.  A writer reads one chunk   *)
(* ahead to know its last; a reader reads one record ahead to know its     *)
(* last.  Between them a carrier drops, repeats, exchanges, splices and    *)
(* cuts what is stored, and either end may stop at any point.              *)
(*                                                                         *)
(* Encryption is modelled by what it binds: a record opens only under the  *)
(* key, nonce and associated data it was sealed with.                      *)
(***************************************************************************)
EXTENDS Naturals, Sequences, FiniteSets, SequencesExt

CONSTANTS
  Streams,       \* numbers of the streams written
  Suites,        \* suite names, those of KemLength among them
  Holders,       \* holders of an ML-KEM seed
  MaxBytes,      \* the longest plaintext
  ChunkSizes,    \* the chunk sizes a caller may ask for
  MaxChunk,      \* MAX_CHUNK_SIZE
  NoKey,
  MaxAltered     \* alterations by the carrier

(* Encapsulated keys have the length of their suite. *)
KemLength == [kem512 |-> 768, kem768 |-> 1088, kem1024 |-> 1568]
(* The symmetric suites, each its own chunk cipher. *)
AeadSuites == {"aes", "chacha"}

ASSUME StreamingAssumption ==
  /\ ChunkSizes \subseteq Nat /\ MaxChunk \in Nat \ {0} /\ Streams \subseteq Nat
  /\ Suites \subseteq AeadSuites \cup DOMAIN KemLength

VARIABLES
  stored,    \* per stream: its header, envelope and records, and a cut tail
  writer,    \* per stream
  reader,
  altered    \* alterations so far

streamVars == <<stored, writer, reader, altered>>

----------------------------------------------------------------------------
(* The format. *)

IsKem(suite) == suite \in DOMAIN KemLength
(* chunk_aead_for_suite *)
ChunkAead(suite) == IF suite \in AeadSuites THEN suite ELSE "aes"
(* validate_chunk_size *)
ValidChunkSize(size) == size \in 1..MaxChunk

StreamHeader(suite, size, s) == [suite |-> suite, size |-> size, id |-> s, salt |-> s]
ParseHeader(h) == h.suite \in Suites /\ ValidChunkSize(h.size)

ChunkAad_NotFinal(h, index, final, len) == <<h.suite, h.id, index, len, h.size>>
ChunkAad(h, index, final, len) == <<h.suite, h.id, index, final, len, h.size>>
CekWrapAad(h) == <<h.suite, h.id>>
MessageKey(h, cek) == <<h.salt, cek, h.suite, h.id>>
AeadSeal(h, cek, index, final, data) ==
  [alg |-> ChunkAead(h.suite), key |-> MessageKey(h, cek), nonce |-> index,
   aad |-> ChunkAad(h, index, final, Len(data)), data |-> data]
AeadOpen(h, cek, index, final, r) == r = AeadSeal(h, cek, index, final, r.data)

(* wrap_cek, and its recovery, by the broker or with a local seed: either  *)
(* is made for one suite and opens what was wrapped for its key.           *)
EnvelopeReadable(h, env) == env # NoKey /\ env.length = KemLength[h.suite]
WrapCek(h, to, cek) ==
  [to |-> to, kem |-> h.suite, length |-> KemLength[h.suite], aad |-> CekWrapAad(h), cek |-> cek]
Unwraps(h, env, holder) == env.to = holder /\ env.kem = h.suite /\ env.aad = CekWrapAad(h)
RecoverCek(h, env, holder) ==
  IF EnvelopeReadable(h, env) /\ Unwraps(h, env, holder) THEN env.cek ELSE NoKey

----------------------------------------------------------------------------
(* The writer. *)

Plaintext(s, n) == [i \in 1..n |-> <<s, i>>]
Chunk(bytes, size) == IF Len(bytes) <= size THEN bytes ELSE SubSeq(bytes, 1, size)
Rest(bytes, size) == SubSeq(bytes, size + 1, Len(bytes))
(* The caller's own key serves for several streams; a KEM stream has its own. *)
CekOf(suite, s) == IF IsKem(suite) THEN s ELSE 0

NoFile == [header |-> NoKey, env |-> NoKey, records |-> <<>>, cut |-> FALSE]
NoWriter == [pc |-> "idle", header |-> NoKey, plain |-> <<>>, left |-> <<>>, index |-> 0]
NoReader == [pc |-> "idle", of |-> 0, header |-> NoKey, cek |-> NoKey, at |-> 1, index |-> 0,
             out |-> <<>>, clean |-> FALSE]

(* encrypt_aead, encrypt_ml_kem, up to the header; validate_chunk_size. *)
Encrypt(s, suite, size, n, to) ==
  /\ writer[s].pc = "idle" /\ ValidChunkSize(size)
  /\ \E h \in {StreamHeader(suite, size, s)} :
       stored' = [stored EXCEPT ![s] = [NoFile EXCEPT !.header = h,
                    !.env = IF IsKem(suite) THEN WrapCek(h, to, s) ELSE NoKey]]
  /\ writer' = [writer EXCEPT ![s] = [pc |-> "writing", header |-> StreamHeader(suite, size, s),
                                      plain |-> Plaintext(s, n), left |-> Plaintext(s, n), index |-> 0]]
  /\ UNCHANGED <<reader, altered>>

(* write_chunks: a chunk is the last when none follows; an empty stream    *)
(* has one empty chunk.                                                    *)
FinalChunk(left, size) == Len(left) <= size
WriteChunk(s) ==
  /\ writer[s].pc = "writing"
  /\ \E w \in {writer[s]} : \E h \in {writer[s].header} :
       \E final \in {FinalChunk(w.left, h.size)} :
         /\ stored' = [stored EXCEPT ![s].records =
              Append(@, AeadSeal(h, CekOf(h.suite, s), w.index, final, Chunk(w.left, h.size)))]
         /\ writer' = [writer EXCEPT ![s].left = Rest(@, h.size), ![s].index = @ + 1,
                                     ![s].pc = IF final THEN "done" ELSE @]
  /\ UNCHANGED <<reader, altered>>

(* A read or a write fails, or the process ends: a record may be cut. *)
WriterStops(s) ==
  /\ writer[s].pc = "writing"
  /\ writer' = [writer EXCEPT ![s].pc = "stopped"]
  /\ stored' = [stored EXCEPT ![s].cut = TRUE] \/ UNCHANGED stored
  /\ UNCHANGED <<reader, altered>>

----------------------------------------------------------------------------
(* The reader. *)

Fails == reader' = [reader EXCEPT !.pc = "failed"]
(* decrypt_aead with the caller's key, decrypt_ml_kem with a holder's. *)
Decrypt(s, holder) ==
  /\ reader.pc = "idle" /\ stored[s].header # NoKey
  /\ \E h \in {stored[s].header} :
       \E cek \in {IF IsKem(h.suite) THEN RecoverCek(h, stored[s].env, holder) ELSE 0} :
         IF ParseHeader(h) /\ (IsKem(h.suite) <=> holder # NoKey) /\ cek # NoKey
         THEN reader' = [NoReader EXCEPT !.pc = "reading", !.of = s, !.header = h, !.cek = cek,
                           !.clean = (altered = 0 /\ writer[s].pc = "done")]
         ELSE Fails
  /\ UNCHANGED <<stored, writer, altered>>

(* read_chunks, one turn: the record, and whether a length follows it.     *)
(* What follows may be a cut record, which is found out by the next turn,  *)
(* or a cut length, which fails this one.                                  *)
Opened(r, h, cek, index, final) ==
  /\ Len(r.data) <= h.size
  /\ AeadOpen(h, cek, index, final, r)
  /\ ~final => Len(r.data) = h.size
(* read_len_prefix, read_record *)
RecordThere(file) == reader.at <= Len(file.records)
LengthFollows(file) == reader.at < Len(file.records) \/ file.cut
ReadChunk ==
  /\ reader.pc = "reading"
  /\ \E file \in {stored[reader.of]} :
       IF ~RecordThere(file) THEN Fails
       ELSE \E more \in {LengthFollows(file)} :
         IF ~Opened(file.records[reader.at], reader.header, reader.cek, reader.index, ~more)
         THEN Fails
         ELSE \/ reader' = [reader EXCEPT !.out = @ \o file.records[reader.at].data,
                   !.at = @ + 1, !.index = @ + 1, !.pc = IF more THEN @ ELSE "ok"]
              \/ file.cut /\ reader.at = Len(file.records) /\ Fails
  /\ UNCHANGED <<stored, writer, altered>>

----------------------------------------------------------------------------
(* External: who stores and carries the streams. *)

Exchanged(q, i, j) == [q EXCEPT ![i] = q[j], ![j] = q[i]]
Alters(s, file) ==
  /\ altered < MaxAltered /\ altered' = altered + 1
  /\ stored[s].header # NoKey /\ file # stored[s]
  /\ stored' = [stored EXCEPT ![s] = file]
  /\ UNCHANGED <<writer, reader>>
Carrier(s) ==
  \E file \in {stored[s]} :
    \/ \E i \in DOMAIN file.records :
         \/ Alters(s, [file EXCEPT !.records = RemoveAt(@, i)])
         \/ Alters(s, [file EXCEPT !.records = InsertAt(@, i, file.records[i])])
         \/ \E j \in DOMAIN file.records : Alters(s, [file EXCEPT !.records = Exchanged(@, i, j)])
    \/ \E t \in Streams : \E i \in DOMAIN stored[t].records :
         Alters(s, [file EXCEPT !.records = Append(@, stored[t].records[i])])
    \/ \E t \in Streams : \E i \in DOMAIN stored[t].records : \E j \in DOMAIN file.records :
         Alters(s, [file EXCEPT !.records[j] = stored[t].records[i]])
    \/ \E t \in Streams : Alters(s, [file EXCEPT !.header = stored[t].header, !.env = stored[t].env])
    \/ \E suite \in Suites : file.header # NoKey /\ Alters(s, [file EXCEPT !.header.suite = suite])
    \/ \E size \in ChunkSizes : file.header # NoKey /\ Alters(s, [file EXCEPT !.header.size = size])
    \/ Alters(s, [file EXCEPT !.cut = ~@])

StreamInit ==
  /\ stored = [s \in Streams |-> NoFile] /\ writer = [s \in Streams |-> NoWriter]
  /\ reader = NoReader /\ altered = 0

(* Any streams, of any length, and one who reads. *)
StreamNext ==
  \/ \E s \in Streams :
       \/ \E suite \in Suites, size \in ChunkSizes, n \in Nat :
            \E to \in (IF IsKem(suite) THEN Holders ELSE {NoKey}) : Encrypt(s, suite, size, n, to)
       \/ WriteChunk(s) \/ WriterStops(s) \/ Carrier(s)
       \/ \E holder \in Holders \cup {NoKey} : Decrypt(s, holder)
  \/ ReadChunk
StreamSpec == StreamInit /\ [][StreamNext]_streamVars

----------------------------------------------------------------------------
(* A reader gives out a prefix of one plaintext that was written, in       *)
(* order, and reports success only when it is the whole of it: whatever    *)
(* the carrier removed, repeated, exchanged or took from another stream    *)
(* under the same key, and wherever the writer stopped.  A stream written  *)
(* to its end and left alone is read to its end (stream/mod.rs write_chunks*)
(* and read_chunks).                                                       *)
StreamWhole ==
  LET read == reader.out IN
  /\ read # <<>> =>
       \E s \in Streams : IsPrefix(read, writer[s].plain)
  /\ reader.pc = "ok" =>
       /\ reader.header.id \in Streams
       /\ writer[reader.header.id].pc = "done" /\ read = writer[reader.header.id].plain
  /\ reader.clean => (reader.pc = "failed" => altered > 0)

=============================================================================

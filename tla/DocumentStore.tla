---------------------------- MODULE DocumentStore ----------------------------
(***************************************************************************)
(* What ingestion reads and writes besides the job table: the document,    *)
(* chunk and embedding tables (store/documents.py, store/embeddings.py,    *)
(* with the keys and cascades of migrations/0001_init.sql) and the raw     *)
(* bytes of the uploads (store/files.py).                                  *)
(*                                                                         *)
(* Each operator is one statement or one short transaction of the code; a  *)
(* guard is the constraint that makes the statement raise when it is       *)
(* false.  A slot is an (address_id, upload_id) pair, a content stands for *)
(* the bytes of a file and for their sha256.                               *)
(***************************************************************************)
EXTENDS Integers, FiniteSets

CONSTANTS
    Docs,        \* the document_ids that may ever be created
    Slots,       \* the (address_id, upload_id) pairs
    Keys,        \* the storage keys
    KeyOf,       \* KeyOf[s]: the key _safe_segment makes of slot s
    Contents,    \* what the bytes of a file may be
    Uploads,     \* those that callers send; the others are damaged files
    Torn,        \* what a put leaves that has only opened the file
    NoContent,   \* no file
    LocalFiles,  \* TRUE: LocalFsStorage, FALSE: S3Storage
    Models,      \* the embedding models, one table each
    ChunkCount   \* ChunkCount[c]: how many chunks content c is split into

ASSUME StoreAssumption ==
    /\ Slots # {}
    /\ KeyOf \in [Slots -> Keys]
    /\ ChunkCount \in [Contents -> Nat]
    /\ Uploads \subseteq Contents
    /\ NoContent \notin Contents
    /\ LocalFiles \in BOOLEAN
    /\ LocalFiles => Torn \in Contents \ Uploads

VARIABLES
    documents,   \* the document rows, by document_id
    slot,        \* slot[d]: address_id and upload_id of d
    hash,        \* hash[d]: document.content_hash
    live,        \* live[d]: document.live_version
    chunks,      \* the chunk rows
    embedded,    \* embedded[m]: the chunk rows with a row in the table of m
    blob,        \* blob[k]: the bytes stored under key k
    active       \* rag_config: the active embedding model

storeVars == <<documents, slot, hash, live, chunks, embedded, blob, active>>

StoreInit ==
    /\ documents = {}
    /\ slot = [d \in Docs |-> CHOOSE s \in Slots : TRUE]
    /\ hash = [d \in Docs |-> NoContent]
    /\ live = [d \in Docs |-> 0]
    /\ chunks = {}
    /\ embedded = [m \in Models |-> {}]
    /\ blob = [k \in Keys |-> NoContent]
    /\ active \in Models

-----------------------------------------------------------------------------
(* Documents. *)

\* Mutant of DocumentsAt: the upload_id alone identifies a document.
DocumentsAtUpload(s) == {d \in documents : slot[d].upload = s.upload}

\* get_document_by_upload
DocumentsAt(s) == {d \in documents : slot[d] = s}

\* upsert_document, the INSERT branch: UNIQUE (address_id, upload_id).
InsertDocument(d, s, c) ==
    /\ DocumentsAt(s) = {}
    /\ documents' = documents \cup {d}
    /\ slot' = [slot EXCEPT ![d] = s]
    /\ hash' = [hash EXCEPT ![d] = c]
    /\ live' = [live EXCEPT ![d] = 0]
    /\ UNCHANGED <<chunks, embedded, blob, active>>

\* Mutant of UpdateDocument: content_hash is not in the SET list.
UpdateDocumentKeepsHash(d, c) ==
    UNCHANGED <<documents, slot, hash, live, chunks, embedded, blob, active>>

\* upsert_document, the UPDATE branch: a row deleted meanwhile is not updated.
UpdateDocument(d, c) ==
    /\ hash' = IF d \in documents THEN [hash EXCEPT ![d] = c] ELSE hash
    /\ UNCHANGED <<documents, slot, live, chunks, embedded, blob, active>>

\* Embedding rows go with their chunks, in the table of every model.
EmbeddingsCascade(gone) == embedded' = [m \in Models |-> embedded[m] \ gone]

\* delete_document: chunks and embeddings cascade.
DeleteDocument(d) ==
    /\ d \in documents
    /\ documents' = documents \ {d}
    /\ chunks' = {c \in chunks : c.doc # d}
    /\ EmbeddingsCascade({c \in chunks : c.doc = d})
    /\ UNCHANGED <<slot, hash, live, blob, active>>

-----------------------------------------------------------------------------
(* Chunks and embeddings. *)

VersionChunks(d, v) == {c \in chunks : c.doc = d /\ c.ver = v}

\* The rows insert_chunks makes of content c; by tells whose chunk_ids they are.
NewChunks(d, v, c, by) ==
    {[doc |-> d, ver |-> v, ord |-> i, content |-> c, by |-> by] : i \in 1..ChunkCount[c]}

\* Mutant of Clash: no unique key on chunk.
ClashNever(S, T) == FALSE

\* UNIQUE (document_id, doc_version, ordinal)
Clash(S, T) == \E c \in S, n \in T : c.doc = n.doc /\ c.ver = n.ver /\ c.ord = n.ord

\* Mutant of ReplaceVersion: no foreign key from chunk to document.
ReplaceVersionUnchecked(d, gone, new) ==
    /\ ~Clash(chunks \ gone, new)
    /\ chunks' = (chunks \ gone) \cup new
    /\ EmbeddingsCascade(gone)
    /\ UNCHANGED <<documents, slot, hash, live, blob, active>>

\* delete_version_chunks and insert_chunks in one transaction.  gone is what
\* the DELETE saw; rows committed since then are still there for the INSERT.
ReplaceVersion(d, gone, new) ==
    /\ new # {} => d \in documents
    /\ ~Clash(chunks \ gone, new)
    /\ chunks' = (chunks \ gone) \cup new
    /\ EmbeddingsCascade(gone)
    /\ UNCHANGED <<documents, slot, hash, live, blob, active>>

\* Mutant of EmbedChunks: no foreign key from an embedding to its chunk.
EmbedChunksUnchecked(m, B) ==
    /\ embedded' = [embedded EXCEPT ![m] = @ \cup B]
    /\ UNCHANGED <<documents, slot, hash, live, chunks, blob, active>>

\* insert_embeddings into the table of model m: the chunks must still exist.
\* What happens to rows that are there already makes no difference here.
EmbedChunks(m, B) ==
    /\ B \subseteq chunks
    /\ embedded' = [embedded EXCEPT ![m] = @ \cup B]
    /\ UNCHANGED <<documents, slot, hash, live, chunks, blob, active>>

\* The first n of a set of chunk rows ORDER BY ordinal.
FirstByOrdinal(S, n) == {c \in S : Cardinality({b \in S : b.ord < c.ord}) < n}

\* Mutant of FlipLive: embeddings do not cascade.
FlipLiveKeepsEmbeddings(d, v) ==
    /\ live' = IF d \in documents THEN [live EXCEPT ![d] = v] ELSE live
    /\ chunks' = {c \in chunks : c.doc = d => c.ver = v}
    /\ UNCHANGED <<documents, slot, hash, embedded, blob, active>>

\* set_live_version and delete_other_versions in one transaction.
FlipLive(d, v) ==
    LET superseded == {c \in chunks : c.doc = d /\ c.ver # v} IN
    /\ live' = IF d \in documents THEN [live EXCEPT ![d] = v] ELSE live
    /\ chunks' = chunks \ superseded
    /\ EmbeddingsCascade(superseded)
    /\ UNCHANGED <<documents, slot, hash, blob, active>>

-----------------------------------------------------------------------------
(* Raw bytes. *)

\* _safe_segment, of an id given by its characters; kept are the alphanumeric
\* ones and "-", "_", ".".
SafeSegment(id, kept) == [i \in DOMAIN id |-> IF id[i] \in kept THEN id[i] ELSE "_"]

\* S3Storage._key, and likewise the path of LocalFsStorage.put.
StorageKey(s, kept) == <<SafeSegment(s.address, kept), SafeSegment(s.upload, kept)>>

\* Mutant of PutBytes: the key forgets the slot.
PutBytesOneKey(s, c) ==
    /\ blob' = [blob EXCEPT ![KeyOf[CHOOSE x \in Slots : TRUE]] = c]
    /\ UNCHANGED <<documents, slot, hash, live, chunks, embedded, active>>

\* put_object replaces an object as a whole.
PutBytes(s, c) ==
    /\ blob' = [blob EXCEPT ![KeyOf[s]] = c]
    /\ UNCHANGED <<documents, slot, hash, live, chunks, embedded, active>>

\* write_bytes opens the file, which truncates it ...
TruncateBytes(s) ==
    /\ blob' = [blob EXCEPT ![KeyOf[s]] = Torn]
    /\ UNCHANGED <<documents, slot, hash, live, chunks, embedded, active>>

\* What a file holds after c is written to it from its beginning: of longer
\* bytes that another put has written meanwhile the end remains, and a file
\* unlinked meanwhile is gone.  (One that was also created anew meanwhile is
\* taken for the same file.)
AfterWrite(now, c) ==
    CASE now = NoContent -> {NoContent}
      [] now = Torn -> {c}
      [] OTHER -> {c} \cup (Contents \ Uploads)

\* ... and writes to it.
WriteBytes(s, c) ==
    /\ \E bytes \in AfterWrite(blob[KeyOf[s]], c) : blob' = [blob EXCEPT ![KeyOf[s]] = bytes]
    /\ UNCHANGED <<documents, slot, hash, live, chunks, embedded, active>>

DropBytes(s) ==
    /\ blob' = [blob EXCEPT ![KeyOf[s]] = NoContent]
    /\ UNCHANGED <<documents, slot, hash, live, chunks, embedded, active>>

-----------------------------------------------------------------------------
(* Configuration. *)

\* Mutant of SetActive: the tables of the other models are swept at once.
SetActiveSweeps(m) ==
    /\ active' = m
    /\ embedded' = [n \in Models |-> IF n = m THEN embedded[n] ELSE {}]
    /\ UNCHANGED <<documents, slot, hash, live, chunks, blob>>

\* set_config(ACTIVE_MODEL_KEY, m)
SetActive(m) ==
    /\ active' = m
    /\ UNCHANGED <<documents, slot, hash, live, chunks, embedded, blob>>

-----------------------------------------------------------------------------
(* What a reader sees: hybrid_search joins chunk rows and the embedding    *)
(* rows of one model and filters on doc_version = live_version.            *)

LiveChunks(d) == VersionChunks(d, live[d])

\* Every chunk of the version d serves can be found with model m, and they are
\* all the chunks of one content.
ServesWhole(d, m) ==
    /\ LiveChunks(d) \subseteq embedded[m]
    /\ \E c \in Contents : /\ \A k \in LiveChunks(d) : k.content = c
                           /\ Cardinality(LiveChunks(d)) = ChunkCount[c]

=============================================================================

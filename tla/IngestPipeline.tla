--------------------------- MODULE IngestPipeline ----------------------------
(***************************************************************************)
(* From an upload to searchable chunks: the upload and delete handlers     *)
(* (api/routes_ingest.py) and the body of an ingest job                    *)
(* (ingest/pipeline.py: run_ingest_job), running concurrently over the job *)
(* table (JobQueue) and the document tables and storage (DocumentStore).   *)
(*                                                                         *)
(* A task id stands for the request that may insert the job row and, when  *)
(* the request creates the document, for the document_id too.  An action   *)
(* is one transaction or one storage call; whatever happens between two of *)
(* them is another action of somebody else.                                *)
(***************************************************************************)
EXTENDS JobQueue, DocumentStore

CONSTANTS
    Overlap,      \* how uploads of one slot overlap: see MayStart
    ApiFaults,    \* TRUE: requests may die half way, storage deletes may fail
    EmbedBatch,   \* _EMBED_BATCH
    NoDoc         \* no document row

ASSUME PipelineAssumption ==
    /\ Docs = Tasks
    /\ Overlap \in {"none", "queued", "free"}
    /\ ApiFaults \in BOOLEAN
    /\ EmbedBatch \in Nat \ {0}
    /\ NoDoc \notin Docs

VARIABLES
    req,         \* req[t]: the upload request t, as far as it has come
    docOf,       \* docOf[t]: the document_id column of job t
    ver,         \* ver[t]: the doc_version column of job t
    model,       \* model[t]: the model_id column of job t
    body,        \* body[w][t]: the locals of run_ingest_job in that run
    chunkCount,  \* chunkCount[t]: the chunk_count column
    embedCount,  \* embedCount[t]: the embedding_count column
    dropping     \* deleted documents whose bytes are still to be deleted

columnVars   == <<docOf, ver, model>>
requestVars  == <<req, columnVars>>
counterVars  == <<chunkCount, embedCount>>
pipelineVars == <<queueVars, storeVars, requestVars, body, counterVars, dropping>>

Phases == {"none", "skipping", "storing", "writing", "stored", "upserting", "enqueueing", "over", "lost"}
Steps  == {"start", "loaded", "deleting", "chunked", "listed", "flipped"}

NoRequest == [phase |-> "none", content |-> NoContent, slot |-> NoDoc, found |-> NoDoc, live |-> 0]
NoBody    == [at |-> "start", content |-> NoContent, rows |-> {}]

PipelineInit ==
    /\ QueueInit
    /\ StoreInit
    /\ req = [t \in Tasks |-> NoRequest]
    /\ docOf = [t \in Tasks |-> NoDoc]
    /\ ver = [t \in Tasks |-> 0]
    /\ model = [t \in Tasks |-> active]
    /\ body = [w \in Workers |-> [t \in Tasks |-> NoBody]]
    /\ chunkCount = [t \in Tasks |-> 0]
    /\ embedCount = [t \in Tasks |-> 0]
    /\ dropping = {}

-----------------------------------------------------------------------------
(* ingest_document *)

JobsOf(d)  == {t \in Tasks : docOf[t] = d /\ state[t] \in Present}
InUpload(s) == {t \in Tasks : req[t].slot = s /\ req[t].phase \notin {"none", "over", "lost"}}

\* How the callers behave.  "free": as they like; "queued": one request at a
\* time per slot; "none": and only when all jobs of the slot have ended.
MayStart(s) ==
    \/ Overlap = "free"
    \/ /\ InUpload(s) = {}
       /\ \A d \in dropping : slot[d] # s
       /\ Overlap = "none" =>
             \A t \in Tasks : req[t].slot = s => state[t] \notin {"pending"} \cup InFlight

At(t, phase) == req[t].phase = phase
Goto(t, phase) == req' = [req EXCEPT ![t].phase = phase]

\* The first transaction: look the document up, compare content hashes, and
\* note the active model for the job.
UploadRead(t, s, c) ==
    /\ At(t, "none")
    /\ MayStart(s)
    /\ LET same == {d \in DocumentsAt(s) : hash[d] = c} IN
       \/ /\ same = {}
          /\ req' = [req EXCEPT ![t] = [phase |-> "storing", slot |-> s, content |-> c,
                                        found |-> NoDoc, live |-> 0]]
       \/ \E d \in same :
             req' = [req EXCEPT ![t] = [phase |-> "skipping", slot |-> s, content |-> c,
                                        found |-> d, live |-> live[d]]]
    /\ model' = [model EXCEPT ![t] = active]
    /\ UNCHANGED <<queueVars, storeVars, docOf, ver, body, counterVars, dropping>>

\* record_skipped; the foreign key makes it raise if the document is gone.
UploadSkip(t) ==
    /\ At(t, "skipping")
    /\ Goto(t, "over")
    /\ IF req[t].found \in documents
       THEN /\ RecordSkipped(t)
            /\ docOf' = [docOf EXCEPT ![t] = req[t].found]
            /\ ver' = [ver EXCEPT ![t] = req[t].live]
       ELSE UNCHANGED <<queueVars, docOf, ver>>
    /\ UNCHANGED <<storeVars, model, body, counterVars, dropping>>

\* storage.put, in S3 ...
UploadPut(t) ==
    /\ ~LocalFiles
    /\ At(t, "storing")
    /\ PutBytes(req[t].slot, req[t].content)
    /\ Goto(t, "stored")
    /\ UNCHANGED <<queueVars, columnVars, body, counterVars, dropping>>

\* ... and on the local file system.
UploadTruncate(t) ==
    /\ LocalFiles
    /\ At(t, "storing")
    /\ TruncateBytes(req[t].slot)
    /\ Goto(t, "writing")
    /\ UNCHANGED <<queueVars, columnVars, body, counterVars, dropping>>

UploadWrite(t) ==
    /\ At(t, "writing")
    /\ WriteBytes(req[t].slot, req[t].content)
    /\ Goto(t, "stored")
    /\ UNCHANGED <<queueVars, columnVars, body, counterVars, dropping>>

\* Mutant of UploadLookup: the row is written before the bytes.
UploadLookupEarly(t) ==
    /\ At(t, "storing") \/ At(t, "writing") \/ At(t, "stored")
    /\ \/ /\ DocumentsAt(req[t].slot) = {}
          /\ req' = [req EXCEPT ![t].phase = "upserting", ![t].found = NoDoc, ![t].live = 0]
       \/ \E d \in DocumentsAt(req[t].slot) :
             req' = [req EXCEPT ![t].phase = "upserting", ![t].found = d, ![t].live = live[d]]
    /\ UNCHANGED <<queueVars, storeVars, columnVars, body, counterVars, dropping>>

\* upsert_document looks again ...
UploadLookup(t) ==
    /\ At(t, "stored")
    /\ \/ /\ DocumentsAt(req[t].slot) = {}
          /\ req' = [req EXCEPT ![t].phase = "upserting", ![t].found = NoDoc, ![t].live = 0]
       \/ \E d \in DocumentsAt(req[t].slot) :
             req' = [req EXCEPT ![t].phase = "upserting", ![t].found = d, ![t].live = live[d]]
    /\ UNCHANGED <<queueVars, storeVars, columnVars, body, counterVars, dropping>>

\* Mutant of NextVersion: the live version is written in place.
NextVersionInPlace(n) == IF n = 0 THEN 1 ELSE n

NextVersion(n) == n + 1

\* ... and inserts or updates the row.
UploadUpsert(t) ==
    /\ At(t, "upserting")
    /\ IF req[t].found = NoDoc
       THEN InsertDocument(t, req[t].slot, req[t].content)
       ELSE UpdateDocument(req[t].found, req[t].content)
    /\ docOf' = [docOf EXCEPT ![t] = IF req[t].found = NoDoc THEN t ELSE req[t].found]
    /\ ver' = [ver EXCEPT ![t] = NextVersion(req[t].live)]
    /\ Goto(t, "enqueueing")
    /\ UNCHANGED <<queueVars, model, body, counterVars, dropping>>

UploadEnqueue(t) ==
    /\ At(t, "enqueueing")
    /\ docOf[t] \in documents
    /\ Enqueue(t, "ingest")
    /\ Goto(t, "over")
    /\ UNCHANGED <<storeVars, columnVars, body, counterVars, dropping>>

\* A statement that violates a constraint: the request ends in a 500.
UploadRaises(t) ==
    /\ \/ At(t, "upserting") /\ req[t].found = NoDoc /\ DocumentsAt(req[t].slot) # {}
       \/ At(t, "enqueueing") /\ docOf[t] \notin documents
    /\ Goto(t, "over")
    /\ UNCHANGED <<queueVars, storeVars, columnVars, body, counterVars, dropping>>

\* Storage or the database is unavailable, or the API process dies; in the
\* middle of a local put it leaves the file as it is then.
UploadFault(t) ==
    /\ ApiFaults
    /\ t \in InUpload(req[t].slot)
    /\ Goto(t, "lost")
    /\ UNCHANGED <<queueVars, storeVars, columnVars, body, counterVars, dropping>>

-----------------------------------------------------------------------------
(* remove_document *)

Remove(d) ==
    /\ Overlap # "free" => InUpload(slot[d]) = {}
    /\ DeleteDocument(d)
    /\ RemoveJobs(JobsOf(d))
    /\ dropping' = dropping \cup {d}
    /\ UNCHANGED <<requestVars, body, counterVars>>

\* The bytes are deleted afterwards, best effort.
RemoveBytes(d) ==
    /\ d \in dropping
    /\ DropBytes(slot[d])
    /\ dropping' = dropping \ {d}
    /\ UNCHANGED <<queueVars, requestVars, body, counterVars>>

RemoveBytesFails(d) ==
    /\ ApiFaults
    /\ d \in dropping
    /\ dropping' = dropping \ {d}
    /\ UNCHANGED <<queueVars, storeVars, requestVars, body, counterVars>>

-----------------------------------------------------------------------------
(* The worker loop and the clock, as in JobQueue. *)

ClaimBatch(w) ==
    /\ Claim(w)
    /\ UNCHANGED <<storeVars, requestVars, body, counterVars, dropping>>

WorkerCrash(w) ==
    /\ Crash(w)
    /\ body' = [body EXCEPT ![w] = [t \in Tasks |-> NoBody]]
    /\ UNCHANGED <<storeVars, requestVars, counterVars, dropping>>

WorkerRestart(w) ==
    /\ Restart(w)
    /\ UNCHANGED <<storeVars, requestVars, body, counterVars, dropping>>

LeaseLapses(t) ==
    /\ Lapse(t)
    /\ UNCHANGED <<storeVars, requestVars, body, counterVars, dropping>>

LeaseOverrun(t) ==
    /\ Overrun(t)
    /\ UNCHANGED <<storeVars, requestVars, body, counterVars, dropping>>

-----------------------------------------------------------------------------
(* run_ingest_job *)

Is(w, t, at) == body[w][t].at = at
Step(w, t, at, rows) == body' = [body EXCEPT ![w][t].at = at, ![w][t].rows = rows]
EndBody(w, t) == body' = [body EXCEPT ![w][t] = NoBody]
MyRows(t) == VersionChunks(docOf[t], ver[t])

\* The document row is there: set_state 'extracting'.
StartExtracting(w, t) ==
    /\ pc[w][t] = "claimed"
    /\ docOf[t] \in documents
    /\ SetState(w, t)
    /\ UNCHANGED <<storeVars, requestVars, body, counterVars, dropping>>

\* It is not: mark_done 'skipped'.
SkipRemoved(w, t) ==
    /\ docOf[t] \notin documents
    /\ MarkSkipped(w, t)
    /\ EndBody(w, t)
    /\ UNCHANGED <<storeVars, requestVars, counterVars, dropping>>

\* storage.get: whatever bytes are under the key by now.
Extract(w, t) ==
    LET bytes == blob[KeyOf[slot[docOf[t]]]] IN
    /\ pc[w][t] = "extracting" /\ Is(w, t, "start")
    /\ bytes # NoContent
    /\ body' = [body EXCEPT ![w][t].at = "loaded", ![w][t].content = bytes]
    /\ UNCHANGED <<queueVars, storeVars, requestVars, counterVars, dropping>>

StartChunking(w, t) ==
    /\ pc[w][t] = "extracting" /\ Is(w, t, "loaded")
    /\ SetState(w, t)
    /\ UNCHANGED <<storeVars, requestVars, body, counterVars, dropping>>

\* The DELETE of the chunk transaction fixes which rows it removes ...
DeleteOldChunks(w, t) ==
    /\ pc[w][t] = "chunking" /\ Is(w, t, "loaded")
    /\ Step(w, t, "deleting", MyRows(t))
    /\ UNCHANGED <<queueVars, storeVars, requestVars, counterVars, dropping>>

\* ... and the INSERTs and the commit follow.
InsertNewChunks(w, t) ==
    /\ Is(w, t, "deleting")
    /\ ReplaceVersion(docOf[t], body[w][t].rows,
                      NewChunks(docOf[t], ver[t], body[w][t].content, <<t, snap[w][t]>>))
    /\ Step(w, t, "chunked", {})
    /\ UNCHANGED <<queueVars, requestVars, counterVars, dropping>>

\* set_progress(chunk_count) and set_state 'embedding', two statements on the
\* row with nothing in between.
StartEmbedding(w, t) ==
    /\ pc[w][t] = "chunking" /\ Is(w, t, "chunked")
    /\ SetState(w, t)
    /\ chunkCount' = [chunkCount EXCEPT ![t] = ChunkCount[body[w][t].content]]
    /\ UNCHANGED <<storeVars, requestVars, body, embedCount, dropping>>

\* live_chunks: all rows of the version, whoever inserted them.
ListChunks(w, t) ==
    /\ pc[w][t] = "embedding" /\ Is(w, t, "chunked")
    /\ Step(w, t, "listed", MyRows(t))
    /\ UNCHANGED <<queueVars, storeVars, requestVars, counterVars, dropping>>

\* Mutant of EmbedNext: set_progress replaces the count.
EmbedNextReplacesCount(w, t) ==
    LET batch == FirstByOrdinal(body[w][t].rows, EmbedBatch) IN
    /\ Is(w, t, "listed")
    /\ batch # {}
    /\ EmbedChunks(model[t], batch)
    /\ Step(w, t, "listed", body[w][t].rows \ batch)
    /\ embedCount' = [embedCount EXCEPT ![t] = Cardinality(batch)]
    /\ UNCHANGED <<queueVars, requestVars, chunkCount, dropping>>

\* One batch: provider.embed, insert_embeddings and set_progress, which adds.
EmbedNext(w, t) ==
    LET batch == FirstByOrdinal(body[w][t].rows, EmbedBatch) IN
    /\ Is(w, t, "listed")
    /\ batch # {}
    /\ EmbedChunks(model[t], batch)
    /\ Step(w, t, "listed", body[w][t].rows \ batch)
    /\ embedCount' = [embedCount EXCEPT ![t] = @ + Cardinality(batch)]
    /\ UNCHANGED <<queueVars, requestVars, chunkCount, dropping>>

\* Mutant of Flip: it does not wait for the last batch.
FlipEarly(w, t) ==
    /\ Is(w, t, "listed")
    /\ FlipLive(docOf[t], ver[t])
    /\ Step(w, t, "flipped", {})
    /\ UNCHANGED <<queueVars, requestVars, counterVars, dropping>>

Flip(w, t) ==
    /\ Is(w, t, "listed")
    /\ body[w][t].rows = {}
    /\ FlipLive(docOf[t], ver[t])
    /\ Step(w, t, "flipped", {})
    /\ UNCHANGED <<queueVars, requestVars, counterVars, dropping>>

Finish(w, t) ==
    /\ Is(w, t, "flipped")
    /\ MarkDone(w, t)
    /\ EndBody(w, t)
    /\ UNCHANGED <<storeVars, requestVars, counterVars, dropping>>

\* Calls out of the database raise errors of any kind.  Database errors are
\* none of the names is_retryable knows.
CallsOut(w, t) ==
    \/ pc[w][t] = "extracting" /\ Is(w, t, "start")
    \/ pc[w][t] = "embedding" /\ body[w][t].rows # {}

RunFails(w, t, retryable) ==
    /\ retryable => CallsOut(w, t)
    /\ Fail(w, t, retryable)
    /\ EndBody(w, t)
    /\ UNCHANGED <<storeVars, requestVars, counterVars, dropping>>

RunVanishes(w, t) ==
    /\ LoseReport(w, t)
    /\ EndBody(w, t)
    /\ UNCHANGED <<storeVars, requestVars, counterVars, dropping>>

-----------------------------------------------------------------------------

BodyStep(w, t) ==
    \/ StartExtracting(w, t)
    \/ SkipRemoved(w, t)
    \/ Extract(w, t)
    \/ StartChunking(w, t)
    \/ DeleteOldChunks(w, t)
    \/ InsertNewChunks(w, t)
    \/ StartEmbedding(w, t)
    \/ ListChunks(w, t)
    \/ EmbedNext(w, t)
    \/ Flip(w, t)
    \/ Finish(w, t)
    \/ \E retryable \in BOOLEAN : RunFails(w, t, retryable)

UploadStep(t) ==
    \/ UploadSkip(t)
    \/ UploadPut(t)
    \/ UploadTruncate(t)
    \/ UploadWrite(t)
    \/ UploadLookup(t)
    \/ UploadUpsert(t)
    \/ UploadEnqueue(t)
    \/ UploadRaises(t)

PipelineNext ==
    \/ \E t \in Tasks, s \in Slots, c \in Uploads : UploadRead(t, s, c)
    \/ \E t \in Tasks : UploadStep(t) \/ UploadFault(t)
    \/ \E t \in Tasks : LeaseLapses(t) \/ LeaseOverrun(t)
    \/ \E d \in Docs : Remove(d) \/ RemoveBytes(d) \/ RemoveBytesFails(d)
    \/ \E w \in Workers : ClaimBatch(w) \/ WorkerCrash(w) \/ WorkerRestart(w)
    \/ \E w \in Workers, t \in Tasks : BodyStep(w, t) \/ RunVanishes(w, t)

PipelineSpec == PipelineInit /\ [][PipelineNext]_pipelineVars

\* The callers' requests are served and the awaits of a run return or raise.
PipelineFairness ==
    /\ \A t \in Tasks : WF_pipelineVars(UploadStep(t)) /\ WF_pipelineVars(LeaseLapses(t))
    /\ \A w \in Workers : WF_pipelineVars(ClaimBatch(w)) /\ WF_pipelineVars(WorkerRestart(w))
    /\ \A w \in Workers, t \in Tasks : WF_pipelineVars(BodyStep(w, t))

FairPipelineSpec == PipelineSpec /\ PipelineFairness

-----------------------------------------------------------------------------
(* Properties. *)

PipelineTypeOK ==
    /\ TypeOK
    /\ documents \subseteq Docs
    /\ slot \in [Docs -> Slots]
    /\ hash \in [Docs -> Contents \cup {NoContent}]
    /\ live \in [Docs -> Nat]
    /\ chunks \subseteq [doc : Docs, ver : Nat, ord : Nat, content : Contents, by : Tasks \X Nat]
    /\ embedded \in [Models -> SUBSET chunks]
    /\ active \in Models
    /\ blob \in [Keys -> Contents \cup {NoContent}]
    /\ req \in [Tasks -> [phase : Phases, content : Contents \cup {NoContent},
                          slot : Slots \cup {NoDoc}, found : Docs \cup {NoDoc}, live : Nat]]
    /\ docOf \in [Tasks -> Docs \cup {NoDoc}]
    /\ ver \in [Tasks -> Nat]
    /\ model \in [Tasks -> Models]
    /\ body \in [Workers -> [Tasks ->
                  [at : Steps, content : Contents \cup {NoContent},
                   rows : SUBSET [doc : Docs, ver : Nat, ord : Nat, content : Contents, by : Tasks \X Nat]]]]
    /\ chunkCount \in [Tasks -> Nat]
    /\ embedCount \in [Tasks -> Nat]
    /\ dropping \subseteq Docs

\* The chunks of one version of a document are the work of one run, whatever
\* runs interleave: delete-then-insert in one transaction under the unique key
\* never mixes two extractions ("never a blend", PLAN-RAG.md:374).
NoBlend ==
    \A c, k \in chunks : c.doc = k.doc /\ c.ver = k.ver => c.by = k.by

\* A removal is complete and stays complete: no run that was under way leaves
\* a chunk of a document that is gone (F11).  RAG-REMEDIATION-PLAN.md:238 fears
\* such orphans, which foreign key and cascade rule out.
NothingOrphaned ==
    \A c \in chunks : c.doc \in documents

\* What a document holds was uploaded under the storage key of its own address
\* and upload_id, or is a damaged file: whatever puts, removals and runs overlap,
\* content does not get from one key to another.  It may get from one upload_id
\* to another, because keys do lose what files.py:18 says they keep, "the
\* (address, upload) identity".
ContentStaysUnderKey ==
    \A c \in chunks : c.content \in Uploads =>
        \E t \in Tasks : /\ req[t].slot \in Slots /\ KeyOf[req[t].slot] = KeyOf[slot[c.doc]]
                         /\ req[t].content = c.content

\* "a reader sees entirely-old or entirely-new, never a blend"
\* (PLAN-RAG.md:373): at every moment a document that is live serves all
\* chunks of one content, all of them embedded.
ReaderSeesWhole ==
    \A d \in documents : live[d] > 0 => ServesWhole(d, active)

\* What may break that when jobs of a document do not overlap: a run that
\* dies between its flip and mark_done is run again, and its job deletes and
\* writes anew the version that is live (ingest/pipeline.py:66).  Until that job
\* is done the document may be half there; nothing else halves it.
HalfOnlyByRerun ==
    \A d \in documents : live[d] > 0 =>
        \/ ServesWhole(d, active)
        \/ \E t \in JobsOf(d) : /\ jobType[t] = "ingest" /\ ver[t] = live[d]
                               /\ attempts[t] > 1 /\ state[t] # "done"

\* The flip publishes a version only when everything of it is in place.
FlipPublishesWhole ==
    [][\A d \in documents \cap documents' : live'[d] # live[d] =>
           \E m \in Models : ServesWhole(d, m)']_pipelineVars

Quiet(d) ==
    /\ \A t \in Tasks : req[t].slot = slot[d] => req[t].phase \in {"none", "over"}
    /\ \A t \in JobsOf(d) : state[t] \in {"done", "skipped"}

\* No other slot has the storage key of s.
KeyOwned(s) == \A u \in Slots : KeyOf[u] = KeyOf[s] => u = s

\* When every request for a document has been answered and every job of it
\* has succeeded, it is served whole, and what it serves is the content that its
\* content_hash names - the changed upload has superseded the earlier one (PRD
\* 6.2) - unless it shares its storage key with another address or upload_id.
SettledServesLatest ==
    \A d \in documents : Quiet(d) =>
        /\ live[d] > 0
        /\ ServesWhole(d, active)
        /\ KeyOwned(slot[d]) => /\ \A c \in LiveChunks(d) : c.content = hash[d]
                                /\ Cardinality(LiveChunks(d)) = ChunkCount[hash[d]]

Unfinished(t) == jobType[t] = "ingest" /\ state[t] \in {"pending"} \cup InFlight

\* "never create the document row when its bytes did not land"
\* (api/routes_ingest.py:103): as long as a job waits or runs, what it is going
\* to read is what the content_hash of its document names, whole.  Crashed
\* puts, retries and removals do not get in between.  A removal's delete, which
\* comes after its commit and goes by the key (api/routes_ingest.py:157), does when
\* callers do not wait for it.
BytesAwaitTheirJob ==
    \A t \in Tasks :
        Unfinished(t) /\ docOf[t] \in documents /\ KeyOwned(slot[docOf[t]]) =>
            blob[KeyOf[slot[docOf[t]]]] = hash[docOf[t]]

\* An accepted job ends in a report of its failure, or with the version it
\* wrote live and searchable, unless the document is removed (PRD 6.5).
ServedOrReported ==
    \A t \in Tasks : state[t] = "pending" ~>
        \/ state[t] \in {"failed", "removed"}
        \/ state[t] = "done" /\ live[docOf[t]] = ver[t] /\ ServesWhole(docOf[t], model[t])

\* "a done/skipped job with embedding_count == chunk_count" (PLAN-RAG.md:395): so
\* it is for an upload that its first attempt has finished.  A job that needed
\* another counts again what an earlier attempt has embedded, and the embeddings
\* it has counted, over all attempts, are at least the chunks.
DoneCountsAddUp ==
    \A t \in Tasks : state[t] = "done" =>
        /\ embedCount[t] >= chunkCount[t]
        /\ jobType[t] = "ingest" /\ attempts[t] = 1 => embedCount[t] = chunkCount[t]

=============================================================================

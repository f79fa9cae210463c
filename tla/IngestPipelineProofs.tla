------------------------ MODULE IngestPipelineProofs -------------------------
(***************************************************************************)
(* Proofs about IngestPipeline, for every instance and every overlap of    *)
(* uploads.  Its steps are steps of JobQueue with effects on the documents *)
(* added, so what is proved of the queue holds of the pipeline; a removed  *)
(* document leaves no chunks.                                              *)
(***************************************************************************)
EXTENDS IngestPipeline, JobQueueProofs

-----------------------------------------------------------------------------
(* Every step of the pipeline is a step of the queue, or leaves it alone. *)

LEMMA UploadQueueStep ==
    ASSUME NEW t \in Tasks, UploadStep(t) \/ UploadFault(t)
    PROVE  QueueNext \/ UNCHANGED queueVars
  <1>1. CASE UploadSkip(t)
    BY <1>1 DEF UploadSkip, QueueNext
  <1>2. CASE UploadEnqueue(t)
    BY <1>2 DEF UploadEnqueue, QueueNext, JobTypes
  <1>3. CASE UploadLookup(t) \/ UploadUpsert(t) \/ UploadRaises(t) \/ UploadFault(t)
    BY <1>3 DEF UploadLookup, UploadUpsert, UploadRaises, UploadFault
  <1>4. CASE UploadPut(t) \/ UploadTruncate(t) \/ UploadWrite(t)
    BY <1>4 DEF UploadPut, UploadTruncate, UploadWrite
  <1> QED
    BY <1>1, <1>2, <1>3, <1>4 DEF UploadStep

LEMMA RemovalQueueStep ==
    ASSUME NEW d \in Docs, Remove(d) \/ RemoveBytes(d) \/ RemoveBytesFails(d)
    PROVE  QueueNext \/ UNCHANGED queueVars
  <1>1. CASE Remove(d)
    <2>1. JobsOf(d) \in SUBSET Tasks
      BY DEF JobsOf
    <2> QED
      BY <1>1, <2>1 DEF Remove, QueueNext
  <1>2. CASE RemoveBytes(d) \/ RemoveBytesFails(d)
    BY <1>2 DEF RemoveBytes, RemoveBytesFails
  <1> QED
    BY <1>1, <1>2

LEMMA BodyQueueStep ==
    ASSUME NEW w \in Workers, NEW t \in Tasks, BodyStep(w, t) \/ RunVanishes(w, t)
    PROVE  QueueNext \/ UNCHANGED queueVars
  <1>1. CASE StartExtracting(w, t) \/ StartChunking(w, t) \/ StartEmbedding(w, t)
    BY <1>1 DEF StartExtracting, StartChunking, StartEmbedding, QueueNext, RunStep
  <1>2. CASE SkipRemoved(w, t) \/ Finish(w, t)
    BY <1>2 DEF SkipRemoved, Finish, QueueNext, RunStep
  <1>3. CASE \E retryable \in BOOLEAN : RunFails(w, t, retryable)
    BY <1>3 DEF RunFails, QueueNext, RunStep
  <1>4. CASE RunVanishes(w, t)
    BY <1>4 DEF RunVanishes, QueueNext
  <1>5. CASE Extract(w, t) \/ DeleteOldChunks(w, t) \/ InsertNewChunks(w, t)
             \/ ListChunks(w, t) \/ EmbedNext(w, t) \/ Flip(w, t)
    BY <1>5 DEF Extract, DeleteOldChunks, InsertNewChunks, ListChunks, EmbedNext, Flip
  <1> QED
    BY <1>1, <1>2, <1>3, <1>4, <1>5 DEF BodyStep

LEMMA PipelineQueueStep ==
    [PipelineNext]_pipelineVars => [QueueNext]_queueVars
  <1> SUFFICES ASSUME [PipelineNext]_pipelineVars PROVE QueueNext \/ UNCHANGED queueVars
    OBVIOUS
  <1>1. ASSUME NEW t \in Tasks, NEW s \in Slots, NEW c \in Uploads, UploadRead(t, s, c)
        PROVE  UNCHANGED queueVars
    BY <1>1 DEF UploadRead
  <1>2. ASSUME NEW t \in Tasks, LeaseLapses(t) \/ LeaseOverrun(t) PROVE QueueNext
    BY <1>2 DEF LeaseLapses, LeaseOverrun, QueueNext
  <1>3. ASSUME NEW w \in Workers, ClaimBatch(w) \/ WorkerCrash(w) \/ WorkerRestart(w)
        PROVE  QueueNext
    BY <1>3 DEF ClaimBatch, WorkerCrash, WorkerRestart, QueueNext
  <1>4. CASE UNCHANGED pipelineVars
    BY <1>4 DEF pipelineVars
  <1> QED
    BY <1>1, <1>2, <1>3, <1>4, UploadQueueStep, RemovalQueueStep, BodyQueueStep
    DEF PipelineNext

\* The pipeline drives the job table only through the operations of JobQueue.
THEOREM PipelineImplementsQueue == PipelineSpec => QueueSpec
  <1>1. PipelineInit => QueueInit
    BY DEF PipelineInit
  <1> QED
    BY <1>1, PipelineQueueStep, PTL DEF PipelineSpec, QueueSpec

\* So no document is ingested by two workers at once under the same job, when
\* runs end within their lease or there is one worker, and the ledger's
\* promises are kept.
THEOREM PipelineExclusive ==
    ASSUME LeasesSuffice
    PROVE  PipelineSpec => []NoDoubleProcess /\ ImplementsLedger
  BY PipelineImplementsQueue, ExclusiveExecution, QueueImplementsLedger, PTL

-----------------------------------------------------------------------------
(* Removal is final, and the unique key of the document table. *)

\* What a step can do to the document and chunk rows.
LEMMA StoreStep ==
    ASSUME [PipelineNext]_pipelineVars
    PROVE  \/ UNCHANGED <<documents, slot, chunks>>
           \/ \E t \in Tasks : InsertDocument(t, req[t].slot, req[t].content)
           \/ \E d \in Docs : DeleteDocument(d)
           \/ \E w \in Workers, t \in Tasks :
                 LET new == NewChunks(docOf[t], ver[t], body[w][t].content, <<t, snap[w][t]>>)
                 IN ReplaceVersion(docOf[t], body[w][t].rows, new)
           \/ \E d, v : FlipLive(d, v)
  <1>1. ASSUME NEW t \in Tasks, UploadStep(t) \/ UploadFault(t)
        PROVE  \/ UNCHANGED <<documents, slot, chunks>>
               \/ InsertDocument(t, req[t].slot, req[t].content)
    <2>1. CASE UploadUpsert(t)
      BY <2>1 DEF UploadUpsert, UpdateDocument
    <2>2. CASE UploadPut(t) \/ UploadTruncate(t) \/ UploadWrite(t)
      BY <2>2 DEF UploadPut, PutBytes, UploadTruncate, TruncateBytes, UploadWrite, WriteBytes
    <2>3. CASE UploadSkip(t) \/ UploadLookup(t) \/ UploadEnqueue(t) \/ UploadRaises(t) \/ UploadFault(t)
      BY <2>3 DEF UploadSkip, UploadLookup, UploadEnqueue, UploadRaises, UploadFault, storeVars
    <2> QED
      BY <1>1, <2>1, <2>2, <2>3 DEF UploadStep
  <1>2. ASSUME NEW t \in Tasks, NEW s \in Slots, NEW c \in Uploads, UploadRead(t, s, c)
        PROVE  UNCHANGED storeVars
    BY <1>2 DEF UploadRead
  <1>3. ASSUME NEW t \in Tasks, LeaseLapses(t) \/ LeaseOverrun(t) PROVE UNCHANGED storeVars
    BY <1>3 DEF LeaseLapses, LeaseOverrun
  <1>4. ASSUME NEW w \in Workers, ClaimBatch(w) \/ WorkerCrash(w) \/ WorkerRestart(w)
        PROVE  UNCHANGED storeVars
    BY <1>4 DEF ClaimBatch, WorkerCrash, WorkerRestart
  <1>5. ASSUME NEW d \in Docs, Remove(d) \/ RemoveBytes(d) \/ RemoveBytesFails(d)
        PROVE  UNCHANGED <<documents, slot, chunks>> \/ DeleteDocument(d)
    BY <1>5 DEF Remove, RemoveBytes, RemoveBytesFails, DropBytes, storeVars
  <1>6. ASSUME NEW w \in Workers, NEW t \in Tasks, BodyStep(w, t) \/ RunVanishes(w, t)
        PROVE  \/ UNCHANGED <<documents, slot, chunks>>
               \/ ReplaceVersion(docOf[t], body[w][t].rows,
                     NewChunks(docOf[t], ver[t], body[w][t].content, <<t, snap[w][t]>>))
               \/ \E d, v : FlipLive(d, v)
    <2>1. CASE InsertNewChunks(w, t)
      BY <2>1 DEF InsertNewChunks
    <2>2. CASE Flip(w, t)
      BY <2>2 DEF Flip
    <2>3. CASE EmbedNext(w, t)
      BY <2>3 DEF EmbedNext, EmbedChunks
    <2>4. CASE StartExtracting(w, t) \/ StartChunking(w, t) \/ StartEmbedding(w, t)
               \/ SkipRemoved(w, t) \/ Finish(w, t) \/ RunVanishes(w, t)
      BY <2>4 DEF StartExtracting, StartChunking, StartEmbedding, SkipRemoved, Finish,
                  RunVanishes, storeVars
    <2>5. CASE Extract(w, t) \/ DeleteOldChunks(w, t) \/ ListChunks(w, t)
      BY <2>5 DEF Extract, DeleteOldChunks, ListChunks, storeVars
    <2>6. CASE \E retryable \in BOOLEAN : RunFails(w, t, retryable)
      BY <2>6 DEF RunFails, storeVars
    <2> QED
      BY <1>6, <2>1, <2>2, <2>3, <2>4, <2>5, <2>6 DEF BodyStep
  <1>7. CASE UNCHANGED pipelineVars
    BY <1>7 DEF pipelineVars, storeVars
  <1> QED
    BY <1>1, <1>2, <1>3, <1>4, <1>5, <1>6, <1>7 DEF PipelineNext, storeVars

LEMMA OrphanStep == NothingOrphaned /\ [PipelineNext]_pipelineVars => NothingOrphaned'
  <1> SUFFICES ASSUME NothingOrphaned, [PipelineNext]_pipelineVars PROVE NothingOrphaned'
    OBVIOUS
  <1> USE DEF NothingOrphaned
  <1>1. CASE UNCHANGED <<documents, slot, chunks>>
    BY <1>1
  <1>2. ASSUME NEW t \in Tasks, InsertDocument(t, req[t].slot, req[t].content)
        PROVE  NothingOrphaned'
    BY <1>2 DEF InsertDocument
  <1>3. ASSUME NEW d \in Docs, DeleteDocument(d) PROVE NothingOrphaned'
    BY <1>3 DEF DeleteDocument
  <1>4. ASSUME NEW d, NEW v, NEW c, NEW by, NEW gone,
               ReplaceVersion(d, gone, NewChunks(d, v, c, by))
        PROVE  NothingOrphaned'
    <2>1. \A k \in NewChunks(d, v, c, by) : k.doc = d
      BY DEF NewChunks
    <2> QED
      BY <1>4, <2>1 DEF ReplaceVersion
  <1>5. ASSUME NEW d, NEW v, FlipLive(d, v) PROVE NothingOrphaned'
    BY <1>5 DEF FlipLive
  <1> QED
    BY <1>1, <1>2, <1>3, <1>4, <1>5, StoreStep

\* When a document is removed its chunks go with it and none ever appears
\* again, whatever runs of its jobs were under way (F11).
THEOREM RemovalIsFinal == PipelineSpec => []NothingOrphaned
  <1>1. PipelineInit => NothingOrphaned
    BY DEF PipelineInit, StoreInit, NothingOrphaned
  <1> QED
    BY <1>1, OrphanStep, PTL DEF PipelineSpec

\* UNIQUE (address_id, upload_id), which other proofs rest on.
OneDocumentPerSlot ==
    \A d, e \in documents : slot[d] = slot[e] => d = e

\* What it needs to know of slot.
SlotsByDocument ==
    /\ documents \subseteq Docs
    /\ slot = [d \in Docs |-> slot[d]]
    /\ OneDocumentPerSlot

LEMMA SlotStep == SlotsByDocument /\ [PipelineNext]_pipelineVars => SlotsByDocument'
  <1> SUFFICES ASSUME SlotsByDocument, [PipelineNext]_pipelineVars PROVE SlotsByDocument'
    OBVIOUS
  <1> USE DEF SlotsByDocument, OneDocumentPerSlot
  <1>1. CASE UNCHANGED <<documents, slot, chunks>>
    BY <1>1
  <1>2. ASSUME NEW t \in Tasks, InsertDocument(t, req[t].slot, req[t].content)
        PROVE  SlotsByDocument'
    <2>1. /\ DocumentsAt(req[t].slot) = {}
          /\ documents' = documents \cup {t}
          /\ slot' = [slot EXCEPT ![t] = req[t].slot]
      BY <1>2 DEF InsertDocument
    <2>2. t \in Docs
      BY PipelineAssumption
    <2>3. \A d \in Docs : slot'[d] = IF d = t THEN req[t].slot ELSE slot[d]
      BY <2>1, <2>2
    <2>4. slot' = [d \in Docs |-> slot'[d]]
      BY <2>1, <2>2
    <2> QED
      BY <2>1, <2>2, <2>3, <2>4 DEF DocumentsAt
  <1>3. ASSUME NEW d \in Docs, DeleteDocument(d) PROVE SlotsByDocument'
    BY <1>3 DEF DeleteDocument
  <1>4. ASSUME NEW d, NEW gone, NEW new, ReplaceVersion(d, gone, new) PROVE SlotsByDocument'
    BY <1>4 DEF ReplaceVersion
  <1>5. ASSUME NEW d, NEW v, FlipLive(d, v) PROVE SlotsByDocument'
    BY <1>5 DEF FlipLive
  <1> QED
    BY <1>1, <1>2, <1>3, <1>4, <1>5, StoreStep

=============================================================================

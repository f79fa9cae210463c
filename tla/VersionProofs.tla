---------------------------- MODULE VersionProofs -----------------------------
(***************************************************************************)
(* Type correctness of IngestPipeline and the integrity of a document      *)
(* version: its chunks are the work of one run, whatever overlaps.         *)
(***************************************************************************)
EXTENDS IngestPipelineProofs, FiniteSetTheorems

-----------------------------------------------------------------------------
(* Types, with what they rest on: a request that has begun uploading names *)
(* a slot and a content, a run that extracts or chunks has a document and, *)
(* past the storage read, a content.  Rebuild adds phases and steps, hence *)
(* the parameters P and S.                                                 *)

ChunkRows == [doc : Docs, ver : Nat, ord : Nat, content : Contents, by : Tasks \X Nat]

StoreType ==
    /\ documents \subseteq Docs
    /\ slot \in [Docs -> Slots]
    /\ hash \in [Docs -> Contents \cup {NoContent}]
    /\ live \in [Docs -> Nat]
    /\ chunks \subseteq ChunkRows
    /\ embedded \in [Models -> SUBSET chunks]
    /\ active \in Models
    /\ blob \in [Keys -> Contents \cup {NoContent}]

Uploading == {"skipping", "storing", "writing", "stored", "upserting"}

RequestType(P) ==
    /\ req \in [Tasks -> [phase : P, content : Contents \cup {NoContent},
                          slot : Slots \cup {NoDoc}, found : Docs \cup {NoDoc}, live : Nat]]
    /\ docOf \in [Tasks -> Docs \cup {NoDoc}]
    /\ ver \in [Tasks -> Nat]
    /\ model \in [Tasks -> Models]
    /\ \A t \in Tasks : req[t].phase \in Uploading =>
          req[t].slot \in Slots /\ req[t].content \in Contents
    /\ \A t \in Tasks : req[t].phase = "skipping" => req[t].found \in Docs

BodyType(S) ==
    /\ body \in [Workers -> [Tasks ->
                  [at : S, content : Contents \cup {NoContent}, rows : SUBSET ChunkRows]]]
    /\ \A w \in Workers, t \in Tasks :
          /\ IsFiniteSet(body[w][t].rows)
          /\ body[w][t].at # "start" => pc[w][t] \in InFlight
          /\ body[w][t].at \in Steps \ {"start"} =>
                docOf[t] \in Docs /\ body[w][t].content \in Contents
          /\ pc[w][t] \in {"extracting", "chunking"} => docOf[t] \in Docs

CountType ==
    /\ chunkCount \in [Tasks -> Nat]
    /\ embedCount \in [Tasks -> Nat]
    /\ dropping \subseteq Docs

PipelineTypes(P, S) ==
    /\ TypeOK
    /\ StoreType
    /\ IsFiniteSet(chunks)
    /\ RequestType(P)
    /\ BodyType(S)
    /\ CountType

LEMMA TypesInit ==
    ASSUME NEW P, NEW S, Phases \subseteq P, Steps \subseteq S, PipelineInit
    PROVE  PipelineTypes(P, S)
  <1>1. TypeOK
    BY TypeInit DEF PipelineInit
  <1>2. StoreType /\ IsFiniteSet(chunks)
    BY StoreAssumption, FS_EmptySet DEF PipelineInit, StoreInit, StoreType
  <1>3. RequestType(P)
    BY <1>2 DEF PipelineInit, RequestType, NoRequest, Phases, Uploading, StoreType
  <1>4. BodyType(S)
    BY FS_EmptySet DEF PipelineInit, QueueInit, BodyType, NoBody, Steps, InFlight
  <1>5. CountType
    BY DEF PipelineInit, CountType
  <1> QED
    BY <1>1, <1>2, <1>3, <1>4, <1>5 DEF PipelineTypes

\* The chunk rows of one run: finitely many, numbered from 1.
LEMMA NewChunksType ==
    ASSUME NEW d \in Docs, NEW v \in Nat, NEW c \in Contents, NEW by \in Tasks \X Nat
    PROVE  /\ NewChunks(d, v, c, by) \subseteq ChunkRows
           /\ IsFiniteSet(NewChunks(d, v, c, by))
           /\ \A k \in NewChunks(d, v, c, by) : k.doc = d /\ k.ver = v /\ k.by = by
           /\ NewChunks(d, v, c, by) # {} => \E k \in NewChunks(d, v, c, by) : k.ord = 1
  <1> DEFINE row(i) == [doc |-> d, ver |-> v, ord |-> i, content |-> c, by |-> by]
             f == [i \in 1..ChunkCount[c] |-> row(i)]
  <1>1. ChunkCount[c] \in Nat
    BY StoreAssumption
  <1>2. NewChunks(d, v, c, by) = {row(i) : i \in 1..ChunkCount[c]}
    BY DEF NewChunks
  <1>3. f \in Surjection(1..ChunkCount[c], NewChunks(d, v, c, by))
    BY <1>2 DEF Surjection
  <1>4. IsFiniteSet(1..ChunkCount[c])
    BY <1>1, FS_Interval
  <1>5. IsFiniteSet(NewChunks(d, v, c, by))
    BY <1>3, <1>4, FS_Surjection
  <1>6. NewChunks(d, v, c, by) \subseteq ChunkRows
    BY <1>1, <1>2 DEF ChunkRows
  <1>7. NewChunks(d, v, c, by) # {} => \E k \in NewChunks(d, v, c, by) : k.ord = 1
    <2> SUFFICES ASSUME NewChunks(d, v, c, by) # {}
                 PROVE  \E k \in NewChunks(d, v, c, by) : k.ord = 1
      OBVIOUS
    <2>1. 1 \in 1..ChunkCount[c]
      BY <1>1, <1>2
    <2>2. row(1) \in NewChunks(d, v, c, by)
      BY <1>2, <2>1
    <2> QED
      BY <2>2
  <1> QED
    BY <1>2, <1>5, <1>6, <1>7

\* A request that is noted in one place keeps the others.
LEMMA RequestTypes ==
    ASSUME NEW P, Phases \subseteq P,
           RequestType(P), NEW t \in Tasks, UNCHANGED <<docOf, ver>>,
           model' \in [Tasks -> Models],
           NEW r \in [phase : P, content : Contents, slot : Slots,
                      found : Docs \cup {NoDoc}, live : Nat],
           r.phase = "skipping" => r.found \in Docs,
           req' = [req EXCEPT ![t] = r]
    PROVE  RequestType(P)'
  BY DEF RequestType

\* What the steps of the two kinds of put have in common: they touch the bytes
\* under the key of the upload, and leave nothing there of another upload.
LEMMA PutEffect ==
    ASSUME NEW P, RequestType(P), StoreType, NEW t \in Tasks,
           UploadPut(t) \/ UploadTruncate(t) \/ UploadWrite(t)
    PROVE  /\ req[t].phase \in {"storing", "writing"}
           /\ \E phase \in {"writing", "stored"} : Goto(t, phase)
           /\ UNCHANGED <<queueVars, documents, slot, hash, live, chunks, embedded, active,
                          columnVars, body, counterVars, dropping>>
           /\ \E bytes \in Contents \cup {NoContent} :
                 /\ blob' = [blob EXCEPT ![KeyOf[req[t].slot]] = bytes]
                 /\ bytes \in Uploads => bytes = req[t].content
  <1>1. req[t].phase \in {"storing", "writing"} => req[t].content \in Contents
    BY DEF RequestType, Uploading
  <1>2. CASE UploadPut(t)
    BY <1>1, <1>2 DEF UploadPut, PutBytes, At
  <1>3. CASE UploadTruncate(t)
    <2>1. Torn \in Contents \ Uploads
      BY <1>3, StoreAssumption DEF UploadTruncate
    <2> QED
      BY <1>3, <2>1 DEF UploadTruncate, TruncateBytes, At
  <1>4. CASE UploadWrite(t)
    <2> DEFINE now == blob[KeyOf[req[t].slot]]
    <2>1. /\ At(t, "writing") /\ Goto(t, "stored")
          /\ UNCHANGED <<queueVars, documents, slot, hash, live, chunks, embedded, active,
                         columnVars, body, counterVars, dropping>>
      BY <1>4 DEF UploadWrite, WriteBytes
    <2>2. PICK bytes \in AfterWrite(now, req[t].content) :
             blob' = [blob EXCEPT ![KeyOf[req[t].slot]] = bytes]
      BY <1>4 DEF UploadWrite, WriteBytes
    <2>3. NoContent \notin Uploads
      BY StoreAssumption
    <2>4. /\ bytes \in Contents \cup {NoContent}
          /\ bytes \in Uploads => bytes = req[t].content
      BY <1>1, <2>1, <2>2, <2>3 DEF AfterWrite, At
    <2> QED
      BY <2>1, <2>2, <2>4 DEF At
  <1> QED
    BY <1>2, <1>3, <1>4

LEMMA UploadTypes ==
    ASSUME NEW P, NEW S, Phases \subseteq P, Steps \subseteq S,
           PipelineTypes(P, S), TypeOK', NEW t \in Tasks,
           UploadStep(t) \/ UploadFault(t) \/ \E s \in Slots, c \in Uploads : UploadRead(t, s, c)
    PROVE  PipelineTypes(P, S)'
  <1> USE DEF PipelineTypes
  <1>1. CASE \E s \in Slots, c \in Uploads : UploadRead(t, s, c)
    <2>1. PICK s \in Slots, c \in Uploads : UploadRead(t, s, c)
      BY <1>1
    <2>2. UNCHANGED <<pc, storeVars, docOf, ver, body, counterVars, dropping>>
      BY <2>1 DEF UploadRead, queueVars
    <2>3. model' \in [Tasks -> Models] /\ c \in Contents
      BY <2>1, StoreAssumption DEF UploadRead, RequestType, StoreType
    <2>4. ASSUME req' = [req EXCEPT ![t] = [phase |-> "storing", slot |-> s, content |-> c,
                                            found |-> NoDoc, live |-> 0]]
          PROVE  RequestType(P)'
      BY <2>2, <2>3, <2>4, RequestTypes DEF Uploading, Phases
    <2>5. ASSUME NEW d \in DocumentsAt(s),
                 req' = [req EXCEPT ![t] = [phase |-> "skipping", slot |-> s, content |-> c,
                                            found |-> d, live |-> live[d]]]
          PROVE  RequestType(P)'
      <3>1. d \in Docs /\ live[d] \in Nat
        BY DEF DocumentsAt, StoreType
      <3> QED
        BY <2>2, <2>3, <2>5, <3>1, RequestTypes DEF Uploading, Phases
    <2>6. RequestType(P)'
      BY <2>1, <2>4, <2>5 DEF UploadRead
    <2> QED
      BY <2>2, <2>6 DEF storeVars, counterVars, StoreType, BodyType, CountType
  <1>2. CASE UploadSkip(t)
    <2>1. UNCHANGED <<pc, storeVars, model, body, counterVars, dropping>>
      BY <1>2 DEF UploadSkip, RecordSkipped, Insert, queueVars
    <2>2. RequestType(P)' /\ (\A u \in Tasks : docOf[u] \in Docs => docOf'[u] \in Docs)
      BY <1>2 DEF UploadSkip, Goto, At, RequestType, Uploading, Phases
    <2> QED
      BY <2>1, <2>2 DEF storeVars, counterVars, StoreType, BodyType, CountType
  <1>3. CASE UploadPut(t) \/ UploadTruncate(t) \/ UploadWrite(t)
    <2>1. /\ req[t].phase \in {"storing", "writing"}
          /\ \E phase \in {"writing", "stored"} : Goto(t, phase)
          /\ UNCHANGED <<queueVars, documents, slot, hash, live, chunks, embedded, active, columnVars,
                         body, counterVars, dropping>>
          /\ \E bytes \in Contents \cup {NoContent} :
                blob' = [blob EXCEPT ![KeyOf[req[t].slot]] = bytes]
      BY <1>3, PutEffect
    <2>2. RequestType(P)'
      BY <2>1 DEF Goto, columnVars, RequestType, Uploading, Phases
    <2>3. StoreType'
      BY <2>1 DEF StoreType
    <2> QED
      BY <2>1, <2>2, <2>3 DEF queueVars, columnVars, counterVars, BodyType, CountType
  <1>4. CASE UploadLookup(t)
    <2>1. UNCHANGED <<pc, storeVars, columnVars, body, counterVars, dropping>>
      BY <1>4 DEF UploadLookup, queueVars
    <2>2. PICK d \in documents \cup {NoDoc}, n \in Nat :
             req' = [req EXCEPT ![t].phase = "upserting", ![t].found = d, ![t].live = n]
      BY <1>4 DEF UploadLookup, DocumentsAt, StoreType
    <2>3. d \in Docs \cup {NoDoc} /\ req[t].slot \in Slots /\ req[t].content \in Contents
      BY <1>4 DEF UploadLookup, At, RequestType, Uploading, StoreType
    <2>4. [req[t] EXCEPT !.phase = "upserting", !.found = d, !.live = n]
             \in [phase : P, content : Contents, slot : Slots,
                  found : Docs \cup {NoDoc}, live : Nat]
      BY <2>3 DEF RequestType, Uploading, Phases
    <2>5. req' = [req EXCEPT ![t] = [req[t] EXCEPT !.phase = "upserting", !.found = d, !.live = n]]
      BY <2>2 DEF RequestType
    <2>6. [req[t] EXCEPT !.phase = "upserting", !.found = d, !.live = n].phase = "upserting"
      BY DEF RequestType
    <2>7. RequestType(P)'
      BY <2>1, <2>4, <2>5, <2>6, RequestTypes DEF columnVars, RequestType
    <2> QED
      BY <2>1, <2>7 DEF storeVars, columnVars, counterVars, StoreType, BodyType, CountType
  <1>5. CASE UploadUpsert(t)
    <2>1. UNCHANGED <<pc, chunks, embedded, blob, active, model, body, counterVars, dropping>>
      BY <1>5 DEF UploadUpsert, InsertDocument, UpdateDocument, queueVars
    <2>2. t \in Docs /\ NoDoc \notin Docs
      BY PipelineAssumption
    <2>3. RequestType(P)' /\ (\A u \in Tasks : docOf[u] \in Docs => docOf'[u] \in Docs)
      BY <1>5, <2>2 DEF UploadUpsert, Goto, At, NextVersion, RequestType, Uploading, Phases
    <2>4. req[t].slot \in Slots /\ req[t].content \in Contents
          /\ req[t].found \in Docs \cup {NoDoc}
      BY <1>5 DEF UploadUpsert, At, RequestType, Uploading
    <2>5. ASSUME req[t].found = NoDoc PROVE StoreType'
      <3>1. InsertDocument(t, req[t].slot, req[t].content)
        BY <1>5, <2>5 DEF UploadUpsert
      <3>2. documents' \subseteq Docs /\ slot' \in [Docs -> Slots]
        BY <2>2, <2>4, <3>1 DEF InsertDocument, StoreType
      <3>3. hash' \in [Docs -> Contents \cup {NoContent}] /\ live' \in [Docs -> Nat]
        BY <2>2, <2>4, <3>1 DEF InsertDocument, StoreType
      <3>4. chunks' \subseteq ChunkRows /\ embedded' \in [Models -> SUBSET chunks'] /\ active' \in Models
            /\ blob' \in [Keys -> Contents \cup {NoContent}]
        BY <2>1 DEF StoreType
      <3> QED
        BY <3>2, <3>3, <3>4 DEF StoreType
    <2>6. ASSUME req[t].found \in Docs PROVE StoreType'
      <3>1. UpdateDocument(req[t].found, req[t].content)
        BY <1>5, <2>2, <2>6 DEF UploadUpsert
      <3>2. hash' \in [Docs -> Contents \cup {NoContent}]
        BY <2>4, <3>1 DEF UpdateDocument, StoreType
      <3>3. documents' \subseteq Docs /\ slot' \in [Docs -> Slots] /\ live' \in [Docs -> Nat]
        BY <3>1 DEF UpdateDocument, StoreType
      <3>4. chunks' \subseteq ChunkRows /\ embedded' \in [Models -> SUBSET chunks'] /\ active' \in Models
            /\ blob' \in [Keys -> Contents \cup {NoContent}]
        BY <2>1 DEF StoreType
      <3> QED
        BY <3>2, <3>3, <3>4 DEF StoreType
    <2>7. StoreType'
      BY <2>4, <2>5, <2>6
    <2> QED
      BY <2>1, <2>3, <2>7 DEF counterVars, BodyType, CountType
  <1>6. CASE UploadEnqueue(t) \/ UploadRaises(t) \/ UploadFault(t)
    <2>1. UNCHANGED <<pc, storeVars, columnVars, body, counterVars, dropping>>
      BY <1>6 DEF UploadEnqueue, UploadRaises, UploadFault, Enqueue, Insert, queueVars
    <2>2. \E phase \in {"over", "lost"} : Goto(t, phase)
      BY <1>6 DEF UploadEnqueue, UploadRaises, UploadFault
    <2>3. RequestType(P)'
      BY <2>1, <2>2 DEF Goto, columnVars, RequestType, Uploading, Phases
    <2> QED
      BY <2>1, <2>3 DEF storeVars, columnVars, counterVars, StoreType, BodyType, CountType
  <1> QED
    BY <1>1, <1>2, <1>3, <1>4, <1>5, <1>6 DEF UploadStep

LEMMA RemovalTypes ==
    ASSUME NEW P, NEW S, Phases \subseteq P, Steps \subseteq S,
           PipelineTypes(P, S), TypeOK', NEW d \in Docs, Remove(d) \/ RemoveBytes(d) \/ RemoveBytesFails(d)
    PROVE  PipelineTypes(P, S)'
  <1> USE DEF PipelineTypes
  <1>1. UNCHANGED <<pc, requestVars, body, counterVars>> /\ dropping' \subseteq Docs
    BY DEF Remove, RemoveJobs, RemoveBytes, RemoveBytesFails, queueVars, CountType
  <1>2. StoreType' /\ chunks' \subseteq chunks
    <2>1. CASE Remove(d)
      BY <2>1 DEF Remove, DeleteDocument, EmbeddingsCascade, StoreType
    <2>2. CASE RemoveBytes(d)
      BY <2>2 DEF RemoveBytes, DropBytes, StoreType
    <2>3. CASE RemoveBytesFails(d)
      BY <2>3 DEF RemoveBytesFails, storeVars, StoreType
    <2> QED
      BY <2>1, <2>2, <2>3
  <1>3. IsFiniteSet(chunks')
    BY <1>2, FS_Subset
  <1> QED
    BY <1>1, <1>2, <1>3 DEF requestVars, columnVars, counterVars, RequestType, BodyType, CountType

LEMMA WorkerTypes ==
    ASSUME NEW P, NEW S, Phases \subseteq P, Steps \subseteq S,
           PipelineTypes(P, S), TypeOK',
           \/ \E w \in Workers : ClaimBatch(w) \/ WorkerCrash(w) \/ WorkerRestart(w)
           \/ \E t \in Tasks : LeaseLapses(t) \/ LeaseOverrun(t)
           \/ UNCHANGED pipelineVars
    PROVE  PipelineTypes(P, S)'
  <1> USE DEF PipelineTypes
  <1>1. UNCHANGED <<storeVars, requestVars, counterVars, dropping>>
    BY DEF ClaimBatch, WorkerCrash, WorkerRestart, LeaseLapses, LeaseOverrun, pipelineVars
  <1>2. BodyType(S)'
    <2>1. CASE \E w \in Workers : ClaimBatch(w)
      <3>1. PICK w \in Workers : ClaimBatch(w)
        BY <2>1
      <3>2. /\ \A t \in Tasks : pc[w][t] = "idle" /\ pc'[w][t] \in {"idle", "claimed"}
            /\ \A v \in Workers \ {w} : pc'[v] = pc[v]
        BY <3>1 DEF ClaimBatch, Claim, BatchEnded, Take, TypeOK
      <3>3. UNCHANGED <<docOf, body>>
        BY <1>1, <3>1 DEF ClaimBatch, requestVars, columnVars
      <3>4. ASSUME NEW v \in Workers, NEW t \in Tasks
            PROVE  /\ body[v][t].at # "start" => pc'[v][t] \in InFlight
                   /\ pc'[v][t] \in {"extracting", "chunking"} => docOf[t] \in Docs
        <4>1. CASE v = w
          BY <3>2, <4>1 DEF BodyType, InFlight
        <4>2. CASE v # w
          BY <3>2, <4>2 DEF BodyType
        <4> QED
          BY <4>1, <4>2
      <3> QED
        BY <3>3, <3>4 DEF BodyType
    <2>2. CASE \E w \in Workers : WorkerCrash(w)
      <3>1. PICK w \in Workers : WorkerCrash(w)
        BY <2>2
      <3> QED
        BY <1>1, <3>1, FS_EmptySet
        DEF WorkerCrash, Crash, BodyType, NoBody, Steps, TypeOK, requestVars, columnVars, InFlight
    <2>3. CASE UNCHANGED <<pc, body>>
      BY <1>1, <2>3 DEF BodyType, requestVars, columnVars
    <2>4. CASE \/ \E w \in Workers : WorkerRestart(w)
               \/ \E t \in Tasks : LeaseLapses(t) \/ LeaseOverrun(t)
               \/ UNCHANGED pipelineVars
      BY <2>3, <2>4 DEF WorkerRestart, Restart, runVars, LeaseLapses, Lapse, LeaseOverrun, Overrun,
                        pipelineVars, queueVars
    <2> QED
      BY <2>1, <2>2, <2>4
  <1> QED
    BY <1>1, <1>2 DEF storeVars, requestVars, columnVars, counterVars, StoreType, RequestType, CountType

\* A run that goes on with another step, other rows or another content.
LEMMA BodyStays ==
    ASSUME NEW P, NEW S, Phases \subseteq P, Steps \subseteq S,
           PipelineTypes(P, S), NEW w \in Workers, NEW t \in Tasks,
           pc'[w][t] \in InFlight, UNCHANGED docOf,
           pc'[w][t] = "embedding" \/ docOf[t] \in Docs,
           \A v \in Workers, u \in Tasks : v # w \/ u # t => pc'[v][u] = pc[v][u],
           NEW b \in [at : S, content : Contents \cup {NoContent}, rows : SUBSET ChunkRows],
           b.at \in Steps \ {"start"} => docOf[t] \in Docs /\ b.content \in Contents,
           IsFiniteSet(b.rows),
           body' = [body EXCEPT ![w][t] = b]
    PROVE  BodyType(S)'
  <1>1. \A v \in Workers, u \in Tasks :
           body'[v][u] = IF v = w /\ u = t THEN b ELSE body[v][u]
    BY DEF PipelineTypes, BodyType
  <1>2. body' \in [Workers -> [Tasks ->
                  [at : S, content : Contents \cup {NoContent}, rows : SUBSET ChunkRows]]]
    BY DEF PipelineTypes, BodyType
  <1>3. ASSUME NEW v \in Workers, NEW u \in Tasks, v # w \/ u # t
        PROVE  /\ IsFiniteSet(body'[v][u].rows)
               /\ body'[v][u].at # "start" => pc'[v][u] \in InFlight
               /\ body'[v][u].at \in Steps \ {"start"} =>
                     docOf'[u] \in Docs /\ body'[v][u].content \in Contents
               /\ pc'[v][u] \in {"extracting", "chunking"} => docOf'[u] \in Docs
    <2>1. body'[v][u] = body[v][u] /\ pc'[v][u] = pc[v][u]
      BY <1>1, <1>3
    <2> QED
      BY <2>1 DEF PipelineTypes, BodyType
  <1>4. body'[w][t] = b
    BY <1>1
  <1> QED
    BY <1>2, <1>3, <1>4 DEF BodyType

\* A run that ends.
LEMMA BodyEnds ==
    ASSUME NEW P, NEW S, Phases \subseteq P, Steps \subseteq S,
           PipelineTypes(P, S), NEW w \in Workers, NEW t \in Tasks, EndRun(w, t), EndBody(w, t),
           UNCHANGED docOf
    PROVE  BodyType(S)'
  <1>1. \A v \in Workers, u \in Tasks :
           /\ body'[v][u] = IF v = w /\ u = t THEN NoBody ELSE body[v][u]
           /\ pc'[v][u] = IF v = w /\ u = t THEN "idle" ELSE pc[v][u]
    BY DEF EndRun, EndBody, PipelineTypes, BodyType, TypeOK
  <1>2. NoBody \in [at : S, content : Contents \cup {NoContent}, rows : SUBSET ChunkRows]
    BY DEF NoBody, Steps
  <1>3. body' \in [Workers -> [Tasks ->
                  [at : S, content : Contents \cup {NoContent}, rows : SUBSET ChunkRows]]]
    BY <1>2 DEF EndBody, PipelineTypes, BodyType
  <1>4. IsFiniteSet(NoBody.rows) /\ NoBody.at = "start" /\ "idle" \notin InFlight
    BY FS_EmptySet DEF NoBody, InFlight
  <1>5. ASSUME NEW v \in Workers, NEW u \in Tasks, v # w \/ u # t
        PROVE  /\ IsFiniteSet(body'[v][u].rows)
               /\ body'[v][u].at # "start" => pc'[v][u] \in InFlight
               /\ body'[v][u].at \in Steps \ {"start"} =>
                     docOf'[u] \in Docs /\ body'[v][u].content \in Contents
               /\ pc'[v][u] \in {"extracting", "chunking"} => docOf'[u] \in Docs
    <2>1. body'[v][u] = body[v][u] /\ pc'[v][u] = pc[v][u]
      BY <1>1, <1>5
    <2> QED
      BY <2>1 DEF PipelineTypes, BodyType
  <1>6. body'[w][t] = NoBody /\ pc'[w][t] = "idle"
    BY <1>1
  <1> QED
    BY <1>3, <1>4, <1>5, <1>6 DEF BodyType

\* A run whose row gets its next state.
LEMMA BodyMoves ==
    ASSUME NEW P, NEW S, Phases \subseteq P, Steps \subseteq S,
           PipelineTypes(P, S), TypeOK', NEW w \in Workers, NEW t \in Tasks, SetState(w, t),
           docOf[t] \in Docs \/ pc'[w][t] = "embedding", UNCHANGED <<docOf, body>>
    PROVE  BodyType(S)'
  <1>1. pc'[w][t] \in InFlight
    BY DEF SetState, NextPoint, FirstState, PipelineTypes, TypeOK, InFlight
  <1>2. \A v \in Workers, u \in Tasks : v # w \/ u # t => pc'[v][u] = pc[v][u]
    BY DEF SetState, PipelineTypes, TypeOK
  <1> QED
    BY <1>1, <1>2 DEF PipelineTypes, BodyType

LEMMA BodyTypes ==
    ASSUME NEW P, NEW S, Phases \subseteq P, Steps \subseteq S,
           PipelineTypes(P, S), TypeOK', NEW w \in Workers, NEW t \in Tasks,
           BodyStep(w, t) \/ RunVanishes(w, t)
    PROVE  PipelineTypes(P, S)'
  <1> DEFINE Bodies == [at : S, content : Contents \cup {NoContent}, rows : SUBSET ChunkRows]
  <1> USE DEF PipelineTypes
  <1>a. UNCHANGED requestVars /\ RequestType(P)' /\ UNCHANGED docOf
    BY DEF BodyStep, StartExtracting, SkipRemoved, Extract, StartChunking, DeleteOldChunks,
           InsertNewChunks, StartEmbedding, ListChunks, EmbedNext, Flip, Finish, RunFails, RunVanishes,
           requestVars, columnVars, RequestType
  <1>b. body[w][t] \in Bodies /\ IsFiniteSet(body[w][t].rows)
    BY DEF BodyType
  <1>c. body[w][t].at \in Steps \ {"start"} =>
           pc[w][t] \in InFlight /\ docOf[t] \in Docs /\ body[w][t].content \in Contents
    BY DEF BodyType
  <1>1. CASE StartExtracting(w, t)
    <2>1. SetState(w, t) /\ docOf[t] \in Docs /\ UNCHANGED <<storeVars, body, counterVars, dropping>>
      BY <1>1 DEF StartExtracting, StoreType
    <2>2. BodyType(S)'
      BY <1>a, <2>1, BodyMoves
    <2> QED
      BY <1>a, <2>1, <2>2 DEF storeVars, counterVars, StoreType, CountType
  <1>2. CASE StartChunking(w, t) \/ StartEmbedding(w, t)
    <2>1. SetState(w, t) /\ docOf[t] \in Docs /\ UNCHANGED <<storeVars, body, embedCount, dropping>>
      BY <1>2, <1>c DEF StartChunking, StartEmbedding, Is, Steps, counterVars
    <2>2. BodyType(S)'
      BY <1>a, <2>1, BodyMoves
    <2>3. CountType'
      <3>1. body[w][t].content \in Contents
        BY <1>2, <1>c DEF StartChunking, StartEmbedding, Is, Steps
      <3>2. ChunkCount[body[w][t].content] \in Nat
        BY <3>1, StoreAssumption
      <3> QED
        BY <1>2, <2>1, <3>2 DEF StartChunking, StartEmbedding, counterVars, CountType
    <2> QED
      BY <1>a, <2>1, <2>2, <2>3 DEF storeVars, StoreType
  <1>3. CASE SkipRemoved(w, t) \/ Finish(w, t) \/ RunVanishes(w, t)
             \/ \E retryable \in BOOLEAN : RunFails(w, t, retryable)
    <2>1. EndRun(w, t) /\ EndBody(w, t) /\ UNCHANGED <<storeVars, counterVars, dropping>>
      BY <1>3 DEF SkipRemoved, MarkSkipped, Finish, MarkDone, RunVanishes, LoseReport, RunFails, Fail
    <2>2. BodyType(S)'
      BY <1>a, <2>1, BodyEnds
    <2> QED
      BY <1>a, <2>1, <2>2 DEF storeVars, counterVars, StoreType, CountType
  <1>4. CASE Extract(w, t)
    <2>1. UNCHANGED <<pc, storeVars, counterVars, dropping>> /\ pc[w][t] = "extracting"
      BY <1>4 DEF Extract, queueVars
    <2>2. docOf[t] \in Docs
      BY <2>1 DEF BodyType
    <2>3. PICK bytes \in Contents :
             body' = [body EXCEPT ![w][t].at = "loaded", ![w][t].content = bytes]
      <3>1. slot[docOf[t]] \in Slots
        BY <2>2 DEF StoreType
      <3>2. KeyOf[slot[docOf[t]]] \in Keys
        BY <3>1, StoreAssumption
      <3>3. blob[KeyOf[slot[docOf[t]]]] \in Contents \cup {NoContent}
        BY <3>2 DEF StoreType
      <3> QED
        BY <1>4, <3>3 DEF Extract
    <2> DEFINE b == [body[w][t] EXCEPT !.at = "loaded", !.content = bytes]
    <2>4. b \in Bodies /\ b.rows = body[w][t].rows /\ b.content = bytes
      BY <1>b DEF Steps
    <2>5. body' = [body EXCEPT ![w][t] = b]
      BY <2>3 DEF BodyType
    <2> HIDE DEF b
    <2>6. BodyType(S)'
      BY <1>a, <1>b, <2>1, <2>2, <2>4, <2>5, BodyStays DEF InFlight
    <2> QED
      BY <1>a, <2>1, <2>6 DEF storeVars, counterVars, StoreType, CountType
  <1>5. ASSUME NEW at \in Steps \ {"start"}, NEW rows \in SUBSET ChunkRows, IsFiniteSet(rows),
               body[w][t].at \in Steps \ {"start"}, Step(w, t, at, rows), UNCHANGED pc
        PROVE  BodyType(S)'
    <2> DEFINE b == [body[w][t] EXCEPT !.at = at, !.rows = rows]
    <2>1. b \in Bodies /\ b.rows = rows /\ b.content = body[w][t].content /\ b.at = at
      BY <1>b
    <2>2. body' = [body EXCEPT ![w][t] = b]
      BY <1>5 DEF Step, BodyType
    <2> HIDE DEF b
    <2> QED
      BY <1>a, <1>c, <1>5, <2>1, <2>2, BodyStays
  <1>6. MyRows(t) \in SUBSET ChunkRows /\ IsFiniteSet(MyRows(t))
    <2>1. MyRows(t) \in SUBSET chunks
      BY DEF MyRows, VersionChunks
    <2> QED
      BY <2>1, FS_Subset DEF StoreType
  <1>7. CASE DeleteOldChunks(w, t) \/ ListChunks(w, t)
    <2>1. UNCHANGED <<pc, storeVars, counterVars, dropping>> /\ body[w][t].at \in Steps \ {"start"}
          /\ \E at \in Steps \ {"start"} : Step(w, t, at, MyRows(t))
      BY <1>7 DEF DeleteOldChunks, ListChunks, Is, queueVars, Steps
    <2>2. BodyType(S)'
      BY <1>5, <1>6, <2>1
    <2> QED
      BY <1>a, <2>1, <2>2 DEF storeVars, counterVars, StoreType, CountType
  <1>8. CASE EmbedNext(w, t)
    <2> DEFINE batch == FirstByOrdinal(body[w][t].rows, EmbedBatch)
    <2>1. /\ UNCHANGED <<pc, documents, slot, hash, live, chunks, blob, active, chunkCount, dropping>>
          /\ body[w][t].at \in Steps \ {"start"}
          /\ batch \subseteq chunks
          /\ embedded' = [embedded EXCEPT ![model[t]] = @ \cup batch]
          /\ embedCount' = [embedCount EXCEPT ![t] = @ + Cardinality(batch)]
          /\ Step(w, t, "listed", body[w][t].rows \ batch)
      BY <1>8 DEF EmbedNext, EmbedChunks, Is, Steps, queueVars
    <2>2. IsFiniteSet(batch) /\ Cardinality(batch) \in Nat
      BY <2>1, FS_Subset, FS_CardinalityType
    <2>3. body[w][t].rows \ batch \in SUBSET body[w][t].rows
      OBVIOUS
    <2>4. IsFiniteSet(body[w][t].rows \ batch) /\ body[w][t].rows \ batch \in SUBSET ChunkRows
      BY <1>b, <2>3, FS_Subset
    <2> HIDE DEF batch
    <2>5. BodyType(S)'
      BY <1>5, <2>1, <2>4 DEF Steps
    <2>6. StoreType'
      <3>1. embedded' \in [Models -> SUBSET chunks']
        BY <2>1 DEF StoreType, RequestType
      <3> QED
        BY <2>1, <3>1 DEF StoreType
    <2>7. CountType'
      <3>1. embedCount' \in [Tasks -> Nat]
        BY <2>1, <2>2 DEF CountType
      <3> QED
        BY <2>1, <3>1 DEF CountType
    <2> QED
      BY <1>a, <2>1, <2>5, <2>6, <2>7
  <1>9. CASE Flip(w, t)
    <2>1. /\ UNCHANGED <<pc, counterVars, dropping>> /\ body[w][t].at \in Steps \ {"start"}
          /\ Step(w, t, "flipped", {}) /\ FlipLive(docOf[t], ver[t])
      BY <1>9 DEF Flip, Is, Steps, queueVars
    <2>2. BodyType(S)'
      BY <1>5, <2>1, FS_EmptySet DEF Steps
    <2>3. StoreType' /\ chunks' \in SUBSET chunks
      BY <2>1 DEF FlipLive, EmbeddingsCascade, StoreType, RequestType
    <2>4. IsFiniteSet(chunks')
      BY <2>3, FS_Subset
    <2> QED
      BY <1>a, <2>1, <2>2, <2>3, <2>4 DEF counterVars, CountType
  <1>10. CASE InsertNewChunks(w, t)
    <2> DEFINE new == NewChunks(docOf[t], ver[t], body[w][t].content, <<t, snap[w][t]>>)
               gone == body[w][t].rows
    <2>1. /\ UNCHANGED <<pc, counterVars, dropping>> /\ body[w][t].at \in Steps \ {"start"}
          /\ Step(w, t, "chunked", {}) /\ ReplaceVersion(docOf[t], gone, new)
      BY <1>10 DEF InsertNewChunks, Is, Steps, queueVars
    <2>2. BodyType(S)'
      BY <1>5, <2>1, FS_EmptySet DEF Steps
    <2>3. new \subseteq ChunkRows /\ IsFiniteSet(new)
      BY <1>c, <2>1, NewChunksType DEF RequestType, TypeOK
    <2> HIDE DEF new, gone
    <2>4. StoreType'
      BY <2>1, <2>3 DEF ReplaceVersion, EmbeddingsCascade, StoreType
    <2>5. IsFiniteSet(chunks \ gone)
      BY FS_Subset
    <2>6. IsFiniteSet(chunks')
      BY <2>1, <2>3, <2>5, FS_Union DEF ReplaceVersion
    <2> QED
      BY <1>a, <2>1, <2>2, <2>4, <2>6 DEF counterVars, CountType
  <1> QED
    BY <1>1, <1>2, <1>3, <1>4, <1>7, <1>8, <1>9, <1>10 DEF BodyStep

LEMMA TypesStep ==
    ASSUME NEW P, NEW S, Phases \subseteq P, Steps \subseteq S,
           PipelineTypes(P, S), [PipelineNext]_pipelineVars
    PROVE  PipelineTypes(P, S)'
  <1>1. TypeOK'
    BY PipelineQueueStep, TypeStep DEF PipelineTypes
  <1> QED
    BY <1>1, UploadTypes, RemovalTypes, WorkerTypes, BodyTypes DEF PipelineNext

\* Nothing the handlers and runs do ever writes a value outside its column's
\* domain, and an embedding always has its chunk.
THEOREM PipelineTypeCorrect == PipelineSpec => []PipelineTypeOK
  <1> DEFINE Types == PipelineTypes(Phases, Steps)
  <1>1. Types => PipelineTypeOK
    BY DEF PipelineTypes, StoreType, RequestType, BodyType, CountType, ChunkRows, PipelineTypeOK
  <1>2. PipelineInit => Types
    BY TypesInit
  <1>3. Types /\ [PipelineNext]_pipelineVars => Types'
    BY TypesStep
  <1> QED
    BY <1>1, <1>2, <1>3, PTL DEF PipelineSpec

-----------------------------------------------------------------------------
(* A version is the work of one run.  The unique key alone does not give    *)
(* that: it keeps two sets of rows apart because both would have an ordinal *)
(* 1, and the DELETE that precedes the INSERT sees a version as a whole.    *)

SameVersion(c, k) == c.doc = k.doc /\ c.ver = k.ver

Early == {"start", "loaded", "deleting"}

\* A chunk row that is there, or that some run still has in hand.
Traced(c) == c \in chunks \/ \E v \in Workers, u \in Tasks : c \in body[v][u].rows

\* Every version that is there at all has its first chunk.
Numbered ==
    \A c \in chunks : \E k \in chunks : SameVersion(c, k) /\ k.ord = 1

\* What a run is about to delete has all rows of the run that wrote it.
SeenWhole ==
    \A w \in Workers, t \in Tasks : body[w][t].at = "deleting" =>
        \A k \in body[w][t].rows, c \in chunks :
            SameVersion(c, k) /\ c.by = k.by => c \in body[w][t].rows

\* Rows come from claims that have happened ...
TracesCounted ==
    \A c \in ChunkRows : Traced(c) => c.by[2] <= attempts[c.by[1]]

\* ... and a run that has not inserted yet has left none.
FreshRuns ==
    \A w \in Workers, t \in Tasks : pc[w][t] # "idle" /\ body[w][t].at \in Early =>
        \A c \in ChunkRows : Traced(c) => c.by # <<t, snap[w][t]>>

VersionInv == Numbered /\ NoBlend /\ SeenWhole /\ TracesCounted /\ FreshRuns

\* A step that inserts no chunk: rows leave a version at a time, and a run
\* takes rows in hand only from the table.
Shrinks ==
    /\ chunks' \subseteq chunks
    /\ \A c \in chunks', k \in chunks : SameVersion(c, k) => k \in chunks'
    /\ \A v \in Workers, u \in Tasks :
          /\ body'[v][u].rows \subseteq body[v][u].rows \cup chunks
          /\ body'[v][u].at = "deleting" =>
                \/ body[v][u].at = "deleting" /\ body'[v][u].rows = body[v][u].rows
                \/ \A k \in body'[v][u].rows, c \in chunks' :
                      SameVersion(c, k) => c \in body'[v][u].rows
          /\ body'[v][u].at \in Early => pc'[v][u] = "idle" \/ body[v][u].at \in Early

\* A run keeps its attempt, and a new run has one that no earlier run had.
LEMMA RunsMove ==
    ASSUME TypeOK, [QueueNext]_queueVars
    PROVE  /\ \A t \in Tasks : attempts[t] <= attempts'[t]
           /\ \A w \in Workers, t \in Tasks : pc'[w][t] # "idle" =>
                 \/ pc[w][t] # "idle" /\ snap'[w][t] = snap[w][t]
                 \/ attempts[t] < snap'[w][t]
  <1> DEFINE Goal == /\ \A t \in Tasks : attempts[t] <= attempts'[t]
                     /\ \A w \in Workers, t \in Tasks : pc'[w][t] # "idle" =>
                           \/ pc[w][t] # "idle" /\ snap'[w][t] = snap[w][t]
                           \/ attempts[t] < snap'[w][t]
  <1> USE DEF TypeOK
  <1>1. ASSUME UNCHANGED <<attempts, pc, snap>> PROVE Goal
    BY <1>1
  <1>2. ASSUME NEW w \in Workers, Claim(w) PROVE Goal
    <2>1. PICK B : Take(w, B)
      BY <1>2 DEF Claim
    <2>2. \A t \in Tasks : attempts'[t] = IF t \in B THEN attempts[t] + 1 ELSE attempts[t]
      BY <2>1 DEF Take, NextAttempt
    <2>3. \A t \in Tasks : /\ pc'[w][t] = IF t \in B THEN "claimed" ELSE "idle"
                           /\ snap'[w][t] = IF t \in B THEN attempts[t] + 1 ELSE 0
      BY <2>1 DEF Take, NextAttempt
    <2>4. \A v \in Workers \ {w} : pc'[v] = pc[v] /\ snap'[v] = snap[v]
      BY <2>1 DEF Take
    <2>5. \A t \in Tasks : attempts[t] \in Nat
      OBVIOUS
    <2>6. \A t \in Tasks : attempts[t] <= attempts'[t]
      BY <2>2, <2>5
    <2>7. ASSUME NEW v \in Workers, NEW t \in Tasks, pc'[v][t] # "idle"
          PROVE  \/ pc[v][t] # "idle" /\ snap'[v][t] = snap[v][t]
                 \/ attempts[t] < snap'[v][t]
      <3>1. CASE v = w
        BY <2>3, <2>5, <2>7, <3>1
      <3>2. CASE v # w
        BY <2>4, <2>7, <3>2
      <3> QED
        BY <3>1, <3>2
    <2> QED
      BY <2>6, <2>7
  <1>3. ASSUME NEW w \in Workers, NEW t \in Tasks, EndRun(w, t), UNCHANGED attempts PROVE Goal
    BY <1>3 DEF EndRun
  <1>4. ASSUME NEW w \in Workers, NEW t \in Tasks, SetState(w, t) PROVE Goal
    BY <1>4 DEF SetState
  <1>5. ASSUME NEW w \in Workers, Crash(w) PROVE Goal
    BY <1>5 DEF Crash, rowVars
  <1>6. ASSUME NEW w \in Workers, NEW t \in Tasks, RunStep(w, t) \/ LoseReport(w, t) PROVE Goal
    BY <1>3, <1>4, <1>6 DEF RunStep, MarkDone, MarkSkipped, Fail, LoseReport, rowVars
  <1> QED
    BY <1>1, <1>2, <1>5, <1>6
    DEF QueueNext, queueVars, Enqueue, RecordSkipped, Insert, RemoveJobs, Restart, runVars, rowVars,
        Lapse, Overrun

\* A run that goes from one step to the next without inserting.
LEMMA OneBodyShrinks ==
    ASSUME NEW P, NEW S, Phases \subseteq P, Steps \subseteq S,
           PipelineTypes(P, S), NEW w \in Workers, NEW t \in Tasks,
           chunks' \subseteq chunks,
           \A c \in chunks', k \in chunks : SameVersion(c, k) => k \in chunks',
           \A v \in Workers, u \in Tasks : v # w \/ u # t => body'[v][u] = body[v][u],
           body'[w][t].rows \subseteq body[w][t].rows \cup chunks,
           body'[w][t].at = "deleting" =>
                 \A k \in body'[w][t].rows, c \in chunks' :
                      SameVersion(c, k) => c \in body'[w][t].rows,
           body'[w][t].at \in Early => pc'[w][t] = "idle" \/ body[w][t].at \in Early
    PROVE  Shrinks
  <1>1. ASSUME NEW v \in Workers, NEW u \in Tasks, v # w \/ u # t
        PROVE  /\ body'[v][u].rows \subseteq body[v][u].rows \cup chunks
               /\ body'[v][u].at = body[v][u].at
               /\ body'[v][u].rows = body[v][u].rows
    BY <1>1
  <1> QED
    BY <1>1 DEF Shrinks

LEMMA StillShrinks ==
    ASSUME UNCHANGED <<chunks, body>>
    PROVE  Shrinks
  BY DEF Shrinks

LEMMA RunShrinks ==
    ASSUME NEW P, NEW S, Phases \subseteq P, Steps \subseteq S,
           PipelineTypes(P, S), NEW w \in Workers, NEW t \in Tasks,
           BodyStep(w, t) \/ RunVanishes(w, t), ~InsertNewChunks(w, t)
    PROVE  Shrinks
  <1> USE DEF PipelineTypes
  <1>1. CASE StartExtracting(w, t) \/ StartChunking(w, t) \/ StartEmbedding(w, t)
    BY <1>1, StillShrinks DEF StartExtracting, StartChunking, StartEmbedding, storeVars
  <1>2. CASE SkipRemoved(w, t) \/ Finish(w, t) \/ RunVanishes(w, t)
             \/ \E retryable \in BOOLEAN : RunFails(w, t, retryable)
    <2>1. EndRun(w, t) /\ EndBody(w, t) /\ UNCHANGED chunks
      BY <1>2 DEF SkipRemoved, MarkSkipped, Finish, MarkDone, RunVanishes, LoseReport, RunFails, Fail,
                  storeVars
    <2>2. body'[w][t] = NoBody /\ pc'[w][t] = "idle"
      BY <2>1 DEF EndBody, EndRun, BodyType, TypeOK
    <2>3. \A v \in Workers, u \in Tasks : v # w \/ u # t => body'[v][u] = body[v][u]
      BY <2>1 DEF EndBody, BodyType
    <2> QED
      BY <2>1, <2>2, <2>3, OneBodyShrinks DEF NoBody
  <1>3. ASSUME Extract(w, t) PROVE Shrinks
    <2>1. PICK bytes : body' = [body EXCEPT ![w][t].at = "loaded", ![w][t].content = bytes]
      BY <1>3 DEF Extract
    <2>2. body'[w][t].at = "loaded" /\ body'[w][t].rows = body[w][t].rows
      BY <2>1 DEF BodyType
    <2>3. \A v \in Workers, u \in Tasks : v # w \/ u # t => body'[v][u] = body[v][u]
      BY <2>1 DEF BodyType
    <2>4. body[w][t].at \in Early /\ UNCHANGED chunks
      BY <1>3 DEF Extract, Is, Early, storeVars
    <2> QED
      BY <2>2, <2>3, <2>4, OneBodyShrinks
  <1>4. ASSUME NEW at \in Steps, NEW rows, Step(w, t, at, rows)
        PROVE  /\ body'[w][t].at = at /\ body'[w][t].rows = rows
               /\ \A v \in Workers, u \in Tasks : v # w \/ u # t => body'[v][u] = body[v][u]
    BY <1>4 DEF Step, BodyType
  <1>5. CASE DeleteOldChunks(w, t)
    <2>1. Step(w, t, "deleting", MyRows(t)) /\ UNCHANGED chunks /\ body[w][t].at \in Early
      BY <1>5 DEF DeleteOldChunks, Is, Early, storeVars
    <2>2. \A k \in MyRows(t), c \in chunks : SameVersion(c, k) => c \in MyRows(t)
      BY DEF MyRows, VersionChunks, SameVersion
    <2>3. MyRows(t) \subseteq chunks
      BY DEF MyRows, VersionChunks
    <2>4. body'[w][t].at = "deleting" /\ body'[w][t].rows = MyRows(t)
      BY <1>4, <2>1 DEF Steps
    <2>5. \A v \in Workers, u \in Tasks : v # w \/ u # t => body'[v][u] = body[v][u]
      BY <1>4, <2>1 DEF Steps
    <2> QED
      BY <2>1, <2>2, <2>3, <2>4, <2>5, OneBodyShrinks
  <1>6. ASSUME NEW at \in Steps \ Early, NEW rows, Step(w, t, at, rows),
               rows \subseteq body[w][t].rows \cup chunks,
               chunks' \subseteq chunks,
               \A c \in chunks', k \in chunks : SameVersion(c, k) => k \in chunks'
        PROVE  Shrinks
    <2>1. /\ body'[w][t].at = at /\ body'[w][t].rows = rows
          /\ \A v \in Workers, u \in Tasks : v # w \/ u # t => body'[v][u] = body[v][u]
      BY <1>4, <1>6
    <2>2. at \notin Early /\ at # "deleting"
      BY <1>6 DEF Early
    <2> QED
      BY <1>6, <2>1, <2>2, OneBodyShrinks
  <1>7. CASE ListChunks(w, t)
    <2>1. Step(w, t, "listed", MyRows(t)) /\ UNCHANGED chunks /\ MyRows(t) \subseteq chunks
      BY <1>7 DEF ListChunks, MyRows, VersionChunks, storeVars
    <2> QED
      BY <1>6, <2>1 DEF Steps, Early
  <1>8. CASE EmbedNext(w, t)
    <2>1. PICK batch : Step(w, t, "listed", body[w][t].rows \ batch) /\ UNCHANGED chunks
      BY <1>8 DEF EmbedNext, EmbedChunks
    <2> QED
      BY <1>6, <2>1 DEF Steps, Early
  <1>9. CASE Flip(w, t)
    <2>1. Step(w, t, "flipped", {}) /\ FlipLive(docOf[t], ver[t])
      BY <1>9 DEF Flip
    <2>2. chunks' \subseteq chunks
      BY <2>1 DEF FlipLive
    <2>3. \A c \in chunks', k \in chunks : SameVersion(c, k) => k \in chunks'
      BY <2>1 DEF FlipLive, SameVersion
    <2> QED
      BY <1>6, <2>1, <2>2, <2>3 DEF Steps, Early
  <1> QED
    BY <1>1, <1>2, <1>3, <1>5, <1>7, <1>8, <1>9 DEF BodyStep

\* All other steps: the requests, the clock and the workers.
LEMMA VersionStep ==
    ASSUME NEW P, NEW S, Phases \subseteq P, Steps \subseteq S,
           PipelineTypes(P, S), [PipelineNext]_pipelineVars
    PROVE  Shrinks \/ \E w \in Workers, t \in Tasks : InsertNewChunks(w, t)
  <1> USE DEF PipelineTypes
  <1>1. ASSUME NEW t \in Tasks, UploadStep(t) \/ UploadFault(t) PROVE UNCHANGED <<chunks, body>>
    BY <1>1 DEF UploadStep, UploadFault, UploadSkip, UploadPut, UploadTruncate, UploadWrite,
                UploadLookup, UploadUpsert, UploadEnqueue, UploadRaises, PutBytes, TruncateBytes,
                WriteBytes, InsertDocument, UpdateDocument, storeVars
  <1>2. ASSUME NEW d \in Docs, Remove(d) PROVE Shrinks
    <2>1. chunks' = {c \in chunks : c.doc # d} /\ UNCHANGED body
      BY <1>2 DEF Remove, DeleteDocument
    <2> QED
      BY <2>1 DEF Shrinks, SameVersion
  <1>3. ASSUME NEW w \in Workers, WorkerCrash(w) PROVE Shrinks
    <2>1. \A v \in Workers, u \in Tasks :
             /\ body'[v][u] = IF v = w THEN NoBody ELSE body[v][u]
             /\ v = w => pc'[v][u] = "idle"
      BY <1>3 DEF WorkerCrash, Crash, BodyType, TypeOK
    <2>2. UNCHANGED chunks
      BY <1>3 DEF WorkerCrash, storeVars
    <2> QED
      BY <2>1, <2>2 DEF Shrinks, NoBody
  <1>4. ASSUME \/ \E t \in Tasks, s \in Slots, c \in Uploads : UploadRead(t, s, c)
               \/ \E t \in Tasks : LeaseLapses(t) \/ LeaseOverrun(t)
               \/ \E d \in Docs : RemoveBytes(d) \/ RemoveBytesFails(d)
               \/ \E w \in Workers : ClaimBatch(w) \/ WorkerRestart(w)
               \/ UNCHANGED pipelineVars
        PROVE  UNCHANGED <<chunks, body>>
    BY <1>4 DEF UploadRead, LeaseLapses, LeaseOverrun, RemoveBytes, RemoveBytesFails, DropBytes,
                ClaimBatch, WorkerRestart, storeVars, pipelineVars
  <1> QED
    BY <1>1, <1>2, <1>3, <1>4, StillShrinks, RunShrinks DEF PipelineNext

LEMMA VersionShrinks ==
    ASSUME NEW P, NEW S, Phases \subseteq P, Steps \subseteq S,
           PipelineTypes(P, S), PipelineTypes(P, S)', VersionInv, [QueueNext]_queueVars, Shrinks
    PROVE  VersionInv'
  <1> USE DEF VersionInv
  <1>1. Numbered'
    BY DEF Numbered, Shrinks, SameVersion
  <1>2. NoBlend'
    BY DEF NoBlend, Shrinks
  <1>3. SeenWhole'
    <2> SUFFICES ASSUME NEW w \in Workers, NEW t \in Tasks, body'[w][t].at = "deleting",
                        NEW k \in body'[w][t].rows, NEW c \in chunks',
                        SameVersion(c, k), c.by = k.by
                 PROVE  c \in body'[w][t].rows
      BY DEF SeenWhole, SameVersion
    <2>1. CASE body[w][t].at = "deleting" /\ body'[w][t].rows = body[w][t].rows
      BY <2>1 DEF Shrinks, SeenWhole
    <2>2. CASE \A j \in body'[w][t].rows, b \in chunks' : SameVersion(b, j) => b \in body'[w][t].rows
      BY <2>2
    <2> QED
      BY <2>1, <2>2 DEF Shrinks
  <1>4. \A c \in ChunkRows : Traced(c)' => Traced(c)
    BY DEF Traced, Shrinks
  <1>5. \A c \in ChunkRows : c.by[1] \in Tasks /\ c.by[2] \in Nat
    BY DEF ChunkRows
  <1>6. TracesCounted'
    <2> SUFFICES ASSUME NEW c \in ChunkRows, Traced(c)' PROVE c.by[2] <= attempts'[c.by[1]]
      BY DEF TracesCounted
    <2>1. c.by[2] <= attempts[c.by[1]]
      BY <1>4 DEF TracesCounted
    <2>2. attempts[c.by[1]] <= attempts'[c.by[1]]
      BY <1>5, RunsMove DEF PipelineTypes
    <2>3. attempts[c.by[1]] \in Nat /\ attempts'[c.by[1]] \in Nat
      BY <1>5 DEF PipelineTypes, TypeOK
    <2> QED
      BY <1>5, <2>1, <2>2, <2>3
  <1>7. FreshRuns'
    <2> SUFFICES ASSUME NEW w \in Workers, NEW t \in Tasks, pc'[w][t] # "idle",
                        body'[w][t].at \in Early,
                        NEW c \in ChunkRows, Traced(c)', c.by = <<t, snap'[w][t]>>
                 PROVE  FALSE
      BY DEF FreshRuns, Early
    <2>1. Traced(c) /\ body[w][t].at \in Early
      BY <1>4 DEF Shrinks
    <2>2. CASE pc[w][t] # "idle" /\ snap'[w][t] = snap[w][t]
      BY <2>1, <2>2 DEF FreshRuns
    <2>3. CASE attempts[t] < snap'[w][t]
      <3>1. snap'[w][t] <= attempts[t]
        BY <2>1 DEF TracesCounted
      <3>2. attempts[t] \in Nat /\ snap'[w][t] \in Nat
        BY DEF PipelineTypes, TypeOK
      <3> QED
        BY <2>3, <3>1, <3>2
    <2> QED
      BY <2>2, <2>3, RunsMove DEF PipelineTypes
  <1> QED
    BY <1>1, <1>2, <1>3, <1>6, <1>7

\* The INSERT: what survived the DELETE is whole versions, none of them the
\* one that is inserted, and nobody has seen a row of this run before.
LEMMA VersionInsert ==
    ASSUME NEW P, NEW S, Phases \subseteq P, Steps \subseteq S,
           PipelineTypes(P, S), PipelineTypes(P, S)', AttemptIsFencing, VersionInv,
           NEW w \in Workers, NEW t \in Tasks, InsertNewChunks(w, t)
    PROVE  VersionInv'
  <1> DEFINE by == <<t, snap[w][t]>>
             new == NewChunks(docOf[t], ver[t], body[w][t].content, by)
             gone == body[w][t].rows
             kept == chunks \ gone
  <1> USE DEF VersionInv
  <1>1. /\ body[w][t].at = "deleting" /\ UNCHANGED <<attempts, pc, snap>>
        /\ Step(w, t, "chunked", {}) /\ ~Clash(kept, new) /\ chunks' = kept \cup new
    BY DEF InsertNewChunks, ReplaceVersion, Is, queueVars
  <1>2. docOf[t] \in Docs /\ ver[t] \in Nat /\ body[w][t].content \in Contents
        /\ by \in Tasks \X Nat /\ pc[w][t] # "idle"
    <2>1. pc[w][t] \in InFlight /\ docOf[t] \in Docs /\ body[w][t].content \in Contents
      BY <1>1 DEF PipelineTypes, BodyType, Steps
    <2>2. ver[t] \in Nat /\ snap[w][t] \in Nat
      BY DEF PipelineTypes, RequestType, TypeOK
    <2> QED
      BY <2>1, <2>2 DEF InFlight
  <1>3. /\ new \subseteq ChunkRows
        /\ \A k \in new : k.doc = docOf[t] /\ k.ver = ver[t] /\ k.by = by
        /\ new # {} => \E k \in new : k.ord = 1
    BY <1>2, NewChunksType
  <1>4. /\ body'[w][t].at = "chunked" /\ body'[w][t].rows = {}
        /\ \A v \in Workers, u \in Tasks : v # w \/ u # t => body'[v][u] = body[v][u]
    BY <1>1 DEF Step, PipelineTypes, BodyType
  <1>5. \A v \in Workers, u \in Tasks :
           body'[v][u].rows \subseteq body[v][u].rows /\ (body'[v][u].at # "chunked" => body'[v][u] = body[v][u])
    BY <1>4
  <1> HIDE DEF new, gone
  <1>6. \A c \in kept, k \in chunks : SameVersion(c, k) => k \in kept
    <2> SUFFICES ASSUME NEW c \in kept, NEW k \in chunks, SameVersion(c, k), k \in gone PROVE FALSE
      OBVIOUS
    <2>1. c.by = k.by
      BY DEF NoBlend, SameVersion
    <2> QED
      BY <1>1, <2>1 DEF SeenWhole, gone
  <1>7. \A c \in kept, k \in new : ~SameVersion(c, k)
    <2> SUFFICES ASSUME NEW c \in kept, NEW k \in new, SameVersion(c, k) PROVE FALSE
      OBVIOUS
    <2>1. PICK j \in chunks : SameVersion(c, j) /\ j.ord = 1
      BY DEF Numbered
    <2>2. j \in kept
      BY <1>6, <2>1
    <2>3. PICK n \in new : n.ord = 1
      BY <1>3
    <2>4. SameVersion(j, n)
      BY <1>3, <2>1, <2>3 DEF SameVersion
    <2> QED
      BY <1>1, <2>1, <2>2, <2>3, <2>4 DEF Clash, SameVersion
  <1>8. Numbered'
    <2>1. ASSUME NEW c \in kept PROVE \E k \in chunks' : SameVersion(c, k) /\ k.ord = 1
      BY <1>1, <1>6 DEF Numbered
    <2>2. ASSUME NEW c \in new PROVE \E k \in chunks' : SameVersion(c, k) /\ k.ord = 1
      BY <1>1, <1>3 DEF SameVersion
    <2> QED
      BY <1>1, <2>1, <2>2 DEF Numbered, SameVersion
  <1>9. NoBlend'
    <2> SUFFICES ASSUME NEW c \in chunks', NEW k \in chunks', SameVersion(c, k) PROVE c.by = k.by
      BY DEF NoBlend, SameVersion
    <2>1. SameVersion(k, c)
      BY DEF SameVersion
    <2>2. CASE c \in new /\ k \in new
      BY <1>3, <2>2
    <2>3. CASE c \in kept /\ k \in kept
      BY <2>3 DEF NoBlend, SameVersion
    <2> QED
      BY <1>1, <1>7, <2>1, <2>2, <2>3
  <1>10. \A c \in ChunkRows : Traced(c)' => Traced(c) \/ c \in new
    BY <1>1, <1>5 DEF Traced
  <1>11. \A c \in ChunkRows : Traced(c) => c.by # by
    BY <1>1, <1>2 DEF FreshRuns, Early
  <1>12. SeenWhole'
    <2> SUFFICES ASSUME NEW v \in Workers, NEW u \in Tasks, body'[v][u].at = "deleting",
                        NEW k \in body'[v][u].rows, NEW c \in chunks',
                        SameVersion(c, k), c.by = k.by
                 PROVE  c \in body'[v][u].rows
      BY DEF SeenWhole, SameVersion
    <2>1. body'[v][u] = body[v][u]
      BY <1>5
    <2>2. k \in ChunkRows /\ Traced(k)
      BY <2>1 DEF Traced, PipelineTypes, BodyType
    <2>3. c \notin new
      BY <1>3, <1>11, <2>2
    <2>4. c \in chunks
      BY <1>1, <2>3
    <2> QED
      BY <2>1, <2>4 DEF SeenWhole
  <1>13. TracesCounted'
    <2> SUFFICES ASSUME NEW c \in ChunkRows, Traced(c)' PROVE c.by[2] <= attempts[c.by[1]]
      BY <1>1 DEF TracesCounted
    <2>1. snap[w][t] <= attempts[t]
      BY <1>2 DEF AttemptIsFencing
    <2>2. CASE c \in new
      <3>1. c.by = <<t, snap[w][t]>>
        BY <1>3, <2>2
      <3> QED
        BY <2>1, <3>1
    <2> QED
      BY <1>10, <2>2 DEF TracesCounted
  <1>14. FreshRuns'
    <2> SUFFICES ASSUME NEW v \in Workers, NEW u \in Tasks, pc[v][u] # "idle",
                        body'[v][u].at \in Early,
                        NEW c \in ChunkRows, Traced(c)', c.by = <<u, snap[v][u]>>
                 PROVE  FALSE
      BY <1>1 DEF FreshRuns, Early
    <2>1. body'[v][u] = body[v][u] /\ (v # w \/ u # t)
      BY <1>4, <1>5 DEF Early
    <2>2. c \in new
      BY <1>10, <2>1 DEF FreshRuns
    <2>3. <<u, snap[v][u]>> = <<t, snap[w][t]>>
      BY <1>3, <2>2
    <2>4. u = t /\ snap[v][u] = snap[w][t]
      BY <2>3
    <2> QED
      BY <1>2, <2>1, <2>4 DEF AttemptIsFencing
  <1> QED
    BY <1>8, <1>9, <1>12, <1>13, <1>14

LEMMA VersionInit == PipelineInit => VersionInv
  BY DEF PipelineInit, StoreInit, NoBody, VersionInv, Numbered, NoBlend, SeenWhole, TracesCounted,
         FreshRuns, Traced

\* Whatever runs, retries and crashes overlap, and whether or not a lease
\* covers a run, no version of a document is ever a blend of two runs.
THEOREM VersionsNeverBlend == PipelineSpec => []NoBlend
  <1> DEFINE Inv == PipelineTypes(Phases, Steps) /\ AttemptIsFencing /\ VersionInv
  <1>1. PipelineInit => Inv
    <2>1. PipelineInit => AttemptIsFencing
      BY FenceInit DEF PipelineInit
    <2> QED
      BY <2>1, TypesInit, VersionInit
  <1>2. Inv /\ [PipelineNext]_pipelineVars => Inv'
    <2> SUFFICES ASSUME Inv, [PipelineNext]_pipelineVars PROVE Inv'
      OBVIOUS
    <2>1. [QueueNext]_queueVars
      BY PipelineQueueStep
    <2>2. PipelineTypes(Phases, Steps)' /\ AttemptIsFencing'
      BY <2>1, TypesStep, FenceStep DEF PipelineTypes
    <2>3. VersionInv'
      BY <2>1, <2>2, VersionStep, VersionShrinks, VersionInsert
    <2> QED
      BY <2>2, <2>3
  <1>3. Inv => NoBlend
    BY DEF VersionInv
  <1> QED
    BY <1>1, <1>2, <1>3, PTL DEF PipelineSpec

=============================================================================

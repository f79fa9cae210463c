---------------------------- MODULE RebuildProofs ----------------------------
(***************************************************************************)
(* Proofs about Rebuild, for every instance, with and without callers that *)
(* keep apart.  The steps of a model change are steps of JobQueue with     *)
(* effects on embeddings and configuration, so what is proved of the queue *)
(* and of the document rows also holds while the model changes.            *)
(* What a document holds, and whether its bytes are there, is proved here  *)
(* of all steps at once.                                                   *)
(***************************************************************************)
EXTENDS Rebuild, VersionProofs

\* The steps Rebuild adds to those of IngestPipeline.
ModelChange ==
    \/ \E t \in Tasks, m \in Models, a \in Scopes : AdminCheck(t, m, a)
    \/ \E t \in Tasks : AdminEnqueue(t)
    \/ \E w \in Workers, t \in Tasks : RebuildStep(w, t)

LEMMA RebuildStepCases ==
    ASSUME [RebuildNext]_rebuildVars
    PROVE  [PipelineNext]_pipelineVars \/ ModelChange
  BY DEF RebuildNext, IngestStep, ModelChange, rebuildVars

LEMMA ModelChangeQueueStep == ModelChange => QueueNext \/ UNCHANGED queueVars
  <1> SUFFICES ASSUME ModelChange PROVE QueueNext \/ UNCHANGED queueVars
    OBVIOUS
  <1>1. ASSUME NEW t \in Tasks, NEW m, NEW a, AdminCheck(t, m, a)
        PROVE  UNCHANGED queueVars
    BY <1>1 DEF AdminCheck
  <1>2. ASSUME NEW t \in Tasks, AdminEnqueue(t) PROVE QueueNext
    BY <1>2 DEF AdminEnqueue, QueueNext, JobTypes
  <1>3. ASSUME NEW w \in Workers, NEW t \in Tasks, RebuildStep(w, t)
        PROVE  QueueNext \/ UNCHANGED queueVars
    <2>1. CASE StartRebuild(w, t) \/ FinishRebuild(w, t)
      BY <2>1 DEF StartRebuild, FinishRebuild, QueueNext, RunStep
    <2>2. CASE ReadMissing(w, t) \/ Backfill(w, t) \/ Sweep(w, t) \/ SwitchModel(w, t)
      BY <2>2 DEF ReadMissing, Backfill, Sweep, SwitchModel
    <2> QED
      BY <1>3, <2>1, <2>2 DEF RebuildStep
  <1> QED
    BY <1>1, <1>2, <1>3 DEF ModelChange

\* No step of a model change touches documents or chunks.
LEMMA ModelChangeStoreStep == ModelChange => UNCHANGED <<documents, slot, chunks>>
  <1> SUFFICES ASSUME ModelChange PROVE UNCHANGED <<documents, slot, chunks>>
    OBVIOUS
  <1>1. ASSUME NEW t \in Tasks, NEW m, NEW a, AdminCheck(t, m, a) PROVE UNCHANGED storeVars
    BY <1>1 DEF AdminCheck
  <1>2. ASSUME NEW t \in Tasks, AdminEnqueue(t) PROVE UNCHANGED storeVars
    BY <1>2 DEF AdminEnqueue
  <1>3. ASSUME NEW w \in Workers, NEW t \in Tasks, RebuildStep(w, t)
        PROVE  UNCHANGED <<documents, slot, chunks>>
    <2>1. CASE StartRebuild(w, t) \/ FinishRebuild(w, t) \/ ReadMissing(w, t) \/ Sweep(w, t)
      BY <2>1 DEF StartRebuild, FinishRebuild, ReadMissing, Sweep, storeVars
    <2>2. CASE Backfill(w, t)
      BY <2>2 DEF Backfill, EmbedChunks
    <2>3. CASE SwitchModel(w, t)
      BY <2>3 DEF SwitchModel, SetActive
    <2> QED
      BY <1>3, <2>1, <2>2, <2>3 DEF RebuildStep
  <1> QED
    BY <1>1, <1>2, <1>3 DEF ModelChange, storeVars

-----------------------------------------------------------------------------

\* Rebuild jobs use the job table only through the operations of JobQueue.
THEOREM RebuildImplementsQueue == RebuildSpec => QueueSpec
  <1>1. RebuildInit => QueueInit
    BY DEF RebuildInit, PipelineInit
  <1>2. [RebuildNext]_rebuildVars => [QueueNext]_queueVars
    BY RebuildStepCases, PipelineQueueStep, ModelChangeQueueStep
  <1> QED
    BY <1>1, <1>2, PTL DEF RebuildSpec, QueueSpec

\* So a rebuild is never executed by two workers at once, when its run ends
\* within its lease or there is one worker, and the ledger's promises hold of
\* rebuilds too.
THEOREM RebuildExclusive ==
    ASSUME LeasesSuffice
    PROVE  RebuildSpec => []NoDoubleProcess /\ ImplementsLedger
  BY RebuildImplementsQueue, ExclusiveExecution, QueueImplementsLedger, PTL

\* A model change leaves nothing of a removed document, whatever it overlaps
\* with.
THEOREM RebuildKeepsStore == RebuildSpec => []NothingOrphaned
  <1>1. RebuildInit => NothingOrphaned
    BY DEF RebuildInit, PipelineInit, StoreInit, NothingOrphaned
  <1>2. NothingOrphaned /\ [RebuildNext]_rebuildVars => NothingOrphaned'
    <2>1. NothingOrphaned /\ [PipelineNext]_pipelineVars => NothingOrphaned'
      BY OrphanStep
    <2>2. NothingOrphaned /\ ModelChange => NothingOrphaned'
      BY ModelChangeStoreStep DEF NothingOrphaned
    <2> QED
      BY <2>1, <2>2, RebuildStepCases
  <1> QED
    BY <1>1, <1>2, PTL DEF RebuildSpec

-----------------------------------------------------------------------------
(* Types, and the integrity of versions, with rebuilds under way. *)

RebuildPhases == Phases \cup {"checked"}
AllSteps      == Steps \cup RebuildSteps

RebuildTypes ==
    /\ PipelineTypes(RebuildPhases, AllSteps)
    /\ scope \in [Tasks -> Scopes]

\* A step inside a rebuild run.
LEMMA RebuildBodyStep ==
    ASSUME RebuildTypes, NEW w \in Workers, NEW t \in Tasks,
           NEW at \in RebuildSteps, NEW rows \in SUBSET ChunkRows, IsFiniteSet(rows),
           pc[w][t] \in InFlight, UNCHANGED <<pc, docOf>>, Step(w, t, at, rows)
    PROVE  /\ BodyType(AllSteps)'
           /\ rows \subseteq body[w][t].rows \cup chunks /\ UNCHANGED chunks => Shrinks
  <1> DEFINE b == [body[w][t] EXCEPT !.at = at, !.rows = rows]
  <1> USE DEF RebuildTypes, PipelineTypes, BodyType
  <1>1. b \in [at : AllSteps, content : Contents \cup {NoContent}, rows : SUBSET ChunkRows]
        /\ b.at = at /\ b.rows = rows
    <2>1. body[w][t] \in [at : AllSteps, content : Contents \cup {NoContent},
                          rows : SUBSET ChunkRows]
      OBVIOUS
    <2>2. at \in AllSteps
      BY DEF AllSteps
    <2> HIDE DEF RebuildTypes, PipelineTypes, BodyType
    <2> QED
      BY <2>1, <2>2
  <1>2. body' = [body EXCEPT ![w][t] = b]
    BY DEF Step
  <1>3. at \notin Steps /\ at \notin Early /\ at # "deleting"
    BY DEF RebuildSteps, Steps, Early
  <1>4. pc[w][t] = "embedding" \/ docOf[t] \in Docs
    BY DEF InFlight
  <1> HIDE DEF b
  <1>5. BodyType(AllSteps)'
    <2>1. Phases \subseteq RebuildPhases /\ Steps \subseteq AllSteps
      BY DEF RebuildPhases, AllSteps
    <2> HIDE DEF PipelineTypes, BodyType
    <2>2. PipelineTypes(RebuildPhases, AllSteps)
      OBVIOUS
    <2> QED
      BY <1>1, <1>2, <1>3, <1>4, <2>1, <2>2, BodyStays
  <1>6. ASSUME rows \subseteq body[w][t].rows \cup chunks, UNCHANGED chunks PROVE Shrinks
    <2>1. body'[w][t] = b /\ \A v \in Workers, u \in Tasks : v # w \/ u # t => body'[v][u] = body[v][u]
      BY <1>2
    <2> QED
      BY <1>1, <1>3, <1>6, <2>1 DEF Shrinks, SameVersion
  <1> QED
    BY <1>5, <1>6

LEMMA AdminTypes ==
    ASSUME RebuildTypes, TypeOK', NEW t \in Tasks,
           AdminEnqueue(t) \/ \E m \in Models, a \in Scopes : AdminCheck(t, m, a)
    PROVE  RebuildTypes' /\ Shrinks
  <1> USE DEF RebuildTypes, PipelineTypes
  <1>1. UNCHANGED <<pc, storeVars, docOf, ver, body, counterVars, dropping>>
        /\ \E phase \in {"checked", "over"} : Goto(t, phase)
    BY DEF AdminEnqueue, AdminCheck, Enqueue, Insert, queueVars, columnVars
  <1>2. model' \in [Tasks -> Models] /\ scope' \in [Tasks -> Scopes]
    BY DEF AdminEnqueue, AdminCheck, columnVars, RequestType
  <1>3. RequestType(RebuildPhases)'
    <2>1. PICK phase \in {"checked", "over"} : Goto(t, phase)
      BY <1>1
    <2> DEFINE r == [req[t] EXCEPT !.phase = phase]
    <2>2. req' = [req EXCEPT ![t] = r]
      BY <2>1 DEF Goto
    <2>3. RequestType(RebuildPhases)
      OBVIOUS
    <2>4. phase \in RebuildPhases /\ phase \notin Uploading /\ phase # "skipping"
      BY DEF RebuildPhases, Phases, Uploading
    <2> HIDE DEF RebuildTypes, PipelineTypes
    <2>5. r \in [phase : RebuildPhases, content : Contents \cup {NoContent},
                slot : Slots \cup {NoDoc}, found : Docs \cup {NoDoc}, live : Nat]
      BY <2>3, <2>4 DEF RequestType
    <2>6. r.phase = phase
      BY <2>3 DEF RequestType
    <2> HIDE DEF r
    <2>7. \A u \in Tasks : req'[u] = IF u = t THEN r ELSE req[u]
      BY <2>2, <2>3 DEF RequestType
    <2>8. req' \in [Tasks -> [phase : RebuildPhases, content : Contents \cup {NoContent},
                slot : Slots \cup {NoDoc}, found : Docs \cup {NoDoc}, live : Nat]]
      BY <2>2, <2>3, <2>5 DEF RequestType
    <2>9. UNCHANGED docOf /\ UNCHANGED ver
      BY <1>1
    <2> QED
      BY <1>2, <2>3, <2>4, <2>6, <2>7, <2>8, <2>9 DEF RequestType
  <1>4. StoreType' /\ IsFiniteSet(chunks') /\ BodyType(AllSteps)' /\ CountType'
    BY <1>1 DEF storeVars, counterVars, StoreType, BodyType, CountType
  <1>5. UNCHANGED <<chunks, body>>
    BY <1>1 DEF storeVars
  <1>6. Shrinks
    BY <1>5, StillShrinks
  <1> QED
    BY <1>2, <1>3, <1>4, <1>6

LEMMA RebuildRunTypes ==
    ASSUME RebuildTypes, TypeOK', NEW w \in Workers, NEW t \in Tasks, RebuildStep(w, t)
    PROVE  RebuildTypes' /\ Shrinks
  <1>a. UNCHANGED <<requestVars, scope, dropping>>
    BY DEF RebuildStep, StartRebuild, ReadMissing, Backfill, Sweep, SwitchModel, FinishRebuild
  <1>b. Phases \subseteq RebuildPhases /\ Steps \subseteq AllSteps
    BY DEF RebuildPhases, AllSteps
  <1>c. PipelineTypes(RebuildPhases, AllSteps) /\ scope' \in [Tasks -> Scopes]
    BY <1>a DEF RebuildTypes
  <1>d. RequestType(RebuildPhases)' /\ UNCHANGED docOf
    BY <1>a, <1>c DEF PipelineTypes, requestVars, columnVars, RequestType
  <1>e. SUFFICES (StoreType /\ IsFiniteSet(chunks) /\ BodyType(AllSteps) /\ CountType)' /\ Shrinks
    BY <1>c, <1>d DEF RebuildTypes, PipelineTypes
  <1>f. TypeOK /\ StoreType /\ IsFiniteSet(chunks) /\ RequestType(RebuildPhases)
        /\ BodyType(AllSteps) /\ CountType
    BY <1>c DEF PipelineTypes
  <1>g. body[w][t].at \in RebuildSteps => pc[w][t] \in InFlight
    BY <1>f DEF BodyType, RebuildSteps
  <1>h. body[w][t].rows \in SUBSET ChunkRows /\ IsFiniteSet(body[w][t].rows)
    BY <1>f DEF BodyType
  <1>i. Missing(t) \in SUBSET chunks /\ Missing(t) \in SUBSET ChunkRows /\ IsFiniteSet(Missing(t))
        /\ Cardinality(Missing(t)) \in Nat
    <2>1. Missing(t) \in SUBSET chunks
      BY DEF Missing
    <2> QED
      BY <1>f, <2>1, FS_Subset, FS_CardinalityType DEF StoreType
  <1>1. CASE StartRebuild(w, t)
    <2>1. SetState(w, t) /\ pc'[w][t] = "embedding" /\ UNCHANGED <<storeVars, body, counterVars>>
      BY <1>1, <1>f DEF StartRebuild, SetState, NextPoint, FirstState, TypeOK
    <2>2. BodyType(AllSteps)'
      <3>1. UNCHANGED body
        BY <2>1
      <3> QED
        BY <1>b, <1>c, <1>d, <2>1, <3>1, BodyMoves
    <2>3. Shrinks
      BY <2>1, StillShrinks DEF storeVars
    <2> QED
      BY <1>a, <1>f, <2>1, <2>2, <2>3 DEF storeVars, counterVars, StoreType, CountType
  <1>2. CASE ReadMissing(w, t)
    <2>1. /\ UNCHANGED <<pc, storeVars, embedCount>> /\ Step(w, t, "missing", Missing(t))
          /\ pc[w][t] \in InFlight
          /\ chunkCount' = [chunkCount EXCEPT ![t] = Cardinality(Missing(t))]
      BY <1>2 DEF ReadMissing, queueVars, InFlight
    <2>2. BodyType(AllSteps)' /\ Shrinks
      BY <1>d, <1>i, <2>1, RebuildBodyStep DEF RebuildSteps, storeVars
    <2> QED
      BY <1>a, <1>f, <1>i, <2>1, <2>2 DEF storeVars, StoreType, CountType
  <1>3. CASE Sweep(w, t)
    <2>1. /\ UNCHANGED <<pc, storeVars, counterVars>> /\ Step(w, t, "sweep", Missing(t))
          /\ pc[w][t] \in InFlight
      BY <1>3, <1>g DEF Sweep, queueVars, Is, RebuildSteps
    <2>2. BodyType(AllSteps)' /\ Shrinks
      BY <1>d, <1>i, <2>1, RebuildBodyStep DEF RebuildSteps, storeVars
    <2> QED
      BY <1>a, <1>f, <2>1, <2>2 DEF storeVars, counterVars, StoreType, CountType
  <1>4. CASE Backfill(w, t)
    <2>1. PICK batch \in SUBSET body[w][t].rows :
             /\ EmbedChunks(model[t], batch)
             /\ Step(w, t, body[w][t].at, body[w][t].rows \ batch)
             /\ embedCount' = [embedCount EXCEPT ![t] = @ + Cardinality(batch)]
      BY <1>4 DEF Backfill
    <2>2. UNCHANGED <<pc, chunkCount>> /\ body[w][t].at \in RebuildSteps
      BY <1>4 DEF Backfill, queueVars, Is, RebuildSteps
    <2>3. IsFiniteSet(batch) /\ Cardinality(batch) \in Nat
      BY <1>h, FS_Subset, FS_CardinalityType
    <2>4. body[w][t].rows \ batch \in SUBSET body[w][t].rows
      OBVIOUS
    <2>5. IsFiniteSet(body[w][t].rows \ batch) /\ body[w][t].rows \ batch \in SUBSET ChunkRows
      BY <1>h, <2>4, FS_Subset
    <2>6. UNCHANGED <<documents, slot, hash, live, chunks, blob, active>> /\ batch \subseteq chunks
          /\ embedded' = [embedded EXCEPT ![model[t]] = @ \cup batch]
      BY <2>1 DEF EmbedChunks
    <2>7. BodyType(AllSteps)' /\ Shrinks
      BY <1>d, <1>g, <2>1, <2>2, <2>4, <2>5, <2>6, RebuildBodyStep
    <2>8. StoreType'
      <3>1. embedded' \in [Models -> SUBSET chunks']
        BY <1>f, <2>6 DEF StoreType, RequestType
      <3> QED
        BY <1>f, <2>6, <3>1 DEF StoreType
    <2>9. CountType'
      <3>1. embedCount' \in [Tasks -> Nat]
        BY <1>f, <2>1, <2>3 DEF CountType
      <3> QED
        BY <1>a, <1>f, <2>2, <3>1 DEF CountType
    <2> QED
      BY <1>f, <2>6, <2>7, <2>8, <2>9
  <1>5. CASE SwitchModel(w, t)
    <2>1. /\ UNCHANGED <<pc, counterVars>> /\ Step(w, t, "switched", {}) /\ pc[w][t] \in InFlight
          /\ SetActive(model[t])
      BY <1>5, <1>g DEF SwitchModel, queueVars, Is, RebuildSteps
    <2>2. UNCHANGED chunks
      BY <2>1 DEF SetActive
    <2>3. BodyType(AllSteps)' /\ Shrinks
      BY <1>d, <2>1, <2>2, RebuildBodyStep, FS_EmptySet DEF RebuildSteps
    <2>4. StoreType'
      BY <1>f, <2>1 DEF SetActive, StoreType, RequestType
    <2> QED
      BY <1>a, <1>f, <2>1, <2>2, <2>3, <2>4 DEF counterVars, CountType
  <1>6. CASE FinishRebuild(w, t)
    <2>1. EndRun(w, t) /\ EndBody(w, t) /\ UNCHANGED <<storeVars, counterVars>>
      BY <1>6 DEF FinishRebuild, MarkDone
    <2>2. BodyType(AllSteps)'
      BY <1>b, <1>c, <1>d, <2>1, BodyEnds
    <2>3. body'[w][t] = NoBody /\ pc'[w][t] = "idle"
      BY <1>f, <2>1 DEF EndBody, EndRun, BodyType, TypeOK
    <2>4. \A v \in Workers, u \in Tasks : v # w \/ u # t => body'[v][u] = body[v][u]
      BY <1>f, <2>1 DEF EndBody, BodyType
    <2>5. UNCHANGED chunks
      BY <2>1 DEF storeVars
    <2>6. Shrinks
      BY <2>3, <2>4, <2>5 DEF Shrinks, NoBody, SameVersion
    <2> QED
      BY <1>a, <1>f, <2>1, <2>2, <2>6 DEF storeVars, counterVars, StoreType, CountType
  <1> QED
    BY <1>1, <1>2, <1>3, <1>4, <1>5, <1>6 DEF RebuildStep

LEMMA ModelChangeTypes ==
    ASSUME RebuildTypes, TypeOK', ModelChange
    PROVE  RebuildTypes' /\ Shrinks
  BY AdminTypes, RebuildRunTypes DEF ModelChange

RebuildInv == RebuildTypes /\ AttemptIsFencing /\ VersionInv

LEMMA RebuildInvInit == RebuildInit => RebuildInv
  <1> SUFFICES ASSUME RebuildInit PROVE RebuildInv
    OBVIOUS
  <1>1. PipelineInit /\ Phases \subseteq RebuildPhases /\ Steps \subseteq AllSteps
    BY DEF RebuildInit, RebuildPhases, AllSteps
  <1>2. RebuildTypes
    BY <1>1, TypesInit DEF RebuildInit, RebuildTypes, Scopes
  <1> QED
    BY <1>1, <1>2, VersionInit, FenceInit DEF RebuildInv, PipelineInit

LEMMA RebuildInvStep == RebuildInv /\ [RebuildNext]_rebuildVars => RebuildInv'
  <1> SUFFICES ASSUME RebuildInv, [RebuildNext]_rebuildVars PROVE RebuildInv'
    OBVIOUS
  <1>1. TypeOK /\ PipelineTypes(RebuildPhases, AllSteps)
        /\ Phases \subseteq RebuildPhases /\ Steps \subseteq AllSteps
    BY DEF RebuildInv, RebuildTypes, PipelineTypes, RebuildPhases, AllSteps
  <1>2. [QueueNext]_queueVars
    BY RebuildStepCases, PipelineQueueStep, ModelChangeQueueStep
  <1>3. TypeOK' /\ AttemptIsFencing'
    BY <1>1, <1>2, TypeStep, FenceStep DEF RebuildInv
  <1>4. ASSUME [PipelineNext]_pipelineVars
        PROVE  PipelineTypes(RebuildPhases, AllSteps)' /\ VersionInv'
    <2>1. PipelineTypes(RebuildPhases, AllSteps)'
      BY <1>1, <1>4, TypesStep
    <2> QED
      BY <1>1, <1>2, <1>4, <2>1, VersionStep, VersionShrinks, VersionInsert DEF RebuildInv
  <1>5. CASE ModelChange
    <2>1. RebuildTypes' /\ Shrinks
      BY <1>3, <1>5, ModelChangeTypes DEF RebuildInv
    <2>2. PipelineTypes(RebuildPhases, AllSteps)'
      BY <2>1 DEF RebuildTypes
    <2> QED
      BY <1>1, <1>2, <1>3, <2>1, <2>2, VersionShrinks DEF RebuildInv
  <1>6. CASE ~ModelChange
    <2>1. [PipelineNext]_pipelineVars /\ UNCHANGED scope
      BY <1>6 DEF RebuildNext, IngestStep, ModelChange, rebuildVars
    <2> QED
      BY <1>3, <1>4, <2>1 DEF RebuildInv, RebuildTypes
  <1> QED
    BY <1>5, <1>6

\* A model change keeps every column in its domain: it activates only models
\* that have a table, and no embedding it writes outlives its chunk.
THEOREM RebuildTypeCorrect == RebuildSpec => []RebuildTypeOK
  <1>1. RebuildInv => RebuildTypeOK
    BY DEF RebuildInv, RebuildTypes, PipelineTypes, StoreType, RequestType, BodyType,
           RebuildPhases, AllSteps, RebuildTypeOK
  <1> QED
    BY <1>1, RebuildInvInit, RebuildInvStep, PTL DEF RebuildSpec

\* A model change never mixes the chunks of two runs in a version either.
THEOREM RebuildNeverBlends == RebuildSpec => []NoBlend
  <1>1. RebuildInv => NoBlend
    BY DEF RebuildInv, VersionInv
  <1> QED
    BY <1>1, RebuildInvInit, RebuildInvStep, PTL DEF RebuildSpec

-----------------------------------------------------------------------------
(* Whose content a document holds.  Requests only go forward, so that a    *)
(* document_id keeps its slot from the moment it may be seen and a job its *)
(* document; what a request brought is remembered by the request.          *)

\* Request t will not insert a document or name one any more.
Spent(t) == req[t].phase \in {"enqueueing", "over", "lost"}

Begun(t) == req[t].phase # "none"

\* Content c is what somebody uploaded under key k, or damaged.
Given(k, c) ==
    c \in Uploads =>
        \E t \in Tasks : /\ Begun(t)
                         /\ req[t].slot \in Slots /\ KeyOf[req[t].slot] = k
                         /\ req[t].content = c

RequestsMove ==
    /\ \A t \in Tasks : Begun(t) =>
          Begun(t)' /\ req'[t].slot = req[t].slot /\ req'[t].content = req[t].content
    /\ \A t \in Tasks : Spent(t) => Spent(t)' /\ slot'[t] = slot[t] /\ docOf'[t] = docOf[t]
    /\ \A d \in documents' : d \in documents \/ Spent(d)'
    /\ \A t \in Tasks : req'[t].found \in Docs =>
          req'[t].found = req[t].found \/ req'[t].found \in documents
    /\ \A t \in Tasks : docOf'[t] \in Docs =>
          docOf'[t] = docOf[t] \/ (Spent(t)' /\ docOf'[t] \in {t, req[t].found})

LEMMA UploadMoves ==
    ASSUME RequestType(RebuildPhases), StoreType, NEW t \in Tasks,
           UploadStep(t) \/ UploadFault(t)
    PROVE  RequestsMove
  <1> USE DEF Spent, Begun, RequestsMove
  <1>1. ASSUME NEW phase, Goto(t, phase)
        PROVE  /\ \A d \in Tasks \ {t} : req'[d] = req[d]
               /\ req'[t].phase = phase /\ req'[t].slot = req[t].slot
               /\ req'[t].content = req[t].content /\ req'[t].found = req[t].found
    BY <1>1 DEF Goto, RequestType
  <1>2. CASE UploadEnqueue(t) \/ UploadRaises(t)
    <2>1. Goto(t, "over") /\ UNCHANGED <<documents, slot, docOf>>
      BY <1>2 DEF UploadEnqueue, UploadRaises, storeVars, columnVars
    <2> QED
      BY <1>1, <2>1
  <1>3. CASE UploadSkip(t)
    <2>1. Goto(t, "over") /\ At(t, "skipping") /\ UNCHANGED <<documents, slot>>
      BY <1>3 DEF UploadSkip, storeVars
    <2>2. docOf' = docOf \/ docOf' = [docOf EXCEPT ![t] = req[t].found]
      BY <1>3 DEF UploadSkip
    <2>3. \A d \in Tasks : docOf'[d] = docOf[d] \/ (d = t /\ docOf'[d] = req[t].found)
      BY <2>2 DEF RequestType
    <2> QED
      BY <1>1, <2>1, <2>3 DEF At
  <1>4. CASE UploadFault(t)
    <2>1. Goto(t, "lost") /\ UNCHANGED <<documents, slot, docOf>>
      BY <1>4 DEF UploadFault, storeVars, columnVars
    <2> QED
      BY <1>1, <2>1
  <1>5. CASE UploadPut(t) \/ UploadTruncate(t) \/ UploadWrite(t)
    <2>1. PICK phase \in {"writing", "stored"} : Goto(t, phase)
      BY <1>5, PutEffect
    <2>2. req[t].phase \in {"storing", "writing"} /\ UNCHANGED <<documents, slot, docOf>>
      BY <1>5, PutEffect DEF columnVars
    <2> QED
      BY <1>1, <2>1, <2>2
  <1>6. CASE UploadLookup(t)
    <2>1. At(t, "stored") /\ UNCHANGED <<documents, slot, docOf>>
      BY <1>6 DEF UploadLookup, storeVars, columnVars
    <2>2. PICK d \in documents \cup {NoDoc}, n \in Nat :
             req' = [req EXCEPT ![t].phase = "upserting", ![t].found = d, ![t].live = n]
      BY <1>6 DEF UploadLookup, DocumentsAt, StoreType
    <2>3. /\ \A u \in Tasks \ {t} : req'[u] = req[u]
          /\ req'[t].phase = "upserting" /\ req'[t].slot = req[t].slot
          /\ req'[t].content = req[t].content
          /\ req'[t].found = d
      BY <2>2 DEF RequestType
    <2> QED
      BY <2>1, <2>3, PipelineAssumption DEF At
  <1>7. CASE UploadUpsert(t)
    <2>1. Goto(t, "enqueueing") /\ At(t, "upserting")
      BY <1>7 DEF UploadUpsert
    <2>2. \/ UNCHANGED <<documents, slot>>
          \/ documents' = documents \cup {t} /\ slot' = [slot EXCEPT ![t] = req[t].slot]
      BY <1>7 DEF UploadUpsert, InsertDocument, UpdateDocument
    <2>3. \A d \in Tasks \ {t} : slot'[d] = slot[d]
      BY <2>2, PipelineAssumption DEF StoreType
    <2>4. /\ \A d \in Tasks \ {t} : docOf'[d] = docOf[d]
          /\ docOf'[t] \in {t, req[t].found}
      BY <1>7 DEF UploadUpsert, RequestType
    <2> QED
      BY <1>1, <2>1, <2>2, <2>3, <2>4 DEF At
  <1> QED
    BY <1>2, <1>3, <1>4, <1>5, <1>6, <1>7 DEF UploadStep

LEMMA RequestsStep ==
    ASSUME RequestType(RebuildPhases), StoreType, [RebuildNext]_rebuildVars
    PROVE  RequestsMove
  <1>1. ASSUME UNCHANGED <<req, docOf, slot>>, documents' \subseteq documents PROVE RequestsMove
    BY <1>1 DEF RequestsMove, Spent, Begun
  <1>2. ASSUME NEW t \in Tasks, NEW s \in Slots, NEW c \in Uploads, UploadRead(t, s, c)
        PROVE  RequestsMove
    <2>1. At(t, "none") /\ UNCHANGED <<documents, slot, docOf>>
      BY <1>2 DEF UploadRead, storeVars
    <2>2. /\ \A d \in Tasks \ {t} : req'[d] = req[d]
          /\ req'[t].found = NoDoc \/ req'[t].found \in documents
      BY <1>2 DEF UploadRead, DocumentsAt, RequestType
    <2> QED
      BY <2>1, <2>2, PipelineAssumption DEF RequestsMove, Spent, Begun, At
  <1>3. ASSUME NEW t \in Tasks, LeaseLapses(t) \/ LeaseOverrun(t) PROVE RequestsMove
    BY <1>1, <1>3 DEF LeaseLapses, LeaseOverrun, requestVars, columnVars, storeVars
  <1>4. ASSUME NEW w \in Workers, ClaimBatch(w) \/ WorkerCrash(w) \/ WorkerRestart(w)
        PROVE  RequestsMove
    BY <1>1, <1>4 DEF ClaimBatch, WorkerCrash, WorkerRestart, requestVars, columnVars, storeVars
  <1>5. ASSUME NEW d \in Docs, Remove(d) \/ RemoveBytes(d) \/ RemoveBytesFails(d)
        PROVE  RequestsMove
    BY <1>1, <1>5 DEF Remove, RemoveBytes, RemoveBytesFails, DeleteDocument, DropBytes,
                      requestVars, columnVars, storeVars
  <1>6. ASSUME NEW w \in Workers, NEW t \in Tasks, BodyStep(w, t) \/ RunVanishes(w, t)
        PROVE  RequestsMove
    <2>1. CASE InsertNewChunks(w, t) \/ EmbedNext(w, t) \/ Flip(w, t)
      BY <1>1, <2>1 DEF InsertNewChunks, EmbedNext, Flip, ReplaceVersion, EmbedChunks, FlipLive,
                        requestVars, columnVars
    <2>2. CASE StartExtracting(w, t) \/ StartChunking(w, t) \/ StartEmbedding(w, t)
               \/ SkipRemoved(w, t) \/ Finish(w, t) \/ RunVanishes(w, t)
      BY <1>1, <2>2 DEF StartExtracting, StartChunking, StartEmbedding, SkipRemoved, Finish,
                        RunVanishes, requestVars, columnVars, storeVars
    <2>3. CASE Extract(w, t) \/ DeleteOldChunks(w, t) \/ ListChunks(w, t)
      BY <1>1, <2>3 DEF Extract, DeleteOldChunks, ListChunks, requestVars, columnVars, storeVars
    <2>4. CASE \E retryable \in BOOLEAN : RunFails(w, t, retryable)
      BY <1>1, <2>4 DEF RunFails, requestVars, columnVars, storeVars
    <2> QED
      BY <1>6, <2>1, <2>2, <2>3, <2>4 DEF BodyStep
  <1>7. CASE ModelChange
    <2>1. ASSUME NEW t \in Tasks, Goto(t, "over"), UNCHANGED <<documents, slot, docOf>>
          PROVE  RequestsMove
      <3>1. /\ \A d \in Tasks \ {t} : req'[d] = req[d]
            /\ req'[t].phase = "over" /\ req'[t].slot = req[t].slot
            /\ req'[t].content = req[t].content /\ req'[t].found = req[t].found
        BY <2>1 DEF Goto, RequestType
      <3> QED
        BY <2>1, <3>1 DEF RequestsMove, Spent, Begun
    <2>2. ASSUME NEW t \in Tasks, NEW m, NEW a, AdminCheck(t, m, a) PROVE RequestsMove
      <3>1. /\ \A d \in Tasks \ {t} : req'[d] = req[d]
            /\ req'[t].found = req[t].found
        BY <2>2 DEF AdminCheck, Goto, RequestType
      <3>2. At(t, "none") /\ UNCHANGED <<documents, slot, docOf>>
        BY <2>2 DEF AdminCheck, storeVars
      <3> QED
        BY <3>1, <3>2 DEF RequestsMove, Spent, Begun, At
    <2>3. ASSUME NEW t \in Tasks, AdminEnqueue(t) PROVE RequestsMove
      BY <2>1, <2>3 DEF AdminEnqueue, columnVars, storeVars
    <2>4. ASSUME NEW w \in Workers, NEW t \in Tasks, RebuildStep(w, t) PROVE RequestsMove
      <3>1. UNCHANGED <<documents, slot>>
        BY <1>7, ModelChangeStoreStep
      <3>2. UNCHANGED <<req, docOf>>
        BY <2>4 DEF RebuildStep, StartRebuild, ReadMissing, Backfill, Sweep, SwitchModel,
                    FinishRebuild, requestVars, columnVars
      <3> QED
        BY <1>1, <3>1, <3>2
    <2> QED
      BY <1>7, <2>2, <2>3, <2>4 DEF ModelChange
  <1>8. CASE UNCHANGED pipelineVars
    BY <1>1, <1>8 DEF pipelineVars, requestVars, columnVars, storeVars
  <1> QED
    BY <1>2, <1>3, <1>4, <1>5, <1>6, <1>7, <1>8, UploadMoves, RebuildStepCases
    DEF PipelineNext

\* Steps of a run that have read the bytes.
Loaded == Steps \ {"start"}

\* Bytes come from requests, a run's content from storage, chunks from runs.
ContentMoves ==
    /\ \A s \in Slots : \/ blob'[KeyOf[s]] \in {blob[KeyOf[s]], NoContent}
                        \/ Given(KeyOf[s], blob'[KeyOf[s]])
    /\ \A w \in Workers, t \in Tasks : body'[w][t].at \in Loaded =>
          \/ body[w][t].at \in Loaded /\ body'[w][t].content = body[w][t].content
          \/ /\ docOf[t] \in Docs
             /\ body'[w][t].content = blob[KeyOf[slot[docOf[t]]]]
             /\ body'[w][t].content # NoContent
    /\ \A c \in chunks' : c \notin chunks =>
          \E w \in Workers, t \in Tasks :
             /\ body[w][t].at = "deleting"
             /\ c.doc = docOf[t]
             /\ c.content = body[w][t].content

\* A run that goes on without reading or inserting.
LEMMA RunMoves ==
    ASSUME UNCHANGED blob, chunks' \subseteq chunks,
           \A w \in Workers, t \in Tasks : body'[w][t].at \in Loaded =>
              body[w][t].at \in Loaded /\ body'[w][t].content = body[w][t].content
    PROVE  ContentMoves
  BY DEF ContentMoves

LEMMA BodyContentMoves ==
    ASSUME BodyType(AllSteps), NEW w \in Workers, NEW t \in Tasks,
           BodyStep(w, t) \/ RunVanishes(w, t)
    PROVE  ContentMoves
  <1>1. ASSUME UNCHANGED blob, chunks' \subseteq chunks, NEW at \in AllSteps, NEW rows,
               Step(w, t, at, rows), at \in Loaded => body[w][t].at \in Loaded
        PROVE  ContentMoves
    <2>1. /\ \A v \in Workers, u \in Tasks : v # w \/ u # t => body'[v][u] = body[v][u]
          /\ body'[w][t].at = at /\ body'[w][t].content = body[w][t].content
      BY <1>1 DEF Step, BodyType
    <2>2. \A v \in Workers, u \in Tasks : body'[v][u].at \in Loaded =>
              body[v][u].at \in Loaded /\ body'[v][u].content = body[v][u].content
      BY <1>1, <2>1
    <2> QED
      BY <1>1, <2>2, RunMoves
  <1>2. CASE StartExtracting(w, t) \/ StartChunking(w, t) \/ StartEmbedding(w, t)
    BY <1>2, RunMoves DEF StartExtracting, StartChunking, StartEmbedding, storeVars
  <1>3. CASE SkipRemoved(w, t) \/ Finish(w, t) \/ RunVanishes(w, t)
             \/ \E retryable \in BOOLEAN : RunFails(w, t, retryable)
    <2>1. EndBody(w, t) /\ UNCHANGED <<blob, chunks>>
      BY <1>3 DEF SkipRemoved, Finish, RunVanishes, RunFails, storeVars
    <2>2. \A v \in Workers, u \in Tasks :
             body'[v][u] = body[v][u] \/ body'[v][u].at = "start"
      BY <2>1 DEF EndBody, NoBody, BodyType
    <2>3. \A v \in Workers, u \in Tasks : body'[v][u].at \in Loaded =>
              body[v][u].at \in Loaded /\ body'[v][u].content = body[v][u].content
      BY <2>2 DEF Loaded
    <2> QED
      BY <2>1, <2>3, RunMoves
  <1>4. CASE Extract(w, t)
    <2> DEFINE bytes == blob[KeyOf[slot[docOf[t]]]]
    <2>1. /\ bytes # NoContent /\ UNCHANGED <<blob, chunks>> /\ docOf[t] \in Docs
          /\ body' = [body EXCEPT ![w][t].at = "loaded", ![w][t].content = bytes]
      BY <1>4 DEF Extract, storeVars, BodyType
    <2> HIDE DEF bytes
    <2>2. /\ \A v \in Workers, u \in Tasks : v # w \/ u # t => body'[v][u] = body[v][u]
          /\ body'[w][t].content = bytes
      BY <2>1 DEF BodyType
    <2>3. \A v \in Workers, u \in Tasks : body'[v][u].at \in Loaded =>
             \/ body[v][u].at \in Loaded /\ body'[v][u].content = body[v][u].content
             \/ docOf[u] \in Docs /\ body'[v][u].content = blob[KeyOf[slot[docOf[u]]]]
                /\ body'[v][u].content # NoContent
      BY <2>1, <2>2 DEF bytes
    <2> QED
      BY <2>1, <2>3 DEF ContentMoves
  <1>5. CASE DeleteOldChunks(w, t)
    BY <1>1, <1>5 DEF DeleteOldChunks, Is, Loaded, Steps, AllSteps, storeVars
  <1>6. CASE InsertNewChunks(w, t)
    <2> DEFINE new == NewChunks(docOf[t], ver[t], body[w][t].content, <<t, snap[w][t]>>)
    <2>1. body[w][t].at = "deleting" /\ Step(w, t, "chunked", {})
          /\ ReplaceVersion(docOf[t], body[w][t].rows, new)
      BY <1>6 DEF InsertNewChunks, Is
    <2>2. \A c \in new : c.doc = docOf[t] /\ c.content = body[w][t].content
      BY DEF NewChunks
    <2> HIDE DEF new
    <2>3. chunks' \subseteq chunks \cup new /\ UNCHANGED blob
      BY <2>1 DEF ReplaceVersion
    <2>4. /\ \A v \in Workers, u \in Tasks : v # w \/ u # t => body'[v][u] = body[v][u]
          /\ body'[w][t].content = body[w][t].content
      BY <2>1 DEF Step, BodyType
    <2>5. \A v \in Workers, u \in Tasks : body'[v][u].at \in Loaded =>
              body[v][u].at \in Loaded /\ body'[v][u].content = body[v][u].content
      BY <2>1, <2>4 DEF Loaded, Steps
    <2> QED
      BY <2>1, <2>2, <2>3, <2>5 DEF ContentMoves
  <1>7. CASE ListChunks(w, t)
    BY <1>1, <1>7 DEF ListChunks, Is, Loaded, Steps, AllSteps, storeVars
  <1>8. CASE EmbedNext(w, t)
    <2>1. PICK rows : Step(w, t, "listed", rows) /\ UNCHANGED <<blob, chunks>>
      BY <1>8 DEF EmbedNext, EmbedChunks
    <2> QED
      BY <1>1, <1>8, <2>1 DEF EmbedNext, Is, Loaded, Steps, AllSteps
  <1>9. CASE Flip(w, t)
    <2>1. Step(w, t, "flipped", {}) /\ UNCHANGED blob /\ chunks' \subseteq chunks
      BY <1>9 DEF Flip, FlipLive
    <2> QED
      BY <1>1, <1>9, <2>1 DEF Flip, Is, Loaded, Steps, AllSteps
  <1> QED
    BY <1>2, <1>3, <1>4, <1>5, <1>6, <1>7, <1>8, <1>9 DEF BodyStep

LEMMA ContentStep ==
    ASSUME StoreType, RequestType(RebuildPhases), BodyType(AllSteps),
           [RebuildNext]_rebuildVars
    PROVE  ContentMoves
  <1>1. ASSUME UNCHANGED <<blob, chunks, body>> PROVE ContentMoves
    BY <1>1, RunMoves
  <1>2. ASSUME NEW t \in Tasks, UploadStep(t) \/ UploadFault(t) PROVE ContentMoves
    <2>1. CASE UploadPut(t) \/ UploadTruncate(t) \/ UploadWrite(t)
      <3>1. req[t].phase \in {"storing", "writing"} /\ UNCHANGED <<chunks, body>>
        BY <2>1, PutEffect
      <3>2. PICK bytes : /\ blob' = [blob EXCEPT ![KeyOf[req[t].slot]] = bytes]
                         /\ bytes \in Uploads => bytes = req[t].content
        BY <2>1, PutEffect
      <3>3. req[t].slot \in Slots /\ Begun(t)
        BY <3>1 DEF RequestType, Uploading, Begun
      <3>4. Given(KeyOf[req[t].slot], bytes)
        BY <3>2, <3>3 DEF Given
      <3>5. \A s \in Slots : blob'[KeyOf[s]] = IF KeyOf[s] = KeyOf[req[t].slot]
                                               THEN bytes ELSE blob[KeyOf[s]]
        BY <3>2, StoreAssumption DEF StoreType
      <3>6. \A s \in Slots : blob'[KeyOf[s]] = blob[KeyOf[s]] \/ Given(KeyOf[s], blob'[KeyOf[s]])
        BY <3>4, <3>5
      <3> QED
        BY <3>1, <3>6 DEF ContentMoves
    <2>2. CASE UploadUpsert(t)
      BY <1>1, <2>2 DEF UploadUpsert, InsertDocument, UpdateDocument
    <2>3. CASE UploadSkip(t) \/ UploadLookup(t) \/ UploadEnqueue(t) \/ UploadRaises(t)
               \/ UploadFault(t)
      BY <1>1, <2>3 DEF UploadSkip, UploadLookup, UploadEnqueue, UploadRaises, UploadFault, storeVars
    <2> QED
      BY <1>2, <2>1, <2>2, <2>3 DEF UploadStep
  <1>3. ASSUME NEW t \in Tasks, NEW s \in Slots, NEW c \in Uploads, UploadRead(t, s, c)
        PROVE  ContentMoves
    BY <1>1, <1>3 DEF UploadRead, storeVars
  <1>4. ASSUME NEW t \in Tasks, LeaseLapses(t) \/ LeaseOverrun(t) PROVE ContentMoves
    BY <1>1, <1>4 DEF LeaseLapses, LeaseOverrun, storeVars
  <1>5. ASSUME NEW w \in Workers, ClaimBatch(w) \/ WorkerRestart(w) PROVE ContentMoves
    BY <1>1, <1>5 DEF ClaimBatch, WorkerRestart, storeVars
  <1>6. ASSUME NEW w \in Workers, WorkerCrash(w) PROVE ContentMoves
    <2>1. \A v \in Workers, u \in Tasks : body'[v][u] = IF v = w THEN NoBody ELSE body[v][u]
      BY <1>6 DEF WorkerCrash, BodyType
    <2>2. \A v \in Workers, u \in Tasks : body'[v][u].at \in Loaded =>
              body[v][u].at \in Loaded /\ body'[v][u].content = body[v][u].content
      BY <2>1 DEF Loaded, NoBody
    <2> QED
      BY <1>6, <2>2, RunMoves DEF WorkerCrash, storeVars
  <1>7. ASSUME NEW d \in Docs, Remove(d) \/ RemoveBytesFails(d) PROVE ContentMoves
    BY <1>7, RunMoves DEF Remove, RemoveBytesFails, DeleteDocument, storeVars
  <1>8. ASSUME NEW d \in Docs, RemoveBytes(d) PROVE ContentMoves
    <2>1. \A s \in Slots : blob'[KeyOf[s]] \in {blob[KeyOf[s]], NoContent}
      BY <1>8, StoreAssumption DEF RemoveBytes, DropBytes, StoreType
    <2>2. UNCHANGED <<chunks, body>>
      BY <1>8 DEF RemoveBytes, DropBytes
    <2> QED
      BY <2>1, <2>2 DEF ContentMoves
  <1>9. CASE ModelChange
    <2>1. ASSUME NEW t \in Tasks, NEW m, NEW a, AdminCheck(t, m, a) PROVE ContentMoves
      BY <1>1, <2>1 DEF AdminCheck, storeVars
    <2>2. ASSUME NEW t \in Tasks, AdminEnqueue(t) PROVE ContentMoves
      BY <1>1, <2>2 DEF AdminEnqueue, storeVars
    <2>3. ASSUME NEW w \in Workers, NEW t \in Tasks, RebuildStep(w, t) PROVE ContentMoves
      <3>1. UNCHANGED <<blob, chunks>>
        BY <2>3 DEF RebuildStep, StartRebuild, ReadMissing, Backfill, Sweep, SwitchModel,
                    FinishRebuild, EmbedChunks, SetActive, storeVars
      <3>2. ASSUME NEW at, NEW rows, Step(w, t, at, rows), at \notin Loaded PROVE ContentMoves
        <4>1. /\ \A v \in Workers, u \in Tasks : v # w \/ u # t => body'[v][u] = body[v][u]
              /\ body'[w][t].at = at
          BY <3>2 DEF Step, BodyType
        <4>2. \A v \in Workers, u \in Tasks : body'[v][u].at \in Loaded =>
                  body[v][u].at \in Loaded /\ body'[v][u].content = body[v][u].content
          BY <3>2, <4>1
        <4> QED
          BY <3>1, <4>2, RunMoves
      <3>3. CASE StartRebuild(w, t)
        BY <1>1, <3>1, <3>3 DEF StartRebuild
      <3>4. CASE ReadMissing(w, t) \/ Sweep(w, t) \/ SwitchModel(w, t)
        BY <3>2, <3>4 DEF ReadMissing, Sweep, SwitchModel, Loaded, Steps
      <3>5. CASE Backfill(w, t)
        BY <3>2, <3>5 DEF Backfill, Is, Loaded, Steps
      <3>6. CASE FinishRebuild(w, t)
        <4>1. \A v \in Workers, u \in Tasks :
                 body'[v][u] = body[v][u] \/ body'[v][u].at = "start"
          BY <3>6 DEF FinishRebuild, EndBody, NoBody, BodyType
        <4>2. \A v \in Workers, u \in Tasks : body'[v][u].at \in Loaded =>
                  body[v][u].at \in Loaded /\ body'[v][u].content = body[v][u].content
          BY <4>1 DEF Loaded
        <4> QED
          BY <3>1, <4>2, RunMoves
      <3> QED
        BY <2>3, <3>3, <3>4, <3>5, <3>6 DEF RebuildStep
    <2> QED
      BY <1>9, <2>1, <2>2, <2>3 DEF ModelChange
  <1>10. CASE UNCHANGED pipelineVars
    BY <1>1, <1>10 DEF pipelineVars, storeVars
  <1> QED
    BY <1>2, <1>3, <1>4, <1>5, <1>6, <1>7, <1>8, <1>9, <1>10, BodyContentMoves, RebuildStepCases
    DEF PipelineNext

\* Documents that can be seen or named have their slot for good, and what is
\* on its way into them was uploaded to that slot.
OwnContent ==
    /\ \A d \in documents : Spent(d)
    /\ \A t \in Tasks : docOf[t] \in Docs => Spent(t) /\ Spent(docOf[t])
    /\ \A t \in Tasks : req[t].found \in Docs => Spent(req[t].found)
    /\ \A s \in Slots : Given(KeyOf[s], blob[KeyOf[s]])
    /\ \A w \in Workers, t \in Tasks : body[w][t].at \in Loaded =>
          Given(KeyOf[slot[docOf[t]]], body[w][t].content)
    /\ \A c \in chunks : Spent(c.doc) /\ Given(KeyOf[slot[c.doc]], c.content)

LEMMA OwnContentStep ==
    ASSUME RebuildInv, OwnContent, [RebuildNext]_rebuildVars
    PROVE  OwnContent'
  <1>1. StoreType /\ RequestType(RebuildPhases) /\ BodyType(AllSteps) /\ Docs = Tasks
    BY PipelineAssumption DEF RebuildInv, RebuildTypes, PipelineTypes
  <1>2. RequestsMove /\ ContentMoves
    BY <1>1, RequestsStep, ContentStep
  <1> DEFINE GivenNext(k, c) ==
                 c \in Uploads =>
                     \E u \in Tasks : /\ req'[u].phase # "none"
                                      /\ req'[u].slot \in Slots /\ KeyOf[req'[u].slot] = k
                                      /\ req'[u].content = c
             SpentNext(d) == req'[d].phase \in {"enqueueing", "over", "lost"}
  <1>3. ASSUME NEW k, NEW c, Given(k, c) PROVE GivenNext(k, c)
    BY <1>2, <1>3 DEF RequestsMove, Given, Begun
  <1>4. ASSUME NEW d \in Docs, Spent(d) PROVE SpentNext(d) /\ slot'[d] = slot[d]
    BY <1>1, <1>2, <1>4 DEF RequestsMove, Spent
  <1>5. \A d \in documents' : SpentNext(d)
    BY <1>1, <1>2, <1>4 DEF RequestsMove, OwnContent, StoreType, Spent
  <1>6. \A t \in Tasks : docOf'[t] \in Docs => SpentNext(t) /\ SpentNext(docOf'[t])
    <2> SUFFICES ASSUME NEW t \in Tasks, docOf'[t] \in Docs
                 PROVE  SpentNext(t) /\ SpentNext(docOf'[t])
      OBVIOUS
    <2>1. CASE docOf'[t] = docOf[t]
      BY <1>1, <1>4, <2>1 DEF OwnContent, Spent
    <2>2. CASE docOf'[t] # docOf[t]
      BY <1>1, <1>2, <1>4, <2>2 DEF RequestsMove, OwnContent, Spent
    <2> QED
      BY <2>1, <2>2
  <1>7. \A t \in Tasks : req'[t].found \in Docs => SpentNext(req'[t].found)
    BY <1>1, <1>2, <1>4 DEF RequestsMove, OwnContent, Spent
  <1>8. \A s \in Slots : GivenNext(KeyOf[s], blob'[KeyOf[s]])
    <2>1. NoContent \notin Uploads
      BY StoreAssumption
    <2>2. \A s \in Slots : Given(KeyOf[s], blob'[KeyOf[s]])
      BY <1>2, <2>1 DEF ContentMoves, OwnContent, Given
    <2> QED
      BY <1>3, <2>2
  <1>9. \A w \in Workers, t \in Tasks : body'[w][t].at \in Loaded =>
           GivenNext(KeyOf[slot'[docOf'[t]]], body'[w][t].content)
    <2> SUFFICES ASSUME NEW w \in Workers, NEW t \in Tasks, body'[w][t].at \in Loaded
                 PROVE  GivenNext(KeyOf[slot'[docOf'[t]]], body'[w][t].content)
      OBVIOUS
    <2>1. docOf[t] \in Docs
      BY <1>1, <1>2 DEF ContentMoves, BodyType, Loaded
    <2>2. Spent(t) /\ Spent(docOf[t])
      BY <2>1 DEF OwnContent
    <2>3. docOf'[t] = docOf[t] /\ slot'[docOf[t]] = slot[docOf[t]]
      BY <1>1, <1>2, <2>1, <2>2 DEF RequestsMove
    <2>4. Given(KeyOf[slot[docOf[t]]], body'[w][t].content)
      BY <1>1, <1>2, <2>1 DEF ContentMoves, OwnContent, StoreType
    <2> QED
      BY <1>3, <2>3, <2>4
  <1>10. \A c \in chunks' : SpentNext(c.doc) /\ GivenNext(KeyOf[slot'[c.doc]], c.content)
    <2> SUFFICES ASSUME NEW c \in chunks' PROVE SpentNext(c.doc) /\ GivenNext(KeyOf[slot'[c.doc]], c.content)
      OBVIOUS
    <2>1. c.doc \in Docs /\ Spent(c.doc) /\ Given(KeyOf[slot[c.doc]], c.content)
      <3>1. CASE c \in chunks
        BY <1>1, <3>1 DEF StoreType, ChunkRows, OwnContent
      <3>2. CASE c \notin chunks
        <4>1. PICK w \in Workers, t \in Tasks : /\ body[w][t].at = "deleting"
                                                /\ c.doc = docOf[t]
                                                /\ c.content = body[w][t].content
          BY <1>2, <3>2 DEF ContentMoves
        <4>2. body[w][t].at \in Loaded
          BY <4>1 DEF Loaded, Steps
        <4> QED
          BY <1>1, <4>1, <4>2 DEF OwnContent, BodyType, Loaded
      <3> QED
        BY <3>1, <3>2
    <2> QED
      BY <1>3, <1>4, <2>1
  <1> QED
    BY <1>5, <1>6, <1>7, <1>8, <1>9, <1>10 DEF OwnContent, Spent, Given, Begun

\* What a document holds was uploaded under its storage key or is damaged,
\* whatever overlaps: puts that tear each other's files, removals, new uploads
\* of a removed slot, and model changes too.
THEOREM ContentKeepsItsKey == RebuildSpec => []ContentStaysUnderKey
  <1>1. RebuildInit => OwnContent
    <2>1. NoContent \notin Uploads
      BY StoreAssumption
    <2> QED
      BY <2>1, PipelineAssumption, StoreAssumption
      DEF RebuildInit, PipelineInit, StoreInit, NoRequest, NoBody, Loaded, OwnContent, Given
  <1>2. RebuildInv /\ OwnContent /\ [RebuildNext]_rebuildVars => (RebuildInv /\ OwnContent)'
    BY OwnContentStep, RebuildInvStep
  <1>3. OwnContent => ContentStaysUnderKey
    BY DEF OwnContent, Given, ContentStaysUnderKey
  <1> QED
    BY <1>1, <1>2, <1>3, RebuildInvInit, PTL DEF RebuildSpec

-----------------------------------------------------------------------------
(* The storage deletes of removals, for callers that take turns: a slot     *)
(* whose bytes are still to be deleted has no document and no upload.      *)

Landing == {"storing", "writing", "stored", "upserting"}

DropsInTurn ==
    /\ \A d \in documents : Spent(d)
    /\ \A d \in dropping :
          /\ Spent(d)
          /\ \A e \in documents : slot[e] # slot[d]
          /\ \A t \in Tasks : req[t].phase \in Landing => req[t].slot # slot[d]

\* A step at which no upload begins and no document comes.
LEMMA DropsStay ==
    ASSUME DropsInTurn, CountType, StoreType,
           UNCHANGED slot, documents' \subseteq documents, dropping' \subseteq dropping,
           \A t \in Tasks : Spent(t) => Spent(t)',
           \A t \in Tasks : req'[t].phase \in Landing =>
              req[t].phase \in Landing /\ req'[t].slot = req[t].slot
    PROVE  DropsInTurn'
  <1>1. \A d \in Docs : Spent(d) => Spent(d)'
    BY PipelineAssumption
  <1>2. \A d \in documents' : Spent(d)'
    BY <1>1 DEF DropsInTurn, StoreType
  <1>3. \A d \in dropping' :
          /\ Spent(d)'
          /\ \A e \in documents' : slot'[e] # slot'[d]
          /\ \A t \in Tasks : req'[t].phase \in Landing => req'[t].slot # slot'[d]
    BY <1>1 DEF DropsInTurn, CountType
  <1> QED
    BY <1>2, <1>3 DEF DropsInTurn

LEMMA UploadDropsInTurn ==
    ASSUME DropsInTurn, CountType, StoreType, RequestType(RebuildPhases),
           NEW t \in Tasks, UploadStep(t) \/ UploadFault(t)
    PROVE  DropsInTurn'
  <1>1. ASSUME NEW phase, Goto(t, phase)
        PROVE  /\ \A u \in Tasks \ {t} : req'[u] = req[u]
               /\ req'[t].phase = phase /\ req'[t].slot = req[t].slot
    BY <1>1 DEF Goto, RequestType
  <1>2. UNCHANGED dropping
    BY DEF UploadStep, UploadSkip, UploadPut, UploadTruncate, UploadWrite, UploadLookup, UploadUpsert,
           UploadEnqueue, UploadRaises, UploadFault
  <1>3. CASE UploadSkip(t) \/ UploadEnqueue(t) \/ UploadRaises(t) \/ UploadFault(t)
    <2>1. PICK phase \in {"over", "lost"} : Goto(t, phase)
      BY <1>3 DEF UploadSkip, UploadEnqueue, UploadRaises, UploadFault
    <2>2. UNCHANGED <<documents, slot>>
      BY <1>3 DEF UploadSkip, UploadEnqueue, UploadRaises, UploadFault, storeVars
    <2>3. /\ \A u \in Tasks \ {t} : req'[u] = req[u]
          /\ req'[t].phase \in {"over", "lost"} /\ req'[t].phase \notin Landing
      BY <1>1, <2>1 DEF Landing
    <2> QED
      BY <1>2, <2>2, <2>3, DropsStay DEF Spent
  <1>4. CASE UploadLookup(t)
    <2>1. At(t, "stored") /\ UNCHANGED <<documents, slot>>
      BY <1>4 DEF UploadLookup, storeVars
    <2>2. PICK d, n : req' = [req EXCEPT ![t].phase = "upserting", ![t].found = d, ![t].live = n]
      BY <1>4 DEF UploadLookup
    <2>3. /\ \A u \in Tasks \ {t} : req'[u] = req[u]
          /\ req'[t].phase = "upserting" /\ req'[t].slot = req[t].slot
      BY <2>2 DEF RequestType
    <2> QED
      BY <1>2, <2>1, <2>3, DropsStay DEF Spent, At, Landing
  <1>5. CASE UploadPut(t) \/ UploadTruncate(t) \/ UploadWrite(t)
    <2>1. PICK phase \in {"writing", "stored"} : Goto(t, phase)
      BY <1>5, PutEffect
    <2>2. req[t].phase \in {"storing", "writing"} /\ UNCHANGED <<documents, slot>>
      BY <1>5, PutEffect
    <2>3. /\ \A u \in Tasks \ {t} : req'[u] = req[u]
          /\ req'[t].phase \in Landing /\ req'[t].slot = req[t].slot
      BY <1>1, <2>1 DEF Landing
    <2> QED
      BY <1>2, <2>2, <2>3, DropsStay DEF Spent, Landing
  <1>6. CASE UploadUpsert(t)
    <2>1. Goto(t, "enqueueing") /\ At(t, "upserting")
      BY <1>6 DEF UploadUpsert
    <2>2. /\ \A u \in Tasks \ {t} : req'[u] = req[u]
          /\ req'[t].phase = "enqueueing" /\ req'[t].slot = req[t].slot
      BY <1>1, <2>1
    <2>3. CASE UNCHANGED <<documents, slot>>
      BY <1>2, <2>1, <2>2, <2>3, DropsStay DEF Spent, Landing
    <2>4. CASE documents' = documents \cup {t} /\ slot' = [slot EXCEPT ![t] = req[t].slot]
      <3>1. \A d \in Docs : slot'[d] = IF d = t THEN req[t].slot ELSE slot[d]
        BY <2>4 DEF StoreType
      <3>2. ~Spent(t) /\ req[t].phase \in Landing
        BY <2>1 DEF At, Spent, Landing
      <3>3. \A d \in Docs : Spent(d) => Spent(d)' /\ d # t
        BY <2>2, <3>2, PipelineAssumption DEF Spent
      <3>4. Spent(t)'
        BY <2>2 DEF Spent
      <3>5. \A d \in documents' : Spent(d)'
        BY <2>4, <3>3, <3>4 DEF DropsInTurn, StoreType
      <3>6. ASSUME NEW d \in dropping'
            PROVE  /\ Spent(d)'
                   /\ \A e \in documents' : slot'[e] # slot'[d]
                   /\ \A u \in Tasks : req'[u].phase \in Landing => req'[u].slot # slot'[d]
        <4>1. d \in Docs /\ Spent(d) /\ d # t /\ slot'[d] = slot[d]
          BY <1>2, <3>1, <3>3, <3>6 DEF DropsInTurn, CountType
        <4>2. \A e \in documents' : slot'[e] # slot'[d]
          BY <1>2, <2>4, <3>1, <3>2, <3>6, <4>1, PipelineAssumption DEF DropsInTurn, StoreType
        <4>3. \A u \in Tasks : req'[u].phase \in Landing => req'[u].slot # slot'[d]
          BY <1>2, <2>2, <3>6, <4>1 DEF DropsInTurn, Landing
        <4> QED
          BY <3>3, <4>1, <4>2, <4>3
      <3> QED
        BY <3>5, <3>6 DEF DropsInTurn
    <2> QED
      BY <1>6, <2>3, <2>4 DEF UploadUpsert, InsertDocument, UpdateDocument
  <1> QED
    BY <1>3, <1>4, <1>5, <1>6 DEF UploadStep

LEMMA DropsStep ==
    ASSUME Overlap # "free", RebuildInv, SlotsByDocument, DropsInTurn, [RebuildNext]_rebuildVars
    PROVE  DropsInTurn'
  <1>1. StoreType /\ RequestType(RebuildPhases) /\ CountType
    BY DEF RebuildInv, RebuildTypes, PipelineTypes
  <1>2. RequestsMove
    BY <1>1, RequestsStep
  <1>3. ASSUME UNCHANGED <<documents, slot, req>>, dropping' \subseteq dropping PROVE DropsInTurn'
    BY <1>1, <1>3, DropsStay DEF Spent
  <1>4. ASSUME NEW t \in Tasks, NEW s \in Slots, NEW c \in Uploads, UploadRead(t, s, c)
        PROVE  DropsInTurn'
    <2>1. At(t, "none") /\ UNCHANGED <<documents, slot, dropping>>
      BY <1>4 DEF UploadRead, storeVars
    <2>2. \A d \in dropping : slot[d] # s
      BY <1>4 DEF UploadRead, MayStart
    <2>3. /\ \A u \in Tasks \ {t} : req'[u] = req[u]
          /\ req'[t].phase \in {"storing", "skipping"} /\ req'[t].slot = s
      BY <1>1, <1>4 DEF UploadRead, RequestType
    <2>4. \A d \in Docs : Spent(d) => Spent(d)'
      BY <2>1, <2>3, PipelineAssumption DEF Spent, At
    <2>5. \A d \in dropping' :
            /\ Spent(d)'
            /\ \A e \in documents' : slot'[e] # slot'[d]
            /\ \A u \in Tasks : req'[u].phase \in Landing => req'[u].slot # slot'[d]
      BY <1>1, <2>1, <2>2, <2>3, <2>4 DEF DropsInTurn, CountType
    <2>6. \A d \in documents' : Spent(d)'
      BY <1>1, <2>1, <2>4 DEF DropsInTurn, StoreType
    <2> QED
      BY <2>5, <2>6 DEF DropsInTurn
  <1>5. ASSUME NEW d \in Docs, Remove(d) PROVE DropsInTurn'
    <2>1. /\ d \in documents /\ documents' = documents \ {d} /\ dropping' = dropping \cup {d}
          /\ UNCHANGED <<slot, req>>
      BY <1>5 DEF Remove, DeleteDocument, requestVars
    <2>2. InUpload(slot[d]) = {}
      BY <1>5 DEF Remove
    <2>3. \A t \in Tasks : req[t].phase \in Landing => req[t].slot # slot[d]
      BY <2>2 DEF InUpload, Landing
    <2>4. \A e \in documents' : slot[e] # slot[d]
      BY <2>1 DEF SlotsByDocument, OneDocumentPerSlot
    <2> QED
      BY <2>1, <2>3, <2>4 DEF DropsInTurn, Spent
  <1>6. ASSUME NEW d \in Docs, RemoveBytes(d) \/ RemoveBytesFails(d) PROVE DropsInTurn'
    BY <1>3, <1>6 DEF RemoveBytes, DropBytes, RemoveBytesFails, storeVars, requestVars
  <1>7. ASSUME NEW t \in Tasks, LeaseLapses(t) \/ LeaseOverrun(t) PROVE DropsInTurn'
    BY <1>3, <1>7 DEF LeaseLapses, LeaseOverrun, requestVars, storeVars
  <1>8. ASSUME NEW w \in Workers, ClaimBatch(w) \/ WorkerCrash(w) \/ WorkerRestart(w)
        PROVE  DropsInTurn'
    BY <1>3, <1>8 DEF ClaimBatch, WorkerCrash, WorkerRestart, requestVars, storeVars
  <1>9. ASSUME NEW w \in Workers, NEW t \in Tasks, BodyStep(w, t) \/ RunVanishes(w, t)
        PROVE  DropsInTurn'
    <2>1. CASE InsertNewChunks(w, t) \/ EmbedNext(w, t) \/ Flip(w, t)
      BY <1>3, <2>1 DEF InsertNewChunks, EmbedNext, Flip, ReplaceVersion, EmbedChunks, FlipLive,
                        requestVars
    <2>2. CASE StartExtracting(w, t) \/ StartChunking(w, t) \/ StartEmbedding(w, t)
               \/ SkipRemoved(w, t) \/ Finish(w, t) \/ RunVanishes(w, t)
      BY <1>3, <2>2 DEF StartExtracting, StartChunking, StartEmbedding, SkipRemoved, Finish,
                        RunVanishes, requestVars, storeVars
    <2>3. CASE Extract(w, t) \/ DeleteOldChunks(w, t) \/ ListChunks(w, t)
      BY <1>3, <2>3 DEF Extract, DeleteOldChunks, ListChunks, requestVars, storeVars
    <2>4. CASE \E retryable \in BOOLEAN : RunFails(w, t, retryable)
      BY <1>3, <2>4 DEF RunFails, requestVars, storeVars
    <2> QED
      BY <1>9, <2>1, <2>2, <2>3, <2>4 DEF BodyStep
  <1>10. CASE ModelChange
    <2>1. UNCHANGED <<documents, slot, dropping>>
      <3>1. UNCHANGED dropping
        BY <1>10 DEF ModelChange, AdminCheck, AdminEnqueue, RebuildStep, StartRebuild, ReadMissing,
                     Backfill, Sweep, SwitchModel, FinishRebuild
      <3> QED
        BY <1>10, <3>1, ModelChangeStoreStep
    <2>2. \A t \in Tasks : Spent(t) => Spent(t)'
      BY <1>2 DEF RequestsMove
    <2>3. req' = req \/ \E t \in Tasks, phase \in {"checked", "over"} : Goto(t, phase)
      BY <1>10 DEF ModelChange, AdminCheck, AdminEnqueue, RebuildStep, StartRebuild, ReadMissing,
                   Backfill, Sweep, SwitchModel, FinishRebuild, requestVars
    <2>4. \A t \in Tasks : req'[t] = req[t] \/ req'[t].phase \notin Landing
      BY <1>1, <2>3 DEF Goto, RequestType, Landing
    <2> QED
      BY <1>1, <2>1, <2>2, <2>4, DropsStay
  <1>11. CASE UNCHANGED pipelineVars
    BY <1>3, <1>11 DEF pipelineVars, requestVars, storeVars
  <1>12. ASSUME NEW t \in Tasks, UploadStep(t) \/ UploadFault(t) PROVE DropsInTurn'
    BY <1>1, <1>12, UploadDropsInTurn
  <1> QED
    BY <1>4, <1>5, <1>6, <1>7, <1>8, <1>9, <1>10, <1>11, <1>12, RebuildStepCases DEF PipelineNext

=============================================================================
